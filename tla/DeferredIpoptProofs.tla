-------------------------- MODULE DeferredIpoptProofs --------------------------
(***************************************************************************)
(* Proofs about DeferredIpopt, for any threads, file names, populations,      *)
(* requests and numbers of evaluations and solves.                           *)
(***************************************************************************)
EXTENDS DeferredIpopt, TLAPS

(* TypeOK, for the library, the calls and the solves.                          *)
LibraryTyped ==
    /\ disk \in [Places -> FileKind]
    /\ api \in {"none", "loading", "ready"}
    /\ loader \in Threads \cup {NoThread}
    /\ trying \in Nat
    /\ open \in SUBSET Places
    /\ loaded \in Places \cup {NoPlace}
    /\ promised \in SUBSET Threads

CallTyped ==
    /\ pc \in [Threads -> Steps]
    /\ outcome \in [Threads -> {"none", "returned", "error", "available", "unavailable"}]
    /\ pop \in [Solvers -> Seq(Ranks)]
    /\ request \in [Solvers -> Requests \cup {NoRequest}]
    /\ chosen \in [Solvers -> Nat]
    /\ problem \in [Solvers -> {"none", "live"}]
    /\ hessianFrom \in [Solvers -> {"exact", "limited-memory"}]

Marshallers == [evals : Nat, lines : SUBSET Nat, trapped : BOOLEAN]

SolveTyped ==
    /\ nlp \in [Solvers -> Marshallers]
    /\ threw \in [Solvers -> BOOLEAN]
    /\ solves \in [Solvers -> Nat] /\ lastRes \in [Solvers -> Nat]
    /\ log \in [Solvers -> [solve : Nat, lines : SUBSET Nat]]

Typed == LibraryTyped /\ CallTyped /\ SolveTyped

(* The thread that runs the initialiser is the one that is loading.             *)
LibraryInv ==
    /\ LibraryStaysOpen
    /\ \A t \in Threads : pc[t] = "loading" <=> loader = t
    /\ api = "loading" <=> loader # NoThread
    /\ trying >= 1

(* While a thread is promised the library, it comes first; a promised loader has *)
(* passed over absent places only.                                             *)
PromiseInv ==
    /\ promised # {} => GoodComesFirst(disk)
    /\ \A t \in promised : pc[t] \in {"library", "loading"}
    /\ loader \in promised =>
           /\ \A p \in Places : p < trying => disk[p] = "absent"
           /\ loaded # NoPlace => disk[loaded] = "good"

(* Past the check of an empty population, the chosen individual is one the        *)
(* selection policy picks.                                                     *)
CallInv ==
    /\ \A t \in Threads \ Solvers : pc[t] \in {"idle", "library", "loading"}
    /\ HandleOwned
    /\ \A t \in Solvers :
          /\ pc[t] = "idle" => request[t] = NoRequest
          /\ pc[t] # "idle" => \/ pc[t] = "guess" /\ pop[t] = <<>>
                               \/ chosen[t] \in Picks(pop[t], request[t].select)

EveryVth(n, v) == {k \in 1..n : v # 0 /\ (k - 1) % v = 0}

(* A marshaller is of one call, has every verbosity-th line, and holds what a     *)
(* callback threw; the log of an evolve that compares is the marshaller's.      *)
SolveInv ==
    \A t \in Solvers :
        /\ threw[t] = nlp[t].trapped
        /\ pc[t] \notin {"solve", "solved", "replace"} => nlp[t] = NoMarshaller
        /\ nlp[t].lines = EveryVth(nlp[t].evals, request[t].verbosity)
        /\ lastRes[t] = solves[t] /\ log[t].solve <= lastRes[t]
        /\ pc[t] = "idle" /\ outcome[t] = "returned" /\ pop[t] # <<>>
              => log[t].solve = lastRes[t]
        /\ pc[t] = "replace" => log[t] = [solve |-> lastRes[t], lines |-> nlp[t].lines]

IInv == Typed /\ LibraryInv /\ PromiseInv /\ CallInv /\ SolveInv
-----------------------------------------------------------------------------
LEMMA TypedIsTypeOK == Typed <=> TypeOK
  BY DEF Typed, LibraryTyped, CallTyped, SolveTyped, Marshallers, TypeOK

(* The library does not notice what a thread does that neither asks for it nor    *)
(* loads it.                                                                    *)
LEMMA LibraryKept ==
  ASSUME IInv, NEW t \in Solvers, NEW s \in Steps \ {"library", "loading"},
         pc[t] \notin {"library", "loading"},
         s \in {"idle", "guess"} \/ UsesLibrary(t),
         pc' = [pc EXCEPT ![t] = s],
         UNCHANGED libraryVars
  PROVE  LibraryTyped' /\ LibraryInv' /\ PromiseInv'
<1> USE IpoptAssumption DEF IInv, Typed, CallTyped, libraryVars
<1>1. LibraryTyped'
  BY DEF LibraryTyped
<1>2. LibraryInv'
  BY DEF LibraryInv, LibraryStaysOpen, UsesLibrary, Steps
<1>3. PromiseInv'
  BY DEF PromiseInv, GoodComesFirst
<1> QED
  BY <1>1, <1>2, <1>3

(* Leaving evolve restores the locals, whatever becomes of the population.       *)
LEMMA LeaveKept ==
  ASSUME IInv, NEW t \in Solvers, NEW how \in {"returned", "error"}, Leave(t, how),
         UNCHANGED <<solves, lastRes, log>>,
         pop' \in [Solvers -> Seq(Ranks)],
         \A u \in Solvers : u # t => pop'[u] = pop[u],
         how = "returned" => pop'[t] = <<>> \/ log[t].solve = lastRes[t]
  PROVE  CallTyped' /\ SolveTyped' /\ CallInv' /\ SolveInv'
<1> USE IpoptAssumption DEF IInv, Typed, CallTyped, SolveTyped, Leave
<1>1. CallTyped'
  BY DEF Steps, IpoptDefault
<1>2. NoMarshaller \in Marshallers
  BY DEF NoMarshaller, Marshallers
<1>3. SolveTyped'
  BY <1>2
<1>4. CallInv'
  BY DEF CallInv, HandleOwned, Picks
<1>5. SolveInv'
  <2> SUFFICES ASSUME NEW u \in Solvers PROVE SolveInv!(u)'
    BY DEF SolveInv
  <2>1. CASE u = t
    <3>1. NoMarshaller.lines = EveryVth(NoMarshaller.evals, NoRequest.verbosity)
      BY DEF NoMarshaller, EveryVth, NoRequest
    <3>2. lastRes[t] = solves[t] /\ log[t].solve <= lastRes[t]
      BY DEF SolveInv
    <3> QED
      BY <2>1, <3>1, <3>2 DEF NoMarshaller
  <2>2. CASE u # t
    BY <2>2 DEF SolveInv
  <2> QED
    BY <2>1, <2>2
<1> QED
  BY <1>1, <1>3, <1>4, <1>5

LEMMA ThrowKept ==
  ASSUME IInv, NEW t \in Solvers, Throw(t)
  PROVE  CallTyped' /\ SolveTyped' /\ CallInv' /\ SolveInv'
<1>1. Leave(t, "error") /\ UNCHANGED <<pop, solves, lastRes, log>>
  BY DEF Throw
<1> QED
  BY <1>1, LeaveKept DEF IInv, Typed, CallTyped

LEMMA ThrowStep ==
  ASSUME IInv, NEW t \in Solvers, pc[t] \notin {"library", "loading"}, Throw(t),
         UNCHANGED libraryVars
  PROVE  IInv'
<1>1. pc' = [pc EXCEPT ![t] = "idle"]
  BY DEF Throw, Leave
<1> QED
  BY <1>1, ThrowKept, LibraryKept DEF IInv, Typed, Steps

(* A thread that moves on within a call, or a probe that begins or ends one,      *)
(* leaves the solves alone.                                                    *)
LEMMA CallsKept ==
  ASSUME IInv, NEW t \in Threads, NEW s \in Steps, NEW how,
         pc' = [pc EXCEPT ![t] = s],
         how \in {"none", "returned", "error", "available", "unavailable"},
         outcome' = outcome \/ outcome' = [outcome EXCEPT ![t] = how],
         t \in Solvers => /\ pc[t] \in {"library", "loading"}
                          /\ s \in {"library", "loading", "prepare"},
         t \notin Solvers => s \in {"idle", "library", "loading"},
         UNCHANGED <<pop, request, solveVars>>
  PROVE  CallTyped' /\ SolveTyped' /\ CallInv' /\ SolveInv'
<1> USE IpoptAssumption DEF IInv, Typed, CallTyped, SolveTyped, solveVars
<1>1. CallTyped' /\ SolveTyped'
  <2>1. outcome' \in [Threads -> {"none", "returned", "error", "available", "unavailable"}]
    OBVIOUS
  <2> QED
    BY <2>1
<1>2. CallInv'
  BY DEF CallInv, HandleOwned, Picks
<1>3. SolveInv'
  <2> SUFFICES ASSUME NEW u \in Solvers PROVE SolveInv!(u)'
    BY DEF SolveInv
  <2>1. CASE u = t
    BY <2>1 DEF SolveInv
  <2>2. CASE u # t
    <3>1. outcome'[u] = outcome[u] /\ pc'[u] = pc[u]
      BY <2>2
    <3> QED
      BY <3>1 DEF SolveInv
  <2> QED
    BY <2>1, <2>2
<1> QED
  BY <1>1, <1>2, <1>3

LEMMA NoApiKept ==
  ASSUME IInv, NEW t \in Threads, pc[t] = "loading", NoApi(t)
  PROVE  CallTyped' /\ SolveTyped' /\ CallInv' /\ SolveInv'
<1>1. CASE t \in Solvers
  BY <1>1, ThrowKept DEF NoApi
<1>2. CASE t \notin Solvers
  BY <1>2, CallsKept DEF NoApi, Steps
<1> QED
  BY <1>1, <1>2

LEMMA HaveApiKept ==
  ASSUME IInv, NEW t \in Threads, pc[t] \in {"library", "loading"}, HaveApi(t)
  PROVE  CallTyped' /\ SolveTyped' /\ CallInv' /\ SolveInv'
<1>1. CASE t \in Solvers
  BY <1>1, CallsKept DEF HaveApi, Goto, Steps
<1>2. CASE t \notin Solvers
  BY <1>2, CallsKept DEF HaveApi, Steps
<1> QED
  BY <1>1, <1>2
-----------------------------------------------------------------------------
LEMMA EvolveStep ==
  ASSUME IInv, NEW t \in Solvers, Evolve(t)
  PROVE  IInv'
<1> USE IpoptAssumption DEF IInv, Typed
<1>1. PICK p \in Populations, r \in Requests :
          /\ pop' = [pop EXCEPT ![t] = p]
          /\ request' = [request EXCEPT ![t] = r]
          /\ \/ p = <<>> /\ UNCHANGED chosen
             \/ \E i \in Picks(p, r.select) : chosen' = [chosen EXCEPT ![t] = i]
  BY DEF Evolve
<1>2. /\ pc[t] = "idle" /\ pc' = [pc EXCEPT ![t] = "guess"]
      /\ outcome' = [outcome EXCEPT ![t] = "none"]
      /\ UNCHANGED <<libraryVars, nlp, threw, problem, hessianFrom, solves, lastRes, log>>
  BY DEF Evolve, Call
<1>3. LibraryTyped' /\ LibraryInv' /\ PromiseInv'
  BY <1>2, LibraryKept DEF Steps
<1>4. Picks(p, r.select) \subseteq Nat
  BY DEF Picks
<1>5. CallTyped' /\ SolveTyped'
  <2>1. chosen' \in [Solvers -> Nat]
    <3>1. CASE p = <<>> /\ UNCHANGED chosen
      BY <3>1 DEF CallTyped
    <3>2. CASE \E i \in Picks(p, r.select) : chosen' = [chosen EXCEPT ![t] = i]
      BY <1>4, <3>2 DEF CallTyped
    <3> QED
      BY <1>1, <3>1, <3>2
  <2>2. CallTyped'
    BY <1>1, <1>2, <2>1 DEF CallTyped, Steps
  <2>3. SolveTyped'
    BY <1>2 DEF SolveTyped
  <2> QED
    BY <2>2, <2>3
<1>6. CallInv'
  <2> SUFFICES ASSUME NEW u \in Solvers, u = t PROVE CallInv!3!(u)'
    BY <1>1, <1>2 DEF CallInv, HandleOwned, CallTyped
  <2> QED
    BY <1>1, <1>2 DEF CallTyped
<1>7. SolveInv'
  <2> SUFFICES ASSUME NEW u \in Solvers PROVE SolveInv!(u)'
    BY DEF SolveInv
  <2>1. CASE u = t
    <3>1. nlp'[t] = NoMarshaller /\ threw'[t] = threw[t] /\ nlp[t] = NoMarshaller
      BY <1>2 DEF SolveInv
    <3>2. NoMarshaller.lines = EveryVth(NoMarshaller.evals, r.verbosity)
      BY DEF NoMarshaller, EveryVth
    <3>3. request'[t] = r /\ pc'[t] = "guess"
      BY <1>1, <1>2 DEF CallTyped
    <3>4. lastRes'[t] = solves'[t] /\ log'[t].solve <= lastRes'[t]
      BY <1>2 DEF SolveInv
    <3> QED
      BY <2>1, <3>1, <3>2, <3>3, <3>4 DEF SolveInv
  <2>2. CASE u # t
    BY <1>1, <1>2, <2>2 DEF SolveInv, CallTyped
  <2> QED
    BY <2>1, <2>2
<1> QED
  BY <1>3, <1>5, <1>6, <1>7

LEMMA AskStep ==
  ASSUME IInv, NEW t \in Threads, pc[t] \notin {"library", "loading"},
         t \notin Solvers \/ ~UsesLibrary(t),
         pc' = [pc EXCEPT ![t] = "library"],
         promised' = IF GoodComesFirst(disk) THEN promised \cup {t} ELSE promised,
         UNCHANGED <<disk, api, loader, trying, open, loaded>>
  PROVE  LibraryTyped' /\ LibraryInv' /\ PromiseInv'
<1> USE IpoptAssumption DEF IInv, Typed, CallTyped
<1>1. LibraryTyped'
  BY DEF LibraryTyped
<1>2. LibraryInv'
  BY DEF LibraryInv, LibraryStaysOpen, UsesLibrary, Steps
<1>3. PromiseInv'
  <2>1. loader # t
    BY DEF LibraryInv
  <2>2. loader \in promised' => loader \in promised
    BY <2>1
  <2> QED
    BY <2>2 DEF PromiseInv, GoodComesFirst
<1> QED
  BY <1>1, <1>2, <1>3

LEMMA CheckGuessStep ==
  ASSUME IInv, NEW t \in Solvers, CheckGuess(t)
  PROVE  IInv'
<1> USE IpoptAssumption DEF IInv, Typed
<1>1. CASE /\ pop[t] = <<>> /\ Leave(t, "returned")
           /\ UNCHANGED <<libraryVars, pop, solves, lastRes, log>>
  BY <1>1, LeaveKept, LibraryKept DEF CheckGuess, Leave, Steps, CallTyped
<1>2. CASE Throw(t) /\ UNCHANGED libraryVars
  BY <1>2, ThrowStep DEF CheckGuess
<1>3. CASE /\ pop[t] # <<>> /\ Goto(t, "library")
           /\ promised' = IF GoodComesFirst(disk) THEN promised \cup {t} ELSE promised
           /\ UNCHANGED <<disk, api, loader, trying, open, loaded, pop, request, solveVars>>
  <2>1. pc[t] = "guess" /\ pc' = [pc EXCEPT ![t] = "library"] /\ UNCHANGED outcome
    BY <1>3 DEF CheckGuess, Goto
  <2>2. LibraryTyped' /\ LibraryInv' /\ PromiseInv'
    BY <1>3, <2>1, AskStep DEF UsesLibrary
  <2>3. CallTyped' /\ SolveTyped'
    BY <1>3, <2>1 DEF CallTyped, SolveTyped, solveVars, Steps
  <2>4. CallInv'
    BY <1>3, <2>1 DEF CallInv, HandleOwned, Picks, CallTyped, solveVars
  <2>5. SolveInv'
    BY <1>3, <2>1 DEF SolveInv, CallTyped, solveVars
  <2> QED
    BY <2>2, <2>3, <2>4, <2>5
<1> QED
  BY <1>1, <1>2, <1>3 DEF CheckGuess

LEMMA ProbeStep ==
  ASSUME IInv, NEW t \in Threads, Probe(t)
  PROVE  IInv'
<1>1. LibraryTyped' /\ LibraryInv' /\ PromiseInv'
  BY AskStep DEF Probe, Call
<1>2. CallTyped' /\ SolveTyped' /\ CallInv' /\ SolveInv'
  BY CallsKept DEF Probe, Call, Steps
<1> QED
  BY <1>1, <1>2 DEF IInv, Typed
-----------------------------------------------------------------------------
LEMMA ApiReadyStep ==
  ASSUME IInv, NEW t \in Threads, ApiReady(t)
  PROVE  IInv'
<1>1. CallTyped' /\ SolveTyped' /\ CallInv' /\ SolveInv'
  BY HaveApiKept DEF ApiReady
<1>2. PICK s \in Steps \ {"library", "loading"} : pc' = [pc EXCEPT ![t] = s]
  BY DEF ApiReady, HaveApi, Goto, Steps
<1>3. /\ pc[t] = "library" /\ api = "ready" /\ promised' = promised \ {t}
      /\ UNCHANGED <<disk, api, loader, trying, open, loaded>>
  BY DEF ApiReady, HaveApi
<1> USE DEF IInv, Typed, CallTyped
<1>4. LibraryTyped'
  BY <1>3 DEF LibraryTyped
<1>5. LibraryInv'
  BY <1>2, <1>3, IpoptAssumption DEF LibraryInv, LibraryStaysOpen, UsesLibrary
<1>6. PromiseInv'
  BY <1>2, <1>3 DEF PromiseInv, GoodComesFirst
<1> QED
  BY <1>1, <1>4, <1>5, <1>6

LEMMA StartLoadingStep ==
  ASSUME IInv, NEW t \in Threads, StartLoading(t)
  PROVE  IInv'
<1>1. CallTyped' /\ SolveTyped' /\ CallInv' /\ SolveInv'
  BY CallsKept DEF StartLoading, Goto, Steps
<1>2. /\ pc[t] = "library" /\ api = "none" /\ pc' = [pc EXCEPT ![t] = "loading"]
      /\ api' = "loading" /\ loader' = t /\ trying' = 1
      /\ UNCHANGED <<disk, open, loaded, promised>>
  BY DEF StartLoading, Goto
<1> USE IpoptAssumption DEF IInv, Typed, CallTyped
<1>3. LibraryTyped'
  BY <1>2 DEF LibraryTyped
<1>4. LibraryInv'
  BY <1>2 DEF LibraryInv, LibraryStaysOpen, UsesLibrary
<1>5. loaded = NoPlace
  BY <1>2 DEF LibraryInv, LibraryStaysOpen, LibraryTyped
<1>6. PromiseInv'
  BY <1>2, <1>5 DEF PromiseInv, GoodComesFirst, Places
<1> QED
  BY <1>1, <1>3, <1>4, <1>6

LEMMA TryPlaceStep ==
  ASSUME IInv, NEW t \in Threads, TryPlace(t)
  PROVE  IInv'
<1> USE IpoptAssumption DEF IInv, Typed
<1>1. CallTyped' /\ SolveTyped' /\ CallInv' /\ SolveInv'
  BY DEF TryPlace, CallTyped, SolveTyped, CallInv, HandleOwned, Picks, SolveInv, solveVars
<1>2. LibraryTyped'
  <2>1. trying \in Nat /\ trying \in Places
    BY DEF TryPlace, LibraryTyped
  <2>2. trying + 1 \in Nat /\ open \cup {trying} \in SUBSET Places
    BY <2>1 DEF LibraryTyped
  <2>3. CASE disk[trying] = "absent"
    BY <2>2, <2>3 DEF TryPlace, LibraryTyped
  <2>4. CASE disk[trying] # "absent"
    BY <2>1, <2>2, <2>4 DEF TryPlace, LibraryTyped
  <2> QED
    BY <2>3, <2>4
<1>3. LibraryInv'
  BY DEF TryPlace, LibraryInv, LibraryStaysOpen, UsesLibrary, Places, NoPlace, LibraryTyped
<1>4. PromiseInv'
  <2>1. CASE disk[trying] = "absent"
    BY <2>1 DEF TryPlace, PromiseInv, GoodComesFirst, LibraryTyped, Places
  <2>2. CASE disk[trying] # "absent"
    <3>1. loader = t /\ loaded' = trying /\ UNCHANGED <<disk, loader, trying, pc, promised>>
      BY <2>2 DEF TryPlace, LibraryInv
    <3>2. loader \in promised => disk[trying] = "good"
      BY <2>2, <3>1 DEF TryPlace, PromiseInv, GoodComesFirst, LibraryTyped, Places
    <3> QED
      BY <3>1, <3>2 DEF PromiseInv, GoodComesFirst
  <2> QED
    BY <2>1, <2>2
<1> QED
  BY <1>1, <1>2, <1>3, <1>4

(* The initialiser ends without a library, and no handle stays open.             *)
LEMMA LoadFails ==
  ASSUME IInv, NEW t \in Threads, pc[t] = "loading", NoApi(t),
         open' = {}, loaded' = NoPlace, UNCHANGED <<disk, trying>>
  PROVE  IInv'
<1>1. CallTyped' /\ SolveTyped' /\ CallInv' /\ SolveInv'
  BY NoApiKept
<1>2. /\ pc' = [pc EXCEPT ![t] = "idle"] /\ promised' = promised \ {t}
      /\ api' = "none" /\ loader' = NoThread
  BY DEF NoApi, Throw, Leave
<1> USE IpoptAssumption DEF IInv, Typed, CallTyped
<1>3. LibraryTyped'
  BY <1>2 DEF LibraryTyped
<1>4. LibraryInv'
  BY <1>2 DEF LibraryInv, LibraryStaysOpen, UsesLibrary
<1>5. PromiseInv'
  BY <1>2 DEF PromiseInv, GoodComesFirst, LibraryInv, LibraryTyped
<1> QED
  BY <1>1, <1>3, <1>4, <1>5

LEMMA NothingLoadsStep ==
  ASSUME IInv, NEW t \in Threads, NothingLoads(t)
  PROVE  IInv'
<1>1. open = {}
  BY DEF NothingLoads, IInv, LibraryInv, LibraryStaysOpen
<1> QED
  BY <1>1, LoadFails DEF NothingLoads

LEMMA ResolveSymbolsStep ==
  ASSUME IInv, NEW t \in Threads, ResolveSymbols(t)
  PROVE  IInv'
<1>1. CASE disk[loaded] # "good"
  <2>1. open' = {}
    BY <1>1 DEF ResolveSymbols, IInv, LibraryInv, LibraryStaysOpen
  <2> QED
    BY <1>1, <2>1, LoadFails DEF ResolveSymbols
<1>2. CASE disk[loaded] = "good"
  <2>1. CallTyped' /\ SolveTyped' /\ CallInv' /\ SolveInv'
    BY <1>2, HaveApiKept DEF ResolveSymbols
  <2>2. PICK s \in Steps \ {"library", "loading"} : pc' = [pc EXCEPT ![t] = s]
    BY <1>2 DEF ResolveSymbols, HaveApi, Goto, Steps
  <2>3. /\ pc[t] = "loading" /\ loaded # NoPlace /\ promised' = promised \ {t}
        /\ api' = "ready" /\ loader' = NoThread
        /\ UNCHANGED <<disk, trying, open, loaded>>
    BY <1>2 DEF ResolveSymbols, HaveApi
  <2> USE IpoptAssumption DEF IInv, Typed, CallTyped
  <2>4. LibraryTyped'
    BY <2>3 DEF LibraryTyped
  <2>5. LibraryInv'
    BY <1>2, <2>2, <2>3 DEF LibraryInv, LibraryStaysOpen, UsesLibrary
  <2>6. PromiseInv'
    BY <2>2, <2>3 DEF PromiseInv, GoodComesFirst, LibraryTyped
  <2> QED
    BY <2>1, <2>4, <2>5, <2>6
<1> QED
  BY <1>1, <1>2

LEMMA DiskChangesStep ==
  ASSUME IInv, DiskChanges
  PROVE  IInv'
<1> USE IpoptAssumption DEF IInv, Typed
<1>1. CallTyped' /\ SolveTyped' /\ CallInv' /\ SolveInv'
  BY DEF DiskChanges, CallTyped, SolveTyped, CallInv, HandleOwned, Picks, SolveInv, solveVars
<1>2. LibraryTyped'
  BY DEF DiskChanges, LibraryTyped
<1>3. LibraryInv'
  BY DEF DiskChanges, LibraryInv, LibraryStaysOpen, UsesLibrary
<1>4. PromiseInv'
  BY DEF DiskChanges, PromiseInv
<1> QED
  BY <1>1, <1>2, <1>3, <1>4
-----------------------------------------------------------------------------
(* A step of a solver between two points of evolve past get_ipopt_api().         *)
LEMMA SolverMoves ==
  ASSUME IInv, NEW t \in Solvers, NEW s \in {"options", "solve", "solved", "replace"},
         UsesLibrary(t), pc' = [pc EXCEPT ![t] = s],
         UNCHANGED <<libraryVars, outcome, pop, request, chosen>>,
         problem' = [problem EXCEPT ![t] = "live"],
         hessianFrom' \in [Solvers -> {"exact", "limited-memory"}]
  PROVE  /\ LibraryTyped' /\ CallTyped'
         /\ LibraryInv' /\ PromiseInv' /\ CallInv'
<1>1. LibraryTyped' /\ LibraryInv' /\ PromiseInv'
  <2>1. pc[t] \notin {"library", "loading"} /\ s \in Steps \ {"library", "loading"}
    BY DEF UsesLibrary, Steps
  <2> QED
    BY <2>1, LibraryKept
<1> USE IpoptAssumption DEF IInv, Typed, CallTyped
<1>2. CallTyped'
  BY DEF Steps
<1>3. CallInv'
  BY DEF CallInv, HandleOwned, Picks, UsesLibrary
<1> QED
  BY <1>1, <1>2, <1>3

LEMMA PrepareStep ==
  ASSUME IInv, NEW t \in Solvers, Prepare(t)
  PROVE  IInv'
<1>1. CASE Throw(t)
  BY <1>1, ThrowStep DEF Prepare
<1>2. CASE ~Throw(t)
  <2>1. /\ pc[t] = "prepare" /\ pc' = [pc EXCEPT ![t] = "options"]
        /\ problem' = [problem EXCEPT ![t] = "live"]
        /\ UNCHANGED <<libraryVars, outcome, pop, request, chosen, nlp, threw, hessianFrom,
                       solves, lastRes, log>>
    BY <1>2 DEF Prepare, Goto
  <2>2. SolveTyped' /\ SolveInv'
    BY <2>1 DEF IInv, Typed, CallTyped, SolveTyped, SolveInv
  <2> QED
    BY <2>1, <2>2, SolverMoves DEF UsesLibrary, IInv, Typed, CallTyped
<1> QED
  BY <1>1, <1>2

LEMMA ApplyOptionsStep ==
  ASSUME IInv, NEW t \in Solvers, ApplyOptions(t)
  PROVE  IInv'
<1>1. CASE Throw(t)
  BY <1>1, ThrowStep DEF ApplyOptions
<1>2. CASE ~Throw(t)
  <2>1. /\ pc[t] = "options" /\ pc' = [pc EXCEPT ![t] = "solve"]
        /\ hessianFrom' = [hessianFrom EXCEPT ![t] = HessianFor(request[t])]
        /\ UNCHANGED <<libraryVars, outcome, pop, request, chosen, nlp, threw, problem,
                       solves, lastRes, log>>
    BY <1>2 DEF ApplyOptions, Goto
  <2>2. SolveTyped' /\ SolveInv'
    BY <2>1 DEF IInv, Typed, CallTyped, SolveTyped, SolveInv
  <2>3. HessianFor(request[t]) \in {"exact", "limited-memory"}
    <3>1. request[t].hessian \in {"unset", "exact", "limited-memory"}
      BY IpoptAssumption DEF IInv, Typed, CallTyped, RequestType, NoRequest
    <3> QED
      BY <3>1 DEF HessianFor, IpoptDefault
  <2>4. problem[t] = "live"
    BY <2>1 DEF IInv, CallInv, HandleOwned
  <2>5. hessianFrom' \in [Solvers -> {"exact", "limited-memory"}]
    BY <2>1, <2>3 DEF IInv, Typed, CallTyped
  <2>6. problem' = [problem EXCEPT ![t] = "live"]
    BY <2>1, <2>4 DEF IInv, Typed, CallTyped
  <2> QED
    BY <2>1, <2>2, <2>5, <2>6, SolverMoves DEF UsesLibrary, IInv, Typed
<1> QED
  BY <1>1, <1>2
-----------------------------------------------------------------------------
(* While the solver runs, only the marshaller changes; its log stays right if     *)
(* it stays the log of its evaluations.                                         *)
LEMMA CallbackKept ==
  ASSUME IInv, NEW t \in Solvers, NEW m \in Marshallers, NEW b \in BOOLEAN,
         pc[t] = "solve",
         nlp' = [nlp EXCEPT ![t] = m], threw' = [threw EXCEPT ![t] = b],
         b = m.trapped, m.lines = EveryVth(m.evals, request[t].verbosity),
         UNCHANGED <<libraryVars, pc, outcome, pop, request, chosen, problem, hessianFrom,
                     solves, lastRes, log>>
  PROVE  IInv'
<1> USE DEF IInv, Typed, CallTyped, SolveTyped, libraryVars
<1>1. LibraryTyped' /\ LibraryInv' /\ PromiseInv'
  BY DEF LibraryTyped, LibraryInv, LibraryStaysOpen, UsesLibrary, PromiseInv, GoodComesFirst
<1>2. CallTyped' /\ SolveTyped'
  OBVIOUS
<1>3. CallInv'
  BY DEF CallInv, HandleOwned, Picks
<1>4. SolveInv'
  BY DEF SolveInv
<1> QED
  BY <1>1, <1>2, <1>3, <1>4

LEMMA TrapKept ==
  ASSUME IInv, NEW t \in Solvers, pc[t] = "solve", Trapped(t),
         UNCHANGED <<libraryVars, pc, outcome, pop, request, chosen, problem, hessianFrom,
                     solves, lastRes, log>>
  PROVE  IInv'
<1> DEFINE m == [nlp[t] EXCEPT !.trapped = TRUE]
<1>1. nlp[t] \in Marshallers
  BY DEF IInv, Typed, SolveTyped
<1>2. m \in Marshallers /\ m.trapped = TRUE /\ m.lines = nlp[t].lines /\ m.evals = nlp[t].evals
  BY <1>1 DEF Marshallers
<1>3. nlp' = [nlp EXCEPT ![t] = m] /\ threw' = [threw EXCEPT ![t] = TRUE]
  BY DEF Trapped
<1>4. m.lines = EveryVth(m.evals, request[t].verbosity)
  BY <1>2 DEF IInv, SolveInv
<1> HIDE DEF m
<1> QED
  BY <1>2, <1>3, <1>4, CallbackKept

(* The k-th evaluation is logged if k - 1 is a multiple of the verbosity.        *)
LEMMA LoggedKeepsEveryVth ==
  ASSUME NEW m \in Marshallers, NEW v \in Nat, m.lines = EveryVth(m.evals, v)
  PROVE  /\ Logged(m, v) \in Marshallers
         /\ Logged(m, v).trapped = m.trapped
         /\ Logged(m, v).lines = EveryVth(Logged(m, v).evals, v)
<1>1. m.evals \in Nat /\ m.lines \in SUBSET Nat /\ m.trapped \in BOOLEAN
  BY DEF Marshallers
<1> DEFINE n == m.evals
           new == IF v # 0 /\ n % v = 0 THEN m.lines \cup {n + 1} ELSE m.lines
<1>2. Logged(m, v) = [m EXCEPT !.evals = n + 1, !.lines = new]
  BY DEF Logged
<1>4. new \in SUBSET Nat
  BY <1>1
<1>3. new = EveryVth(n + 1, v)
  <2>1. 1..(n + 1) = 1..n \cup {n + 1}
    BY <1>1
  <2>2. (n + 1) - 1 = n
    BY <1>1
  <2> QED
    BY <2>1, <2>2 DEF EveryVth
<1> HIDE DEF new
<1>5. m = [evals |-> n, lines |-> m.lines, trapped |-> m.trapped]
  BY DEF Marshallers
<1>6. Logged(m, v) = [evals |-> n + 1, lines |-> new, trapped |-> m.trapped]
  BY <1>2, <1>5
<1>7. n + 1 \in Nat
  BY <1>1
<1>8. Logged(m, v) \in Marshallers
  BY <1>1, <1>4, <1>6, <1>7 DEF Marshallers
<1> QED
  BY <1>3, <1>6, <1>8

LEMMA EvalFStep ==
  ASSUME IInv, NEW t \in Solvers, EvalF(t)
  PROVE  IInv'
<1>1. CASE Trapped(t)
  BY <1>1, TrapKept DEF EvalF
<1>2. CASE ~Trapped(t)
  <2> DEFINE m == Logged(nlp[t], request[t].verbosity)
  <2>1. nlp[t] \in Marshallers /\ request[t].verbosity \in Nat
    BY IpoptAssumption DEF IInv, Typed, CallTyped, SolveTyped, RequestType, NoRequest
  <2>2. nlp[t].lines = EveryVth(nlp[t].evals, request[t].verbosity)
    BY DEF IInv, SolveInv
  <2>3. /\ m \in Marshallers /\ m.trapped = nlp[t].trapped
        /\ m.lines = EveryVth(m.evals, request[t].verbosity)
    BY <2>1, <2>2, LoggedKeepsEveryVth
  <2>4. nlp' = [nlp EXCEPT ![t] = m] /\ UNCHANGED threw
    BY <1>2 DEF EvalF
  <2>5. threw' = [threw EXCEPT ![t] = threw[t]] /\ threw[t] \in BOOLEAN /\ threw[t] = m.trapped
    BY <2>3, <2>4 DEF IInv, Typed, SolveTyped, SolveInv
  <2> HIDE DEF m
  <2> QED
    BY <2>3, <2>4, <2>5, CallbackKept DEF EvalF
<1> QED
  BY <1>1, <1>2

LEMMA SolverReturnsStep ==
  ASSUME IInv, NEW t \in Solvers, SolverReturns(t)
  PROVE  IInv'
<1>1. /\ pc[t] = "solve" /\ pc' = [pc EXCEPT ![t] = "solved"]
      /\ solves' = [solves EXCEPT ![t] = solves[t] + 1]
      /\ lastRes' = [lastRes EXCEPT ![t] = solves[t] + 1]
      /\ UNCHANGED <<libraryVars, outcome, pop, request, chosen, nlp, threw, problem,
                     hessianFrom, log>>
  BY DEF SolverReturns, Goto
<1>2. SolveTyped'
  <2>1. solves[t] + 1 \in Nat
    BY DEF IInv, Typed, SolveTyped
  <2> QED
    BY <1>1, <2>1 DEF IInv, Typed, SolveTyped
<1>3. SolveInv'
  BY <1>1 DEF IInv, Typed, CallTyped, SolveTyped, SolveInv
<1>4. problem' = [problem EXCEPT ![t] = "live"]
  BY <1>1 DEF IInv, Typed, CallTyped, CallInv, HandleOwned
<1> QED
  BY <1>1, <1>2, <1>3, <1>4, SolverMoves DEF UsesLibrary, IInv, Typed, CallTyped

LEMMA CopyLogStep ==
  ASSUME IInv, NEW t \in Solvers, CopyLog(t)
  PROVE  IInv'
<1>1. /\ pc[t] = "solved" /\ pc' = [pc EXCEPT ![t] = "replace"]
      /\ log' = [log EXCEPT ![t] = [solve |-> solves[t], lines |-> nlp[t].lines]]
      /\ UNCHANGED <<libraryVars, outcome, pop, request, chosen, nlp, threw, problem,
                     hessianFrom, solves, lastRes>>
  BY DEF CopyLog, Goto
<1>2. SolveTyped'
  <2>1. nlp[t].lines \in SUBSET Nat /\ solves[t] \in Nat
    BY DEF IInv, Typed, SolveTyped, Marshallers
  <2> QED
    BY <1>1, <2>1 DEF IInv, Typed, SolveTyped
<1>3. SolveInv'
  BY <1>1 DEF IInv, Typed, CallTyped, SolveTyped, SolveInv
<1>4. problem' = [problem EXCEPT ![t] = "live"]
  BY <1>1 DEF IInv, Typed, CallTyped, CallInv, HandleOwned
<1> QED
  BY <1>1, <1>2, <1>3, <1>4, SolverMoves DEF UsesLibrary, IInv, Typed, CallTyped

LEMMA ReplaceStep ==
  ASSUME IInv, NEW t \in Solvers, Replace(t)
  PROVE  IInv'
<1>1. CASE Throw(t)
  BY <1>1, ThrowStep DEF Replace
<1>2. CASE ~Throw(t)
  <2>1. /\ Leave(t, "returned") /\ UNCHANGED <<solves, lastRes, log, libraryVars>>
        /\ pc[t] = "replace"
    BY <1>2 DEF Replace
  <2>2. PICK rank \in Ranks :
           IF rank < pop[t][chosen[t]]
             THEN \E slot \in Picks(pop[t], request[t].replace) :
                     pop' = [pop EXCEPT ![t][slot] = rank]
             ELSE UNCHANGED pop
    BY <1>2 DEF Replace
  <2>3. /\ pop' \in [Solvers -> Seq(Ranks)]
        /\ \A u \in Solvers : u # t => pop'[u] = pop[u]
    <3>1. CASE UNCHANGED pop
      BY <3>1 DEF IInv, Typed, CallTyped
    <3>2. CASE \E slot \in Picks(pop[t], request[t].replace) :
                  pop' = [pop EXCEPT ![t][slot] = rank]
      <4>1. PICK slot \in DOMAIN pop[t] : pop' = [pop EXCEPT ![t][slot] = rank]
        BY <3>2 DEF Picks
      <4>2. pop[t] \in Seq(Ranks)
        BY DEF IInv, Typed, CallTyped
      <4>3. [pop[t] EXCEPT ![slot] = rank] \in Seq(Ranks)
        BY <4>1, <4>2
      <4> QED
        BY <4>1, <4>3 DEF IInv, Typed, CallTyped
    <3> QED
      BY <2>2, <3>1, <3>2
  <2>4. log[t].solve = lastRes[t]
    <3>1. log[t] = [solve |-> lastRes[t], lines |-> nlp[t].lines]
      BY <2>1 DEF IInv, SolveInv
    <3> QED
      BY <3>1
  <2>5. CallTyped' /\ SolveTyped' /\ CallInv' /\ SolveInv'
    BY <2>1, <2>3, <2>4, LeaveKept
  <2>6. LibraryTyped' /\ LibraryInv' /\ PromiseInv'
    <3>1. pc' = [pc EXCEPT ![t] = "idle"]
      BY <2>1 DEF Leave
    <3> QED
      BY <2>1, <3>1, LibraryKept DEF Steps
  <2> QED
    BY <2>6, <2>5 DEF IInv, Typed
<1> QED
  BY <1>1, <1>2
-----------------------------------------------------------------------------
LEMMA InitInv == Init => IInv
<1> SUFFICES ASSUME Init PROVE IInv
  OBVIOUS
<1> USE IpoptAssumption DEF Init
<1>1. LibraryTyped
  BY DEF LibraryTyped
<1>2. CallTyped
  BY DEF CallTyped, Steps, IpoptDefault
<1>3. SolveTyped
  BY DEF SolveTyped, Marshallers, NoMarshaller, NoLog
<1>4. LibraryInv
  BY DEF LibraryInv, LibraryStaysOpen, UsesLibrary
<1>5. PromiseInv
  BY DEF PromiseInv
<1>6. CallInv
  BY DEF CallInv, HandleOwned
<1>7. SolveInv
  <2>1. NoMarshaller.lines = EveryVth(NoMarshaller.evals, NoRequest.verbosity)
    BY DEF NoMarshaller, EveryVth, NoRequest
  <2>2. \A t \in Solvers : /\ lastRes[t] = 0 /\ solves[t] = 0 /\ log[t].solve = 0
                          /\ pc[t] = "idle" /\ outcome[t] = "none"
    BY DEF NoLog
  <2>3. ASSUME NEW t \in Solvers PROVE log[t].solve <= lastRes[t]
    <3>1. log[t].solve = 0 /\ lastRes[t] = 0
      BY <2>2
    <3> QED
      BY ONLY <3>1
  <2> QED
    BY <2>1, <2>2, <2>3 DEF SolveInv, NoMarshaller
<1> QED
  BY <1>1, <1>2, <1>3, <1>4, <1>5, <1>6, <1>7 DEF IInv, Typed

LEMMA InvariantStep == IInv /\ [Next]_vars => IInv'
<1> SUFFICES ASSUME IInv, [Next]_vars PROVE IInv'
  OBVIOUS
<1>1. CASE DiskChanges
  BY <1>1, DiskChangesStep
<1>2. ASSUME NEW t \in Threads, Probe(t) \/ ApiReady(t) \/ Loading(t) PROVE IInv'
  BY <1>2, ProbeStep, ApiReadyStep, StartLoadingStep, TryPlaceStep, NothingLoadsStep,
     ResolveSymbolsStep DEF Loading
<1>3. ASSUME NEW t \in Solvers, Evolve(t) \/ CheckGuess(t) PROVE IInv'
  BY <1>3, EvolveStep, CheckGuessStep
<1>4. ASSUME NEW t \in Solvers, EvalF(t) \/ EvalOther(t) \/ EvalH(t) PROVE IInv'
  BY <1>4, EvalFStep, TrapKept DEF EvalOther, EvalH
<1>5. ASSUME NEW t \in Solvers, Solving(t) PROVE IInv'
  <2>1. CASE Rethrow(t)
    BY <2>1, ThrowStep DEF Rethrow
  <2> QED
    BY <1>5, <2>1, PrepareStep, ApplyOptionsStep, SolverReturnsStep, CopyLogStep, ReplaceStep
    DEF Solving
<1>6. CASE UNCHANGED vars
  BY <1>6 DEF vars, libraryVars, solveVars, IInv, Typed, LibraryTyped, CallTyped, SolveTyped,
              LibraryInv, LibraryStaysOpen, UsesLibrary, PromiseInv, GoodComesFirst,
              CallInv, HandleOwned, Picks, SolveInv
<1> QED
  BY <1>1, <1>2, <1>3, <1>4, <1>5, <1>6 DEF Next

(* IInv holds in every reachable state, for any number of threads.               *)
THEOREM IpoptInvariant == Spec => []IInv
  BY InitInv, InvariantStep, PTL DEF Spec
-----------------------------------------------------------------------------
(* The variables keep their types: in particular the chosen individual is a      *)
(* number and the log is of a solve (deferred_ipopt's m_log, m_last_opt_res).     *)
THEOREM TypeCorrect == Spec => []TypeOK
<1>1. IInv => TypeOK
  BY TypedIsTypeOK DEF IInv
<1> QED
  BY <1>1, IpoptInvariant, PTL

(* However many threads race for get_ipopt_api(), whatever libraries are found    *)
(* and whichever way evolve ends: what it uses is valid and is given back.        *)
THEOREM ResourcesAreHeld == Spec => []ResourcesHeld
<1>1. IInv => ResourcesHeld
  BY DEF IInv, LibraryInv, CallInv, ResourcesHeld
<1> QED
  BY <1>1, IpoptInvariant, PTL

(* For any number of evaluations and solves and any verbosity: m_last_opt_res is  *)
(* about the last solve, m_log not ahead of it and complete, and the two agree     *)
(* whenever an evolve that optimised has returned.                               *)
THEOREM LogIsOfThisSolve == Spec => []LogOfThisSolve
<1>1. IInv => LogOfThisSolve
  <2> SUFFICES ASSUME IInv, NEW t \in Solvers PROVE LogOfThisSolve!(t)
    BY DEF LogOfThisSolve
  <2>1. ASSUME pc[t] = "replace"
        PROVE  log[t].lines = EveryVth(nlp[t].evals, request[t].verbosity)
    <3>1. log[t] = [solve |-> lastRes[t], lines |-> nlp[t].lines]
      BY <2>1 DEF IInv, SolveInv
    <3>2. nlp[t].lines = EveryVth(nlp[t].evals, request[t].verbosity)
      BY DEF IInv, SolveInv
    <3> QED
      BY <3>1, <3>2
  <2>2. ASSUME pc[t] = "idle"
        PROVE  /\ lastRes[t] = solves[t]
               /\ log[t].solve <= lastRes[t]
               /\ outcome[t] = "returned" /\ pop[t] # <<>> => log[t].solve = lastRes[t]
    BY <2>2 DEF IInv, SolveInv
  <2> QED
    BY <2>1, <2>2 DEF EveryVth
<1> QED
  BY <1>1, IpoptInvariant, PTL

(* A failed search for the library is not remembered by get_ipopt_api().         *)
THEOREM GoodLibraryGetsFound == Spec => GoodLibraryIsFound
<1> DEFINE Found(t) == pc'[t] = "idle" => outcome'[t] = "available"
<1>1. ASSUME IInv, Next, NEW t \in promised PROVE Found(t)
  <2>1. /\ t \in Threads /\ pc[t] \in {"library", "loading"}
        /\ pc \in [Threads -> Steps]
        /\ outcome \in [Threads -> {"none", "returned", "error", "available", "unavailable"}]
    BY <1>1 DEF IInv, Typed, LibraryTyped, CallTyped, PromiseInv
  <2>2. loader = t => /\ \A p \in Places : p < trying => disk[p] = "absent"
                      /\ loaded # NoPlace => disk[loaded] = "good"
    BY <1>1 DEF IInv, PromiseInv
  <2>3. pc[t] = "loading" => loader = t
    BY <1>1, <2>1 DEF IInv, LibraryInv
  <2>4. \E p \in Places : disk[p] # "absent"
    BY <1>1 DEF IInv, PromiseInv, GoodComesFirst
  <2>5. trying \in Nat /\ trying >= 1
    BY <1>1 DEF IInv, Typed, LibraryTyped, LibraryInv
  <2>6. ASSUME NEW u \in Threads, ApiReady(u) PROVE Found(t)
    BY <2>1, <2>6 DEF ApiReady, HaveApi, Goto
  <2>7. ASSUME NEW u \in Threads, StartLoading(u) \/ TryPlace(u) PROVE Found(t)
    BY <2>1, <2>7 DEF StartLoading, TryPlace, Goto
  <2>8. ASSUME NEW u \in Threads, NoApi(u), u # t PROVE Found(t)
    BY <2>1, <2>8 DEF NoApi, Throw, Leave
  <2>9. ASSUME NEW u \in Threads, NothingLoads(u) PROVE Found(t)
    <3>1. CASE u = t
      <4>1. \A p \in Places : p < trying
        BY <2>5, <2>9, IpoptAssumption DEF NothingLoads, Places
      <4> QED
        BY <2>2, <2>3, <2>4, <2>9, <3>1, <4>1 DEF NothingLoads
    <3> QED
      BY <2>8, <2>9, <3>1 DEF NothingLoads
  <2>10. ASSUME NEW u \in Threads, ResolveSymbols(u) PROVE Found(t)
    <3>1. CASE disk[loaded] = "good"
      BY <2>1, <2>10, <3>1 DEF ResolveSymbols, HaveApi, Goto
    <3>2. CASE disk[loaded] # "good"
      BY <2>2, <2>3, <2>8, <2>10, <3>2 DEF ResolveSymbols
    <3> QED
      BY <3>1, <3>2
  <2>11. ASSUME NEW u \in Threads, Probe(u) PROVE Found(t)
    BY <2>1, <2>11 DEF Probe, Call
  <2>12. CASE DiskChanges
    BY <2>1, <2>12 DEF DiskChanges
  <2>13. ASSUME NEW u \in Solvers, u # t,
                \/ pc' = pc
                \/ \E s \in Steps : pc' = [pc EXCEPT ![u] = s]
         PROVE  Found(t)
    BY <2>1, <2>13
  <2>14. ASSUME NEW u \in Solvers, Evolve(u) \/ CheckGuess(u) PROVE Found(t)
    BY <2>1, <2>14, <2>13, IpoptAssumption
    DEF Evolve, CheckGuess, Call, Goto, Throw, Leave, Steps
  <2>15. ASSUME NEW u \in Solvers, Solving(u) \/ EvalF(u) \/ EvalOther(u) \/ EvalH(u)
         PROVE  Found(t)
    BY <2>1, <2>15, <2>13
    DEF Solving, Prepare, ApplyOptions, SolverReturns, Rethrow, CopyLog, Replace, EvalF,
        EvalOther, EvalH, Goto, Throw, Leave, Steps
  <2> QED
    BY <1>1, <2>6, <2>7, <2>9, <2>10, <2>11, <2>12, <2>14, <2>15 DEF Next, Loading
<1>2. ASSUME IInv, UNCHANGED vars, NEW t \in promised PROVE Found(t)
  BY <1>2 DEF vars, libraryVars, IInv, PromiseInv
<1>3. IInv /\ [Next]_vars => [\A t \in promised : Found(t)]_vars
  BY <1>1
<1> QED
  BY <1>3, IpoptInvariant, PTL DEF Spec, GoodLibraryIsFound

(* What a callback of nlp_marshaller threw is rethrown, whatever the solver says. *)
THEOREM ExceptionsSurface == Spec => ExceptionSurfaces
<1> DEFINE Surfaces(t) == threw[t] /\ pc[t] = "solved" =>
                              /\ outcome'[t] = "error" \/ pc'[t] = "solved"
                              /\ pop'[t] = pop[t] /\ log'[t] = log[t]
<1>1. ASSUME IInv, Next, NEW t \in Solvers PROVE Surfaces(t)
  <2> SUFFICES ASSUME threw[t], pc[t] = "solved"
               PROVE  /\ outcome'[t] = "error" \/ pc'[t] = "solved"
                      /\ pop'[t] = pop[t] /\ log'[t] = log[t]
    OBVIOUS
  <2>1. nlp[t].trapped
    BY <1>1 DEF IInv, SolveInv
  <2>2. t \in Threads /\ pc \in [Threads -> Steps] /\ pop \in [Solvers -> Seq(Ranks)]
        /\ outcome \in [Threads -> {"none", "returned", "error", "available", "unavailable"}]
        /\ log \in [Solvers -> [solve : Nat, lines : SUBSET Nat]]
    BY <1>1, IpoptAssumption DEF IInv, Typed, CallTyped, SolveTyped
  <2>3. ASSUME NEW u \in Threads, Probe(u) \/ ApiReady(u) \/ Loading(u)
        PROVE  pc'[t] = "solved" /\ pop'[t] = pop[t] /\ log'[t] = log[t]
    BY <2>2, <2>3
    DEF Probe, Call, ApiReady, HaveApi, NoApi, Loading, StartLoading, TryPlace, NothingLoads,
        ResolveSymbols, Goto, Throw, Leave, solveVars
  <2>4. CASE DiskChanges
    BY <2>4 DEF DiskChanges, solveVars
  <2>5. ASSUME NEW u \in Solvers, Evolve(u) \/ CheckGuess(u)
        PROVE  pc'[t] = "solved" /\ pop'[t] = pop[t] /\ log'[t] = log[t]
    BY <2>2, <2>5 DEF Evolve, Call, CheckGuess, Goto, Throw, Leave, solveVars
  <2>6. ASSUME NEW u \in Solvers, Prepare(u) \/ ApplyOptions(u) \/ SolverReturns(u)
                                  \/ EvalF(u) \/ EvalOther(u) \/ EvalH(u)
        PROVE  pc'[t] = "solved" /\ pop'[t] = pop[t] /\ log'[t] = log[t]
    BY <2>2, <2>6
    DEF Prepare, ApplyOptions, SolverReturns, EvalF, EvalOther, EvalH, Goto, Throw, Leave
  <2>7. ASSUME NEW u \in Solvers, CopyLog(u)
        PROVE  pc'[t] = "solved" /\ pop'[t] = pop[t] /\ log'[t] = log[t]
    BY <2>1, <2>2, <2>7 DEF CopyLog, Goto
  <2>8. ASSUME NEW u \in Solvers, Replace(u)
        PROVE  pc'[t] = "solved" /\ pop'[t] = pop[t] /\ log'[t] = log[t]
    BY <2>2, <2>8 DEF Replace, Throw, Leave
  <2>9. ASSUME NEW u \in Solvers, Rethrow(u)
        PROVE  /\ outcome'[t] = "error" \/ pc'[t] = "solved"
               /\ pop'[t] = pop[t] /\ log'[t] = log[t]
    BY <2>2, <2>9 DEF Rethrow, Throw, Leave
  <2> QED
    BY <1>1, <2>3, <2>4, <2>5, <2>6, <2>7, <2>8, <2>9 DEF Next, Solving
<1>2. IInv /\ [Next]_vars => [\A t \in Solvers : Surfaces(t)]_vars
  BY <1>1
<1> QED
  BY <1>2, IpoptInvariant, PTL DEF Spec, ExceptionSurfaces
-----------------------------------------------------------------------------
(* What Replace does to the population, if it does anything.                     *)
LEMMA ReplaceImproves ==
  ASSUME IInv, NEW t \in Solvers, Replace(t), pop' # pop
  PROVE  \E rank \in Ranks, slot \in Picks(pop[t], request[t].replace) :
            /\ chosen[t] \in Picks(pop[t], request[t].select)
            /\ rank < pop[t][chosen[t]]
            /\ pop' = [pop EXCEPT ![t][slot] = rank]
<1>1. \E rank \in Ranks :
         IF rank < pop[t][chosen[t]]
           THEN \E slot \in Picks(pop[t], request[t].replace) :
                   pop' = [pop EXCEPT ![t][slot] = rank]
           ELSE UNCHANGED pop
  BY DEF Replace, Throw
<1>2. pc[t] = "replace"
  BY DEF Replace
<1>3. chosen[t] \in Picks(pop[t], request[t].select)
  BY <1>2 DEF IInv, CallInv
<1> QED
  BY <1>1, <1>3

(* No other step changes the population of a caller whose solution is compared.  *)
LEMMA OnlyReplaceChangesPop ==
  ASSUME IInv, Next, NEW t \in Solvers, pc[t] = "replace", pop'[t] # pop[t]
  PROVE  Replace(t)
<1>1. pop \in [Solvers -> Seq(Ranks)]
  BY DEF IInv, Typed, CallTyped
<1>2. ASSUME NEW u \in Threads, Probe(u) \/ ApiReady(u) \/ Loading(u) PROVE UNCHANGED pop
  BY <1>2 DEF Probe, ApiReady, HaveApi, NoApi, Loading, StartLoading, TryPlace, NothingLoads,
              ResolveSymbols, Throw
<1>3. DiskChanges => UNCHANGED pop
  BY DEF DiskChanges
<1>4. ASSUME NEW u \in Solvers, \/ CheckGuess(u) \/ EvalF(u) \/ EvalOther(u) \/ EvalH(u)
                                \/ Prepare(u) \/ ApplyOptions(u) \/ SolverReturns(u)
                                \/ Rethrow(u) \/ CopyLog(u)
      PROVE  UNCHANGED pop
  BY <1>4 DEF CheckGuess, EvalF, EvalOther, EvalH, Prepare, ApplyOptions, SolverReturns,
              Rethrow, CopyLog, Throw
<1>5. ASSUME NEW u \in Solvers, Evolve(u) PROVE pop'[t] = pop[t]
  BY <1>1, <1>5 DEF Evolve
<1>6. ASSUME NEW u \in Solvers, u # t, Replace(u) PROVE pop'[t] = pop[t]
  BY <1>1, <1>6 DEF Replace, Throw
<1> QED
  BY <1>2, <1>3, <1>4, <1>5, <1>6 DEF Next, Solving

LEMMA RanksAreIntegers ==
  ASSUME NEW p \in Seq(Ranks), NEW i \in DOMAIN p
  PROVE  p[i] \in Int
<1>1. p[i] \in Ranks
  OBVIOUS
<1> QED
  BY <1>1, IpoptAssumption

(* Exchanging one individual for one that is not worse keeps the best.           *)
LEMMA ExchangeKeepsBest ==
  ASSUME NEW p \in Seq(Ranks), NEW slot \in DOMAIN p, NEW rank \in Ranks, rank <= p[slot]
  PROVE  AsGood(p, [p EXCEPT ![slot] = rank])
<1> SUFFICES ASSUME NEW i \in DOMAIN p
             PROVE  \E j \in DOMAIN p : [p EXCEPT ![slot] = rank][j] <= p[i]
  BY DEF AsGood
<1>1. CASE i = slot
  BY <1>1
<1>2. CASE i # slot
  <2>1. p[i] \in Int
    BY RanksAreIntegers
  <2> QED
    BY <1>2, <2>1
<1> QED
  BY <1>1, <1>2

(* Comparing the solution with the selected individual, as evolve does before it  *)
(* replaces another, keeps the best fitness if the best is selected or the worst  *)
(* replaced.                                                                     *)
THEOREM BestFitnessSurvives == Spec => BestSurvives
<1> DEFINE Survives(t) == /\ pc[t] = "replace"
                          /\ request[t].select = "best" \/ request[t].replace = "worst"
                          => AsGood(pop[t], pop'[t])
<1>1. ASSUME IInv, Next, NEW t \in Solvers PROVE Survives(t)
  <2> SUFFICES ASSUME pc[t] = "replace",
                      request[t].select = "best" \/ request[t].replace = "worst"
               PROVE  AsGood(pop[t], pop'[t])
    OBVIOUS
  <2>1. pop \in [Solvers -> Seq(Ranks)] /\ pop[t] \in Seq(Ranks)
    BY <1>1 DEF IInv, Typed, CallTyped
  <2>2. CASE pop'[t] = pop[t]
    <3>1. \A i \in DOMAIN pop[t] : pop[t][i] \in Int
      BY <2>1, RanksAreIntegers
    <3> QED
      BY <2>2, <3>1 DEF AsGood
  <2>3. CASE pop'[t] # pop[t]
    <3>1. Replace(t)
      BY <1>1, <2>3, OnlyReplaceChangesPop
    <3>2. PICK rank \in Ranks, slot \in Picks(pop[t], request[t].replace) :
             /\ chosen[t] \in Picks(pop[t], request[t].select)
             /\ rank < pop[t][chosen[t]]
             /\ pop' = [pop EXCEPT ![t][slot] = rank]
      BY <1>1, <2>3, <3>1, ReplaceImproves
    <3>3. slot \in DOMAIN pop[t] /\ chosen[t] \in DOMAIN pop[t]
      BY <3>2 DEF Picks
    <3>4. pop[t][chosen[t]] <= pop[t][slot]
      BY <3>2, <3>3 DEF Picks
    <3>5. rank \in Int /\ pop[t][chosen[t]] \in Int /\ pop[t][slot] \in Int
      <4>1. rank \in Int
        BY IpoptAssumption
      <4> QED
        BY <2>1, <3>3, <4>1, RanksAreIntegers
    <3>6. rank <= pop[t][slot]
      BY <3>2, <3>4, <3>5
    <3>7. pop'[t] = [pop[t] EXCEPT ![slot] = rank]
      BY <2>1, <3>2
    <3> QED
      BY <2>1, <3>3, <3>6, <3>7, ExchangeKeepsBest
  <2> QED
    BY <2>2, <2>3
<1>2. ASSUME IInv, UNCHANGED vars, NEW t \in Solvers PROVE UNCHANGED pop[t]
  BY <1>2 DEF vars
<1>3. IInv /\ [Next]_vars => [\A t \in Solvers : Survives(t)]_vars
  BY <1>1
<1> QED
  BY <1>3, IpoptInvariant, PTL DEF Spec, BestSurvives
-----------------------------------------------------------------------------
Running == {t \in Solvers : pc[t] # "idle"}

(* A step that neither begins nor ends an evolve, or a caller's only step, is a    *)
(* step of the contract or none.                                               *)
LEMMA OutsideStutters ==
  ASSUME IInv, \/ DiskChanges
               \/ \E t \in Threads : \/ Probe(t) \/ StartLoading(t) \/ TryPlace(t)
                                     \/ ApiReady(t)
                                     \/ ResolveSymbols(t) /\ disk[loaded] = "good"
  PROVE  UNCHANGED <<pop, Running>>
<1>1. UNCHANGED pop
  BY DEF DiskChanges, Probe, StartLoading, TryPlace, ApiReady, ResolveSymbols, HaveApi
<1>2. ASSUME NEW u \in Solvers PROVE (pc'[u] # "idle") <=> (pc[u] # "idle")
  BY <1>2, IpoptAssumption DEF IInv, Typed, CallTyped,
     DiskChanges, Probe, Call, StartLoading, TryPlace, ApiReady, ResolveSymbols, HaveApi, Goto
<1>3. UNCHANGED Running
  BY <1>2 DEF Running
<1> QED
  BY <1>1, <1>3

LEMMA MoveStutters ==
  ASSUME IInv, NEW t \in Solvers, NEW s \in Steps \ {"idle"},
         pc[t] # "idle", pc' = pc \/ pc' = [pc EXCEPT ![t] = s]
  PROVE  UNCHANGED Running
<1>1. ASSUME NEW u \in Solvers PROVE (pc'[u] # "idle") <=> (pc[u] # "idle")
  BY IpoptAssumption DEF IInv, Typed, CallTyped
<1> QED
  BY <1>1 DEF Running

LEMMA LeaveKeeps ==
  ASSUME IInv, NEW t \in Solvers, pc[t] # "idle", pc' = [pc EXCEPT ![t] = "idle"]
  PROVE  t \in Running /\ Running' = Running \ {t}
  BY IpoptAssumption DEF Running, IInv, Typed, CallTyped

(* Failing, finding nothing, or an empty population: the contract's Keep.         *)
LEMMA ThrowKeeps ==
  ASSUME IInv, NEW t \in Solvers, pc[t] # "idle", Throw(t)
  PROVE  Contract!Keep(t)
<1>1. t \in Running /\ Running' = Running \ {t}
  BY LeaveKeeps DEF Throw, Leave
<1> QED
  BY <1>1 DEF Contract!Keep, Running, Throw

LEMMA InitImplements == Init => Contract!Init
  BY IpoptAssumption DEF Init, Contract!Init

(* Every step of the program maps to one of the contract or to none.             *)
LEMMA StepImplements ==
  ASSUME IInv, [Next]_vars
  PROVE  [Contract!Next]_Contract!contractVars
<1> DEFINE Maps == Contract!Next \/ UNCHANGED <<pop, Running>>
<1> SUFFICES Maps
  BY DEF Contract!contractVars, Running
<1>1. ASSUME NEW t \in Solvers, Contract!Keep(t) PROVE Maps
  BY <1>1 DEF Contract!Next
<1>2. CASE DiskChanges
  BY <1>2, OutsideStutters
<1>3. ASSUME NEW t \in Threads, Probe(t) \/ ApiReady(t) \/ StartLoading(t) \/ TryPlace(t)
      PROVE  Maps
  BY <1>3, OutsideStutters
<1>4. ASSUME NEW t \in Threads, pc[t] = "loading", NoApi(t) PROVE Maps
  <2>1. CASE t \in Solvers
    BY <1>1, <1>4, <2>1, ThrowKeeps DEF NoApi
  <2>2. CASE t \notin Solvers
    <3>1. UNCHANGED pop /\ pc' = [pc EXCEPT ![t] = "idle"]
      BY <1>4, <2>2 DEF NoApi
    <3>2. \A u \in Solvers : pc'[u] = pc[u]
      BY <2>2, <3>1, IpoptAssumption DEF IInv, Typed, CallTyped
    <3> QED
      BY <3>1, <3>2 DEF Running
  <2> QED
    BY <2>1, <2>2
<1>5. ASSUME NEW t \in Threads, NothingLoads(t) \/ ResolveSymbols(t) PROVE Maps
  BY <1>4, <1>5, OutsideStutters DEF NothingLoads, ResolveSymbols
<1>6. ASSUME NEW t \in Solvers, Evolve(t) PROVE Maps
  <2>1. PICK p \in Populations : pop' = [pop EXCEPT ![t] = p]
    BY <1>6 DEF Evolve
  <2>2. t \notin Running /\ Running' = Running \cup {t}
    BY <1>6, IpoptAssumption DEF Evolve, Call, Running, IInv, Typed, CallTyped
  <2>3. Contract!Start(t)
    BY <2>1, <2>2 DEF Contract!Start, Running
  <2> QED
    BY <2>3 DEF Contract!Next
<1>7. ASSUME NEW t \in Solvers, CheckGuess(t) PROVE Maps
  <2>1. pc[t] # "idle"
    BY <1>7 DEF CheckGuess
  <2>2. CASE Throw(t)
    BY <1>1, <2>1, <2>2, ThrowKeeps
  <2>3. CASE Leave(t, "returned") /\ UNCHANGED pop
    <3>1. t \in Running /\ Running' = Running \ {t}
      BY <2>1, <2>3, LeaveKeeps DEF Leave
    <3>2. Contract!Keep(t)
      BY <2>3, <3>1 DEF Contract!Keep, Running
    <3> QED
      BY <1>1, <3>2
  <2>4. CASE Goto(t, "library") /\ UNCHANGED pop
    BY <2>1, <2>4, MoveStutters DEF Goto, Steps
  <2> QED
    BY <1>7, <2>2, <2>3, <2>4 DEF CheckGuess
<1>8. ASSUME NEW t \in Solvers, \/ Prepare(t) \/ ApplyOptions(t) \/ SolverReturns(t)
                                \/ Rethrow(t) \/ CopyLog(t)
      PROVE  Maps
  <2>1. pc[t] # "idle"
    BY <1>8 DEF Prepare, ApplyOptions, SolverReturns, Rethrow, CopyLog
  <2>2. CASE Throw(t)
    BY <1>1, <2>1, <2>2, ThrowKeeps
  <2>3. CASE ~Throw(t)
    <3>1. /\ UNCHANGED pop
          /\ \E s \in Steps \ {"idle"} : pc' = [pc EXCEPT ![t] = s]
      BY <1>8, <2>3
      DEF Prepare, ApplyOptions, SolverReturns, Rethrow, CopyLog, Goto, Steps
    <3> QED
      BY <2>1, <3>1, MoveStutters
  <2> QED
    BY <2>2, <2>3
<1>9. ASSUME NEW t \in Solvers, EvalF(t) \/ EvalOther(t) \/ EvalH(t) PROVE Maps
  BY <1>9 DEF EvalF, EvalOther, EvalH, Running
<1>10. ASSUME NEW t \in Solvers, Replace(t) PROVE Maps
  <2>1. pc[t] # "idle"
    BY <1>10 DEF Replace
  <2>2. t \in Running /\ Running' = Running \ {t}
    BY <1>10, <2>1, LeaveKeeps DEF Replace, Throw, Leave
  <2>3. CASE UNCHANGED pop
    <3>1. Contract!Keep(t)
      BY <2>2, <2>3 DEF Contract!Keep, Running
    <3> QED
      BY <1>1, <3>1
  <2>4. CASE pop' # pop
    <3>1. PICK rank \in Ranks, slot \in Picks(pop[t], request[t].replace) :
             /\ chosen[t] \in Picks(pop[t], request[t].select)
             /\ rank < pop[t][chosen[t]]
             /\ pop' = [pop EXCEPT ![t][slot] = rank]
      BY <1>10, <2>4, ReplaceImproves
    <3>2. slot \in DOMAIN pop[t] /\ chosen[t] \in DOMAIN pop[t]
      BY <3>1 DEF Picks
    <3>3. Contract!Improve(t)
      BY <2>2, <3>1, <3>2 DEF Contract!Improve, Running
    <3> QED
      BY <3>3 DEF Contract!Next
  <2> QED
    BY <2>3, <2>4
<1>11. CASE UNCHANGED vars
  BY <1>11 DEF vars, Running
<1> QED
  BY <1>2, <1>3, <1>5, <1>6, <1>7, <1>8, <1>9, <1>10, <1>11 DEF Next, Loading, Solving

(* deferred_ipopt::evolve implements what an algorithm promises its caller: a     *)
(* call that fails leaves the population alone, one that succeeds exchanges one    *)
(* individual at most, for one that beats an individual it had.                  *)
THEOREM EvolveIsImplemented == Spec => ImplementsEvolve
  BY InitImplements, StepImplements, IpoptInvariant, PTL
  DEF Spec, ImplementsEvolve, Contract!Spec
=============================================================================
