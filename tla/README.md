# A verification of pagmoNet

pagmoNet binds the C++ optimisation library pagmo to .NET (`src/pagmo.NET`) and
to the JVM (`src/PagmoNet4j`), over a shared native bridge (`src/native`,
`src/swig`). Users write *problems* in managed code; pagmo calls them back, often
from threads of its own. What is hard about the repository is that boundary: who
may be inside a managed object at the same time, who keeps it alive, when it is
disposed, and where an exception goes that cannot cross it. The specifications
in this directory model that, TLC checks them on small instances, and TLAPS
proves the safety part for every value of the constants.

## 1. The system

| Part | State it keeps | Operations | What can go wrong |
|---|---|---|---|
| Batch evaluation (`bfe.cs`, `managed_thread_bfe.cs`, `BfeBridge.java`, `ManagedThreadBfe.java`) | one clone per worker, the list of clones to close, the output buffer | `Operator`/`operator` of four evaluators; dispatch, probe, parallel loop, cleanup | two threads in one instance; bodies running during or after cleanup; clones never closed; a partial result returned |
| Archipelago (`archipelago.cs`, `archipelago.i`, `archipelago_swig.h`, `Pagmo4jSwigInterface.i`) | the list of cloned problems; in pagmo: islands, their queues, topology, migrants | `push_back_island`, `evolve`, `wait_check`, `GetIslandCopy`, `set_topology_*`, `Dispose` | callbacks into disposed clones, lost clones, clones shared between threads, a topology that does not fit the islands |
| Callback boundary (`ProblemCallbackAdapter`, `AlgorithmCallbackAdapter`, `NativeInterop`, `managed_bridge.cpp`, `problem.h`) | the deferred exception of an adapter, a thread-local last error | every callback; problem, algorithm and population construction; batch evaluation | a failure lost, reported for the wrong call, or noticed after a default value was used |
| Roots of callbacks (`NativeInterop`, `island`) | handles and maps that keep callbacks reachable | attach, release, finalisation | collected too early, or never |
| Standalone islands (`island.cs`, `island.i`) | construction roots | `Create*`, `Dispose` | as for the archipelago |
| Migration policies (`r_policy`, `s_policy`) | an owned callback | ownership transfer, `replace`, `select` | double or missing release |
| Deferred IPOPT (`deferred_ipopt.cpp`, `dynamic_library.hpp`/`.cpp`) | a library shared by all threads, options, the log and return code of the last run | `get_ipopt_api`, `ipopt_available`, `evolve`, the IPOPT callbacks | a failure remembered, a handle leaked, a stale log, an exception lost in a C library, a better individual lost |
| NLP marshaller (`nlp_marshaller.cpp`) | the sparsity patterns the solver was told, an exception, a log | construction, the derivative callbacks | values at the wrong places of the solver's buffers |
| Loader (`NativeLoader.java`) | extracted and loaded files, a flag | `load()`: three places, extraction, passes over the siblings | dependence on directory order, a second load |
| Grid search (`grid_search`, both bindings) | none | `evolve` | a grid point missed or repeated, a best point lost |
| Algorithm wrappers, projections, Kotlin extensions | none | data copied | - |

How they interact. A managed problem is wrapped in a callback adapter, whose
native half is owned by a `managed_problem` through a `shared_ptr`: every copy pagmo
makes of the problem calls the same managed object. A problem that declares
`ThreadSafety.None` may implement `IThreadCloneableProblem`; batch evaluation then
makes one clone per worker thread, and an archipelago one clone per island, which
it wraps so that it declares `Basic` and keeps until it is disposed. Algorithms cross the
boundary the same way, with one adapter for all copies; migration policies with a callback the
user hands over. `deferred_ipopt` is an algorithm of the native bridge itself: it opens IPOPT when
it is first needed and drives it through C function pointers, whose callbacks go to the problem
through `nlp_marshaller`. The Java binding has to load the bridge before all this; .NET
leaves that to its runtime.

## 2. Modules

| Module | Content |
|---|---|
| `BatchContract` | what a batch evaluation promises its caller: one end, a result only if complete, no evaluation after the end |
| `ManagedBatch` | one call of any evaluator of either binding, down to the loop bodies of each worker |
| `MCManagedBatch` | the problems a call can be given |
| `ManagedBatchProofs` | theorems about `ManagedBatch`, with proofs |
| `OwnershipContract` | who may call which instance in an archipelago, and when one may be disposed |
| `ManagedArchipelago` | an archipelago from its first island to its disposal |
| `MCManagedArchipelago` | two problems, two clones |
| `ManagedArchipelagoProofs` | theorems about `ManagedArchipelago`, with proofs |
| `DeferredBridge` | one call on a managed problem across the callback boundary: construction, operation, what the caller is told |
| `DeferredBridgeProofs` | theorems about `DeferredBridge`, with proofs |
| `CallbackRoots` | the lives of native callbacks: adapters of problems and algorithms, policies |
| `CallbackRootsProofs` | theorems about `CallbackRoots`, with proofs |
| `MCDeferredBridge` | `DeferredBridge` or `CallbackRoots` |
| `SharedAlgorithm` | evolutions that run at once through one algorithm adapter |
| `GridSearch` | `evolve` of `grid_search` |
| `ManagedAlgorithmProofs` | theorems about `SharedAlgorithm` and `GridSearch`, with proofs |
| `MCSharedAlgorithm` | `SharedAlgorithm` or `GridSearch` |
| `EvolveContract` | what an algorithm that is not population based promises its caller |
| `DeferredIpopt` | threads that load IPOPT at run time and solve with it |
| `DeferredIpoptProofs` | theorems about `DeferredIpopt`, with proofs |
| `NlpMarshaller` | the patterns and derivatives handed to the solver |
| `NlpMarshallerProofs` | theorems about `NlpMarshaller`, with proofs |
| `NativeLoader` | Java's `NativeLoader.load()` |
| `NativeLoaderProofs` | theorems about `NativeLoader`, with proofs |
| `MCDeferredIpopt` | `DeferredIpopt`, `NlpMarshaller` or `NativeLoader`, and their instances |

Three of the MC modules extend several components that share no state. `part`, chosen
initially, says which of them a behaviour is of; the other ones stay in one initial state.
A component's specification and theorems do not mention `part`.

### ManagedBatch

The state follows one call. `entry`, `problem`, `batch` are its arguments: a problem is
a record of its declared thread safety, of what its `Clone()` may return (`"fresh"`,
`"null"`, `"same"`; nothing if it is not cloneable) and of whether it has
`batch_fitness()`; a batch is a set of decision vectors. `stage` is the calling thread:
`start` (`Dispatch`, `Probe`), `loop` (`LoopReturns`, `LoopThrows`, `Interrupted`,
`BatchFitness`), `closing` (`CloseOne`, `AbandonClosing`, `Return`: the `finally` block) and
`returned` (`CallerReleases`: the caller disposes what it passed). `pc[w]` is worker `w`
inside a loop body: `Claim` takes a decision vector, `MakeClone` is the `ThreadLocal`
initialiser, `Record` Java's `allClones.add`, `Evaluate` and `FitnessThrows` the two ends
of `fitness()`. `clones`, `allClones`, `flat` are the variables of the same name in the code
(`flat` is `flatFitness` in .NET).

`Binding` selects the code of one binding, and everything it selects is in the four
operators `JoinsBodies`, `RejectsSame`, `RecordsOnCreation` and `Route`: `Parallel.For`
returns or throws only after every started body has ended, while the task a parallel
stream runs in rethrows the first failure with forked siblings still at work; Java
rejects a `clone()` that is the problem itself; .NET records a clone as it is made; the
evaluators are routed differently (Java always calls `default_bfe`, or loops itself).
After a failure either runtime may drop any part of the work that is not started
(`Throws`).

A clone is named by the worker that made it, which loses nothing: a `ThreadLocal`
makes at most one per worker and call. A clone may be disposed only once by the
model's `closed`; closing is idempotent there.

### ManagedArchipelago

The caller is one thread, which is how the bindings document an archipelago; the
threads of pagmo's islands, and a second thread of a parallel evaluator, run beside
it. `instance[r]` is what the callback of an island or of a copied island ends in:
a clone (wrapped in `ExclusiveCloneAdapter`) or the caller's own problem. `busy[t]` is
the instance thread `t` is inside. `rooted` is `_managedProblemCloneRoots`
(`managedProblemCloneRoots` in Java), `vertices`/`connected` the topology, `errors` what
`wait_check` will rethrow. `stage` is `open`, `pushing` (an island's population is being
filled by callbacks), `deleting` (inside the native destructor), `closing`
(`OnManagedDispose`, or the loop of Java's `close()`), `closed`.

`PushBack` is the managed half of `push_back_island`: clone, check, wrap, root.
`EvaluateInitial`/`InitialEvaluated` are the callbacks of the population's constructor,
`PushReturns`/`PushThrows` its ends. `Evolve` queues one evolution on every island,
`StartEvolution`, `MigrationFails` and `EndEvolution` are pagmo's thread of an island,
`GetIslandCopy`, `EvolveCopy`, `DisposeCopy` the value copies the binding hands out.
`SetTopology` is every `set_topology_*` that goes through `require_topology_fits`.
Copying a whole archipelago is not a separate action: its islands are copies that
share the callback, which `Copies` stands for.

`OwnershipContract` is what all this is for, in five variables: a clone is fresh until one island
acquires it, is called by that island alone and goes to no other one; the caller's private
problems are called by nobody; instances are released when the archipelago has ended, which it does
when nobody is inside anything. The mapping (`Contract`) takes an insertion for the first thing
the next island does: `owns` is the clone of an island, and of slot `size + 1` the one being
inserted; `using` is what the island, or the insertion, is inside; `alive` ends with
`NativeDeleted`; `released` is `disposed`. Copies of islands are outside the contract, which says
nothing of them; section 5 says what they have to keep to.

External code is modelled from how `src/` uses it, and marked so in the map:
pagmo's `default_bfe`, the queue of an island, the waiting destructor, and the index
checks of migration.

### DeferredBridge

The state follows one call of `call.binding` that takes an `IProblem` to native code: it builds a
`pagmo::problem` and hands it out (`call.op = "problem"`), or runs a population
constructor, a batch evaluation, a gradient or a sparsity estimate on it. `stage` is the
calling thread:

| `stage` | Code | Actions that leave it |
|---|---|---|
| `start` | before `problem_from_callback` | `EnterFactory` |
| `factory` | inside it | `FactoryReturns` |
| `factory_check` | the rest of `CreateProblemPointer` | `ConstructionThrows`, `ConstructionFails`, `Constructed` |
| `operating` | inside `population_new`, `default_bfe_evaluate`, `estimate_*`, ... | `OperationReturns` |
| `operation_check` | `ThrowIfDeferredCallbackException`, `GetVectorOrThrow`, the null checks, `using`/`finally` | `OperationThrows`, `OperationFails`, `OperationSucceeds` |

`pc[t]` is thread `t` inside the adapter: `Enter`, `Succeeds`, `Throws`, then .NET's
`??=` in two steps (`ReadDeferred`, `AssignDeferred`) or Java's `CompareAndSet`. A callback that
failed returns a fallback: inside the factory pagmo may well accept it (dummy bounds are
valid), in an operation it refuses an empty fitness vector, unless the batch is empty.
Threads other than the caller call back only during a batch.

`lastError` is the calling thread's `g_pagmonet_last_error`. Every bridge function clears it on
entry, and a callback that itself uses the library may clear or set it (`NestedBridgeCalls`).
SWIG's pending exceptions are left out: the bridge functions are plain P/Invoke and JNI calls
that set none, and the adapters let no exception out. Two observations, for which no text
promises otherwise: `??=` can replace the first failure by a second one when two threads fail
at once, where Java's `compareAndSet` cannot, and Java consults its adapter after construction
only, so that a later failure becomes whatever native error it leads to.

### SharedAlgorithm

Copies of a managed algorithm share its callback (`shared_ptr` in `managed_algorithm`), and
so one `deferred` exception. Each thread runs `Evolve`, then `Evolved` or `EvolveThrows`, defers
(`ReadDeferred`/`AssignDeferred` in .NET, `CompareAndSet` in Java), and passes
`throw_if_deferred`: `ReadForConsume` and `ClearForConsume` in .NET, `GetAndSet` in Java, then
`ThrowIfDeferred`. `DescriptionThrows` and `DeferDescription` are Java's `get_name()` and
`get_extra_info()`, which defer where native code never consumes, so that a later evolution
that succeeded reports their failure. (pagmo's constructor of an algorithm asks for the name as well;
what Java defers there `createAlgorithmPointer` does consume, which is `ConstructionExcepted` in
`CallbackRoots`.) .NET does not catch there, and what its runtime does with the exception is not
modelled. Threads go round for ever; each exception is thrown once.

### CallbackRoots

Who keeps a managed callback alive while native code may call it. `step[t]` is a thread inside
`createProblemPointer` or `createAlgorithmPointer`: `NewAdapter` releases the adapter's ownership
of its native director, `Factory` makes a native object at some free address or fails,
`Attach` is Java's root, which comes before the look at the deferred exception, `Created`
.NET's, which comes after, and `NoPointer`, `ConstructionExcepted`, `ReleaseRoot` are the ways out
of a failure. `Copy`, `DestroyCopy`, `DestroyProblem` are the native objects that share a
director (populations, islands, their copies); `director` says who has to delete it.
`WrapPolicy` and `DisposePolicy` are .NET's migration policies. `Forget` drops the program's
own reference, and `Collect` takes anything that is not `Reachable`: from the program, from
a table (`handles` in .NET, `roots` in Java), or, in Java, from a director that native code owns,
since `swigReleaseOwnership()` makes its reference a strong one.

### DeferredIpopt and EvolveContract

`api`, `loader`, `trying`, `open`, `loaded` are the function-local static of `get_ipopt_api()`,
the thread inside its initialiser, and `dynamic_library`. `StartLoading` enters the
initialiser; `TryPlace` is one `os_load`, in the order of the code: the override from the
environment, every name beside the wrapper, every name left to the operating system.
`ResolveSymbols` keeps the library or closes it; a failure (`NoApi`) leaves the static
uninitialised, and the next thread runs the initialiser again. `DiskChanges` is the user
installing or removing a library meanwhile.

`pc[t]` follows `evolve`: `Evolve` selects an individual, `CheckGuess` handles an empty population
and refuses a bad initial guess, `Prepare` builds the marshaller and the IPOPT problem,
`ApplyOptions` sets the options, `EvalF`, `EvalOther`, `EvalH` are the callbacks during
`IpoptSolve`, any of which may throw, `SolverReturns`, `Rethrow`, `CopyLog` and `Replace` the rest.
`Leave` destroys the locals of the call, which is what frees the IPOPT problem. Each solver
thread owns its algorithm object, as pagmo's islands do. Fitness is ranked: a rank stands for all
fitness vectors pagmo's comparison takes for equal.

`EvolveContract` says what the caller may rely on: a call keeps the population, or exchanges
one individual for one that beats an individual it had.

### NlpMarshaller

`NlpConstruct` splits pagmo's gradient pattern into the objective's and the constraints' rows
(`lower_bound`), `NlpMerge` is one `std::set_union` of the Hessian patterns, given by what it
promises. `NlpEvalH` starts the walk of `eval_h`: `NlpPlaceEntry`, `NlpSkipSlot` and
`NlpNextComponent` are the two branches of its inner loop and the end of it, `NlpDensePass` its
dense counterpart. A derivative is known by what it is the derivative of, and a value of the
buffer by the set of products it is the sum of.

### NativeLoader

`JarEnter` takes the monitor of `load()`; `LoadFromDirectory`, `LoadFromPath` and `LoadBundled` are the
three places. `ExtractRoot`, `ExtractFails` and `Extracted` are `extractClosure`, `PreloadNext` and `PassEnds` the
passes on Windows over the siblings of the wrapper, in any order. What is bundled and
which library imports which is the environment.

### GridSearch

`GridStart` holds the checks of `evolve`, `Sample` the evaluation of one grid point, `Advance`
the odometer, `Finish` the overwriting of the population. The two bindings agree. What the
problem answers is chosen when it is asked: an objective, an infinite or NaN one, or that the
point is infeasible.

## 3. Runs

| Run | Instance | Question and answer |
|---|---|---|
| `csharp_batch` | .NET, 2 workers, batches of 0 to 3, six kinds of problem | `TypeOK`; `ExclusiveInstance`: no two threads in one unsafe instance, on any route; `NoUseAfterClose`: nothing runs on a closed clone or after the call; `ClonesClosed`: nothing is left open; `ImplementsContract`: the call implements `BatchContract`; `Terminates`: it ends. All hold. |
| `java_batch` | Java, 3 workers, also a `clone()` that returns `this` | `ExclusiveInstance`; `SuccessIsClean`: a call that returned a result left nothing behind; `Terminates`. All hold. |
| `java_batch_leak` | Java, 3 workers | `ClonesClosed` is violated: after a failure the cleanup runs beside the remaining tasks. |
| `csharp_clone_race` | .NET, 2 workers | `SourceNotConcurrent` is violated: `Clone()` is called on the unsafe problem by two workers at once. |
| `archipelago` | .NET, 2 islands, 1 copy, 1 queued evolution each, 2 clones, topologies of 0 to 2 vertices | `TypeOK`; `IslandsExclusive`; `NoUseAfterDispose`; `ClonesDisposed`, also after failed insertions and after a `Dispose` that threw; `MigrantsInRange`; `ImplementsOwnership`: the archipelago implements `OwnershipContract`; `DisposeReturns`. All hold. |
| `archipelago_shared_clone` | the same | `SingleThreaded` is violated: a parallel evaluator, or a copied island, brings a second thread into a clone that is said to have one. |
| `archipelago_undersized_topology` | the same | `AcceptedTopologySafe` is violated: an accepted topology makes evolutions fail. |
| `callback_bridge` | a call: both bindings, the caller and 2 more threads, 3 exceptions. Lives: both bindings, 2 threads, 1 owner, 3 adapters, 2 addresses, 1 policy, 2 copies of each | `TypeOK`; `FailureSurfaces`: a .NET call during which a callback failed ends with one of those exceptions; `UsableProblem`: dummy values never reach a problem that is used; `NothingLeaks`; `OwnErrorText`: a native error has its own message; `CallableAdapters`: what native code can call has not been collected; `DirectorsFreedOnce`. All hold. |
| `policy_callback_collected` | .NET, 1 policy | `CallablePolicies` is violated: nothing roots a policy callback once native code owns its director. |
| `shared_algorithm` | an adapter: both bindings, 3 threads, 2 exceptions. A grid: 7 calls, up to 3 dimensions and 8 points | `NothingStale`: what evolutions leave behind is nothing, or a failed description in Java; `JavaReportsOnce`; `JavaFailureReported`; `EachPointOnce`; `BestOfGrid`. All hold. |
| `shared_algorithm_loses_failure` | .NET, 2 threads, 1 exception | `FailureReported` is violated: an evolution that succeeds erases the exception of another. |
| `deferred_ipopt` | evolve: a solver and a probing thread, 1 library name (3 places), 3 ranks, populations of 0 and 2, 7 requests, 2 evaluations, 2 solves. Marshaller: 518 problems, 2 variables, 2 constraints. Loader: 2 threads, 3 calls, 22 environments | `TypeOK`; `ResourcesHeld`: the library and the IPOPT problem are valid while they are used and are given back; `GoodLibraryIsFound`: a failure to load is not remembered; `ExceptionSurfaces`; `LogOfThisSolve`: the log is whole, and of the same solve as the return code after an evolve that returned, whatever the ones before it left; `BestSurvives`: no best fitness is lost if the best is selected or the worst replaced; `ImplementsEvolve`; `CallEnds`. `HessianPlaced` and `GradientPlaced`: each derivative is at its place. `LoadedOnceFromFirst`, `AllThatLinkIsLinked`: the wrapper is loaded once, from the first place there is, and every sibling that can be linked is. All hold. |

Deadlock is not checked where the system stops: a call ends, an archipelago is disposed, everything
is forgotten and collected, the bounds on calls are reached. In the two runs of `SharedAlgorithm`
threads never stop, and deadlock is checked; a grid search that has ended stays so.

Why the bounds are enough. Every hazard of a batch needs two workers in bodies and a
third decision vector left over, so that one body can fail while another runs and
something remains to be dropped; the Java run has a third worker because there one
worker may fail, one be recorded late and one succeed. Decision vectors are symmetric
in `java_batch_leak`, which checks an invariant only. For an archipelago, two islands are
what sharing, and a topology too large or too small, need; a queue of one already
makes `Dispose` meet queued and running evolutions; the second clone lets one insertion
fail and another succeed. In `callback_bridge` two
workers and the caller can each hold an exception while the field is read by a second and
assigned by a third. In `shared_algorithm` one thread erases, one fails and one starts late; two
exceptions let one shadow another. Two addresses and three adapters let an address be reused
while a thread is between deleting a problem and removing its root. Three places let a library that
is not there, one that does not fit and one that does come in any order, and two solves let a
log be stale; a population of two is what a selection and a replacement that pick different
individuals need. Two siblings with every choice of imports, and a third that always links, are
the smallest bundle that needs three passes or has one that never links. The Hessian patterns are
all triples of subsets of the three entries two variables have. `JarMaxCalls` = 3 lets a call
follow one that failed beside one that waits. The theorems below do not depend on these bounds.

Fairness. In `ManagedBatch` the calling thread, every worker inside a body, and the
claiming of remaining work by some worker are weakly fair: threads are scheduled and
callbacks are assumed to return or throw, and the calling thread itself takes part in
both runtimes' loops. No fairness is given to failing cleanup, interruption or the caller.
In `ManagedArchipelago` each island's thread, and a `Dispose` that was entered, are weakly
fair; the caller is not obliged to do anything. In `DeferredIpopt` a thread inside a call keeps
running and, with it, the operating system's loader and the solver (`CheckGuess`, `ApiReady` or
`Loading`, `Solving`); nobody has to start a call, nor to install a library. A thread that
waits for the static is not fair against one that always gets there first, which is why
`CallEnds` promises it only that it gets it or that some thread is loading. The other modules state
safety only, and no fairness.

## 4. Disagreements between code and text

1. `ManagedThreadBfe.java:21-23` says that all clones are closed when the batch completes;
   `java_batch_leak` shows a clone that is recorded after the closing loop. A body that
   is still running can also see its clone closed.
2. `src/pagmo.NET/docs/nuget-readme.md:73-74` says a cloneable problem never needs to be
   concurrency-safe; `csharp_clone_race` shows two workers in its `Clone()` at once.
3. `archipelago.cs:36-37` says a clone is exclusively owned and accessed by one thread;
   `archipelago_shared_clone` shows a second one.
4. `archipelago.i:32-33` says a topology with fewer vertices than islands is safe;
   `archipelago_undersized_topology` shows an evolution that fails for it.
5. `src/native/algorithm_callback.h:31-32` asks `consume_deferred_exception` to return the current
   deferred error and clear it; `shared_algorithm_loses_failure` shows the .NET one
   (`AlgorithmCallbackAdapter.cs:115`) clearing an error it did not return, so that an evolution
   that failed is a success to everyone. Java's `getAndSet` cannot (`JavaFailureReported`).
6. `r_policy.cs:21` and `s_policy.cs:21` say that ownership of a policy callback is transferred to
   the native side; `policy_callback_collected` shows the collector taking it while native code can
   still call it, because only the director is transferred and nothing is rooted, as
   `NativeInterop.cs:217` does for problems.

Met while modelling, and not checked by a run, because no property of the models tells them
apart or because text and code differ in a word only:

- `NativeInterop.cs:82-84` says that its table never leaks owner references, because an entry goes
  with its owner. The strong handle in the entry keeps the adapter, which refers to the owner: an
  owner that was passed to native code is never collected (`PinnedByTable`), also when native code
  has long let go of the adapter.
- `NativeInterop.java:11-13`: roots are removed only after a failed construction. Entries of closed
  problems stay, and one can be overwritten or removed by a problem that was given the same
  address; harmless, since the director holds a strong reference (`CallableAdapters`).
- `dynamic_library.hpp:19-24` describes the search name by name; the code tries all names beside
  the wrapper, then all names of the system. A library that is found but does not fit ends the search.
- `deferred_ipopt.cpp:238` speaks of the smallest positive tolerance; one tolerance of zero
  makes the code use none.
- `NativeInterop.java:155` says that no Java callback is invoked while an algorithm is made, and checks
  all the same: pagmo's constructor asks for the name.
- `deferred_ipopt.cpp:274-283`: the return code is stored before a trapped exception is rethrown and the
  log after it, so that after an evolve that threw, `get_last_opt_result()` is of the failed solve and
  the log of an earlier one (`LogOfThisSolve` says when they agree).
- `deferred_ipopt.cpp:290`: the solution is compared with the selected individual, and replaces the one
  the replacement policy picks. Unless the best is selected or the worst replaced, the best can be lost.
- `grid_search` overwrites every individual, better ones too, and reports that there is no feasible
  point when the feasible ones have an infinite or NaN objective.
- Files of a later class path root overwrite those of an earlier one (`NativeLoader`).
- `setBasePolicy` refuses only null, so that the clean-up after a refusal is never reached.

## 5. Proofs

The eight modules of proofs show, for all constants that satisfy the named assumption of the
component (`BatchAssumption`, `ArchipelagoAssumption`, `BridgeAssumption`, `SharedAssumption`,
`RootsAssumption`, `IpoptAssumption`, `NlpAssumption`, `GridAssumption`, `JarAssumption`):

| Theorem | Statement |
|---|---|
| `TypeCorrect` (batch, archipelago, bridge, shared algorithm, IPOPT) | `Spec => []TypeOK` |
| `Exclusive` | `[]ExclusiveInstance`, for Java, or for problems that keep the cloning contract |
| `SuccessClean` | `[]SuccessIsClean`, both bindings |
| `NoUseAfterCloseHolds`, `ClonesClosedHolds` | the two invariants, for .NET and such problems |
| `Implements` | `ImplementsContract` for .NET and such problems |
| `IslandsExclusiveHolds`, `NoUseAfterDisposeHolds`, `ClonesDisposedHolds`, `MigrantsInRangeHolds` | the four invariants, both bindings |
| `OwnershipIsImplemented` | `ImplementsOwnership`, both bindings |
| `FailureSurfacesHolds`, `UsableProblemHolds`, `NothingLeaksHolds`, `OwnErrorTextHolds` | those of `callback_bridge` that are about a call, any threads and failures |
| `NothingStaleHolds`, `JavaReportsOnceHolds`, `JavaFailureReportedHolds` | those of `shared_algorithm` that are about the adapter |
| `AdaptersStayCallable`, `DirectorsAreFreedOnce` | `CallableAdapters`, `DirectorsFreedOnce`, both bindings |
| `GridVisitsEachPointOnce`, `GridReturnsTheBest` | `EachPointOnce`, `BestOfGrid`, any dimensions and steps |
| `HessianIsPlaced`, `GradientIsPlaced` | `HessianPlaced`, `GradientPlaced`, any sparsity patterns |
| `PatternsFitHolds` | `PatternsFit`: the marshaller's assertions about its own patterns (`nlp_marshaller.cpp:206-207`, `298`, `315`, `332`, `336`) do not fail |
| `WrapperIsLoadedOnce`, `SiblingsAreLinked` | `LoadedOnceFromFirst`, `AllThatLinkIsLinked`, any threads, class path roots and libraries |
| `SearchForSiblingsEnds` | `SearchGetsOn`: every step of `preloadSiblingDlls` brings it nearer to its end |
| `ResourcesAreHeld`, `LogIsOfThisSolve` | the two invariants, any threads, library names and policies |
| `GoodLibraryGetsFound`, `ExceptionsSurface`, `BestFitnessSurvives` | the three action properties |
| `EvolveIsImplemented` | `ImplementsEvolve`: every step of `DeferredIpopt` is one of `EvolveContract` or changes neither the populations nor who is in a call |

Where a run shows that a promise is not kept, a theorem says what the caller has to do so that it is:

| Theorem | If | then |
|---|---|---|
| `SingleThreadedWithoutCopies` | no copy of an island evolves and no population is filled in parallel | `SingleThreaded`: one thread at a time uses a clone |
| `FullTopologySafe` | a topology has a vertex for each island when it is set | `AcceptedTopologySafe`, however many islands follow |
| `FailureReportedInTurn` | evolutions through one adapter do not overlap | `FailureReported`, in .NET too |
| `HeldPoliciesCallable` | the program keeps a policy callback as long as native code has the policy | `CallablePolicies` |
| `CopiesSafeIfEnded` | the evolutions of copies end before the archipelago is disposed | no callback of any thread reaches a disposed instance (without the condition, one does: no text promises otherwise) |

The conditions speak of steps of the same specification (`[][NoCopyEvolves]_vars`, ...), each
kept by a caller who simply does not take the step, so that none of these is vacuous; TLC agrees with
them on the instances of the runs.

`ContractHonoured` is the rule `IThreadCloneableProblem` states: `Clone()` does not return the
same instance. It is needed for .NET only, whose evaluator does not check it.

The arguments. None of the invariants is inductive. `ExclusiveInstance` needs to know which
route a worker in a body is on (`"native"` only for a safe problem, `"serial"` only on the
calling thread) and that a worker's thread-local clone is its own. Closing needs the
accounting of the call: who is in a body has a clone that is recorded, what is recorded and
not closed is still to be closed, and when the .NET loop has been left no body runs.
`SuccessIsClean` holds in Java although cleanup may overlap with bodies, because a loop that
did not fail ended with every body, so nothing is recorded later. The refinement maps
`batch`, `flat`, `outcome` to themselves; only `Evaluate` and `BatchFitness` change `flat`, and
the two ways to return are `ReturnResult` and `ReturnError`.
For the archipelago, `IslandsExclusive` rests on clones being used once: the instance of an
island is a clone already made, and a new insertion takes one that was not. `NoUseAfterDispose`
rests on the order in `Dispose`: the hook starts after the native destructor found every queue
empty, and the caller's own unsafe problem is never an island's instance.
`ClonesDisposed` needs `made` to be covered by what is rooted or disposed at every moment,
through failed insertions and failed disposals. The refinement uses the same invariants:
`PushBack` is `Acquire` or, for a problem that may be shared, a stutter; the first callback of an
insertion is `Enter`, the last `Leave`, the ones between stutter; a failed insertion is `Abandon`;
`NativeDeleted` is `End`; `CloseClone`, `CloseThrows` and `CallerDisposes` are `Release`, or stutter when a
clone is disposed again. For the conditional theorems it is enough that copies are at rest and the
helper is idle (`CopiesAtRest`, `OneFiller`), that a connected topology has as many vertices as there are
islands (`FullyConnected`), and that copies too only have what the archipelago owns (`CopiesEnded`).
For the bridge, `IInv` adds what each stage knows: a thread is in a callback only in the two native
stages, so that nothing is being deferred when the caller looks (`CallbacksInv`); while the call
runs, a failure is deferred or held by a thread that is about to defer it, and one deferred
during an operation was refused by native code or met an empty batch (`DeferredInv`); a null pointer
comes with the function's own last error (`PointersInv`). That refusal is why the result .NET does
not free on the way out of a population or sparsity call is always null.
For the shared adapter, an exception of an evolution that is deferred has a thread that will
still clear it (`ClearedLater`). The Java results follow the exception itself: it is held by the
thread that caught it, deferred, captured by one thread, or reported by one (`OnePlace`); and once
some evolution failed, one is held, or will be consumed, or was reported (`OnItsWay`). In .NET that
holds as long as one thread at a time is in an evolution (`Alone`).
For the roots, an adapter belongs to one thread while it is being created (`Creating`); afterwards
.NET's table has it (`Handled`) and in Java its director pins it, so that nothing native code has
was ever collectable (`NotCollected`); the Java table is not needed. For policies the program's own
reference has to do what the table does (`PoliciesHeld`).
For IPOPT, `IInv` is `Typed /\ LibraryInv /\ PromiseInv /\ CallInv /\ SolveInv`: one thread at most is
loading and it is the `loader`; while a thread is promised a library, the loader has passed
absent places only, because files that change end every promise; a chosen individual is one its
policy picks, which is what `BestSurvives` and the refinement rest on; `trapped` is what the
callbacks did, and the log grows with the evaluations; the return code is always of the last solve, and
the log of it too once `evolve` has copied it (`SolveInv`). In the refinement `pop` maps to itself and
`running` to the threads that are in a call; `Evolve` is `Start`, a `Replace` that found a better
solution is `Improve`, and every other way out is `Keep`.
For the marshaller, the walk is right because both patterns are sorted (`CursorRight`): an entry
before the cursor was met at an earlier slot, so that a slot whose number is not the cursor's
belongs to no entry. The first derivatives are right because the objective's rows come first in a
sorted pattern, and their number is where both callbacks split what `gradient()` returns (`Split`);
for a problem that states no sparsity, this is the number of variables (`DenseSplit`). A sorted
pattern whose entries are among those of another is not longer (`Longer`).
For the loader, the thread that is past the monitor has found nothing loaded and has ruled out the
earlier places (`Monitor`); what it has extracted is the union of the roots so far (`Extraction`). What is
loaded is in `Linkable`, the least set closed under linking, since the imports of each were loaded
before it; a pass that loaded nothing has passed over libraries that cannot link only, so that
what is loaded is closed and therefore all of `Linkable` (`Passes`). The passes end because each one
but the last leaves fewer siblings. For the grid, the points evaluated are those lexicographically below the
index, and advancing adds the index itself (`Successor`); that two different points differ in
a least dimension comes from the well-foundedness of the natural numbers.

Model-checked only: `Terminates`, `DisposeReturns` and `CallEnds`, since liveness under fairness is
outside what the prover handles; that a search, or a pass, ends because its measure decreases is
stated as an action property (`SearchGetsOn`) and the descent itself left to the reader. Every
other property of a passing run is a theorem. The six violated properties are of course not
proved, except under the conditions above (`ClonesClosed` for .NET); `SourceNotConcurrent` has no condition
worth stating, since it only says that `Clone()` calls overlap.

## 6. What could follow

1. The later use of a problem that was handed to the caller: the failures its adapter defers have
   no consumer any more. It needs the rest of a problem's operations and a text to compare with.
2. The migration itself, with `set_migration_type` and `set_migrant_handling`, and policies written in
   managed code that throw.
3. A contract of the callback boundary (a call returns a value or the exception of a callback) that
   `DeferredBridge` implements in .NET, and one of a shared adapter that Java's implements.

## 7. Not modelled

Numbers: fitness values, bounds, gradients, and the algorithms of pagmo itself. SWIG's
generated code, except for the dispose order its typemap fixes. Standalone islands, whose parts
`CallbackRoots` and `ManagedArchipelago` model. Projections of logs and of multi-objective
data, which copy fields; size conversions, which check one argument. Kotlin's extensions,
which only call the Java binding. An archive that breaks off while the loader extracts it, of which the
code keeps the files it got; imports of imports, which other systems than Windows resolve too; a problem
with Hessian patterns and no Hessians, for which `eval_h` throws. Build, packaging, and examples.

Most of the C++ in the repository is declarations: `src/swig/pagmo` is a copy of pagmo's public
headers, read by SWIG, whose implementation is elsewhere. Of their classes the specifications
contain what the bindings rely on, marked external in the map. What the project implements itself
in C++ is the callback bridge, the archipelago's extensions and the deferred IPOPT, which are
modelled; the rest of its logic is C#, Java and interface files. The map therefore covers a
small share of the repository's C++ lines, and modelling more of the headers would be
modelling pagmo.
