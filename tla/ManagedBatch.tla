---------------------------- MODULE ManagedBatch -----------------------------
(***************************************************************************)
(* One batch fitness evaluation of a managed problem: thread_bfe,           *)
(* default_bfe or member_bfe dispatched by BfeBridge, or managed_thread_bfe  *)
(* called directly, in the C# binding (Parallel.For) or the Java binding     *)
(* (a parallel stream on the common ForkJoin pool).                          *)
(*                                                                          *)
(* An instance of the problem is the caller's own object, Source, or the     *)
(* clone a worker made, named by that worker: ThreadLocal makes at most one  *)
(* clone per worker and call.                                                *)
(***************************************************************************)
CONSTANTS Binding,     \* "csharp" or "java"
          Workers,     \* the threads that execute loop bodies
          Caller,      \* the worker that runs a serial evaluation
          Points,      \* the decision vectors a batch can hold
          Problems,    \* the problems a call can be given
          Source,      \* the caller's problem object
          NoClone      \* a worker that has no thread-local clone yet

CloneResult == {"fresh", "null", "same"}

ProblemType == [safety : {"None", "Basic"},       \* get_thread_safety()
                clones : SUBSET CloneResult,      \* what Clone() may return; {} if not cloneable
                batch  : BOOLEAN]                 \* has_batch_fitness()

ASSUME BatchAssumption ==
    /\ Binding \in {"csharp", "java"}
    /\ Caller \in Workers
    /\ Problems \subseteq ProblemType
    /\ Source \notin Workers
    /\ NoClone \notin Workers \cup {Source}

VARIABLES entry,       \* the evaluator the caller used
          problem,     \* the problem it was given
          batch,       \* the decision vectors of batchX
          stage,       \* where the calling thread is
          route,       \* the path BfeBridge chose
          remaining,   \* decision vectors no body has been started for
          pc, at,      \* each worker's step and the decision vector it holds
          clones,      \* the ThreadLocal: each worker's problem instance
          allClones,   \* the instances the call has recorded for closing
          toClose,     \* those its cleanup loop has still to close
          closed,      \* the instances closed so far
          flat,        \* decision vectors whose fitness is in the output buffer
          failed,      \* an exception is on its way to the caller
          closeThrew,  \* closing an instance threw
          outcome,     \* what the caller got
          released     \* the caller has disposed batchX and the problem

callVars == <<entry, problem, batch>>
bodyVars == <<remaining, pc, at, clones, allClones, flat>>
vars == <<callVars, stage, route, bodyVars, toClose, closed, failed,
          closeThrew, outcome, released>>

Entries == {"thread_bfe", "default_bfe", "member_bfe", "managed_thread_bfe"}
Instances == Workers \cup {Source}
-----------------------------------------------------------------------------
(* What the two bindings do differently.                                    *)

\* Parallel.For returns, normally or with AggregateException, after every body
\* it started has ended; a parallel stream's forEach rethrows the first failure
\* while sibling tasks still run, and get() can be interrupted.
JoinsBodies == Binding = "csharp"

\* Mutant: a clone() that returned `this` is accepted by Java too.
MutRejectsSame == FALSE

\* Java's ThreadLocal initialiser rejects a clone() that returned `this`.
RejectsSame == Binding = "java"

\* trackAllValues records a clone as it is made; Java adds it to allClones later.
RecordsOnCreation == Binding = "csharp"

Cloneable == problem.clones # {}
Unsafe == problem.safety = "None"

(* A None problem that is cloneable goes to managed_thread_bfe, after a probe. *)
NeedsProbe == entry = "thread_bfe" /\ Unsafe /\ Cloneable

(* pagmo's default_bfe: batch_fitness() if there is one, else thread_bfe.     *)
DefaultRoute == IF problem.batch THEN "member"
                ELSE IF Unsafe THEN "rejected" ELSE "native"

(* C# calls the native evaluator the caller chose.                            *)
CSharpRoute == [thread_bfe  |-> "native",
                default_bfe |-> DefaultRoute,
                member_bfe  |-> IF problem.batch THEN "member" ELSE "rejected"][entry]

(* Java always calls default_bfe, or loops over fitness() itself.             *)
JavaRoute == IF Unsafe /\ ~problem.batch THEN "serial" ELSE DefaultRoute

(* Mutant: thread_bfe forgets the thread-safety rejection.                    *)
MutRoute == IF entry = "managed_thread_bfe" THEN "managed"
            ELSE IF Binding = "java" THEN JavaRoute
            ELSE IF entry = "thread_bfe" THEN "native" ELSE CSharpRoute

(* The path of a call that is not probed.                                     *)
Route == IF entry = "managed_thread_bfe" THEN "managed"
         ELSE IF entry = "thread_bfe" /\ Unsafe THEN "rejected"
         ELSE IF Binding = "java" THEN JavaRoute ELSE CSharpRoute

(* The instance whose fitness() a worker calls.                               *)
InstanceOf(w) == IF route = "managed" THEN clones[w] ELSE Source
-----------------------------------------------------------------------------
Init ==
    /\ entry \in Entries
    /\ problem \in {p \in Problems : entry = "managed_thread_bfe" => p.clones # {}}
    /\ batch \in SUBSET Points
    /\ stage = "start"
    /\ route = "none"
    /\ remaining = {}
    /\ pc = [w \in Workers |-> "idle"]
    /\ at = [w \in Workers |-> {}]
    /\ clones = [w \in Workers |-> NoClone]
    /\ allClones = {} /\ toClose = {} /\ closed = {}
    /\ flat = {}
    /\ failed = FALSE /\ closeThrew = FALSE
    /\ outcome = "pending"
    /\ released = FALSE

ReturnWith(result) == stage' = "returned" /\ outcome' = result

(* The loop starts, unless batchX is not a multiple of the dimension, a query *)
(* on the problem throws, or a serial evaluation reads the first decision     *)
(* vector of an empty batch.                                                  *)
EnterLoop(r) ==
    /\ route' = r
    /\ \/ /\ r = "serial" => batch # {}
          /\ stage' = "loop"
          /\ remaining' = batch
          /\ UNCHANGED outcome
       \/ /\ ReturnWith("error")
          /\ UNCHANGED remaining

Dispatch ==
    /\ stage = "start"
    /\ ~NeedsProbe
    /\ IF Route = "rejected"
         THEN /\ route' = "rejected"
              /\ ReturnWith("error")
              /\ UNCHANGED remaining
         ELSE EnterLoop(Route)
    /\ UNCHANGED <<callVars, pc, at, clones, allClones, flat, toClose, closed,
                   failed, closeThrew, released>>

(* BfeBridge clones once to see whether Clone() works and closes the probe,   *)
(* whatever object it is; null falls through to the thread-safety rejection.  *)
Probe ==
    /\ stage = "start"
    /\ NeedsProbe
    /\ \E r \in problem.clones :
          /\ IF r = "null"
               THEN /\ route' = "rejected"
                    /\ ReturnWith("error")
                    /\ UNCHANGED remaining
               ELSE EnterLoop("managed")
          /\ closed' = IF r = "same" THEN closed \cup {Source} ELSE closed
    /\ UNCHANGED <<callVars, pc, at, clones, allClones, flat, toClose,
                   failed, closeThrew, released>>
-----------------------------------------------------------------------------
(* Loop bodies.  A worker can start one while the loop is open; Java's tasks  *)
(* that were split off before a failure are still run after the call went on. *)
LoopOpen == \/ stage = "loop"
            \/ route = "managed" /\ ~JoinsBodies /\ stage \in {"closing", "returned"}

Claim(w) ==
    /\ LoopOpen
    /\ route \in {"managed", "native", "serial"}
    /\ route = "serial" => w = Caller /\ ~failed
    /\ pc[w] = "idle"
    /\ \E p \in remaining : /\ remaining' = remaining \ {p}
                            /\ at' = [at EXCEPT ![w] = {p}]
    /\ pc' = [pc EXCEPT ![w] = IF InstanceOf(w) = NoClone THEN "clone" ELSE "fitness"]
    /\ UNCHANGED <<callVars, stage, route, clones, allClones, flat, toClose,
                   closed, failed, closeThrew, outcome, released>>

(* The body throws: its task is done and the rest of its range is dropped.    *)
Throws(w) ==
    /\ failed' = TRUE
    /\ pc' = [pc EXCEPT ![w] = "idle"]
    /\ at' = [at EXCEPT ![w] = {}]
    /\ remaining' \in SUBSET remaining

(* The ThreadLocal initialiser: Clone() on the caller's problem.              *)
MakeClone(w) ==
    /\ pc[w] = "clone"
    /\ \E r \in problem.clones :
          \/ /\ r = "null" \/ (r = "same" /\ RejectsSame)
             /\ Throws(w)
             /\ UNCHANGED <<clones, allClones>>
          \/ /\ r = "fresh" \/ (r = "same" /\ ~RejectsSame)
             /\ LET instance == IF r = "same" THEN Source ELSE w IN
                  /\ clones' = [clones EXCEPT ![w] = instance]
                  /\ IF RecordsOnCreation
                       THEN /\ allClones' = allClones \cup {instance}
                            /\ pc' = [pc EXCEPT ![w] = "fitness"]
                       ELSE /\ pc' = [pc EXCEPT ![w] = "record"]
                            /\ UNCHANGED allClones
             /\ UNCHANGED <<remaining, at, failed>>
    /\ UNCHANGED <<callVars, stage, route, flat, toClose, closed, closeThrew,
                   outcome, released>>

(* synchronized (allClones) { allClones.add(clone); }                         *)
Record(w) ==
    /\ pc[w] = "record"
    /\ allClones' = allClones \cup {clones[w]}
    /\ pc' = [pc EXCEPT ![w] = "fitness"]
    /\ UNCHANGED <<callVars, stage, route, remaining, at, clones, flat, toClose,
                   closed, failed, closeThrew, outcome, released>>

(* Mutant: the slice is addressed past the end of the batch.                  *)
MutEvaluate(w) ==
    /\ pc[w] = "fitness"
    /\ flat' = flat \cup Points
    /\ pc' = [pc EXCEPT ![w] = "idle"]
    /\ at' = [at EXCEPT ![w] = {}]
    /\ UNCHANGED <<callVars, stage, route, remaining, clones, allClones, toClose,
                   closed, failed, closeThrew, outcome, released>>

(* fitness() returned and the slice of the output buffer is written.          *)
Evaluate(w) ==
    /\ pc[w] = "fitness"
    /\ flat' = flat \cup at[w]
    /\ pc' = [pc EXCEPT ![w] = "idle"]
    /\ at' = [at EXCEPT ![w] = {}]
    /\ UNCHANGED <<callVars, stage, route, remaining, clones, allClones, toClose,
                   closed, failed, closeThrew, outcome, released>>

(* fitness() threw: directly, or deferred by the callback adapter and turned  *)
(* into a native exception by pagmo's check of the returned vector.           *)
FitnessThrows(w) ==
    /\ pc[w] = "fitness"
    /\ Throws(w)
    /\ UNCHANGED <<callVars, stage, route, clones, allClones, flat, toClose,
                   closed, closeThrew, outcome, released>>

(* batch_fitness() evaluates everything in one call on the calling thread.    *)
BatchFitness ==
    /\ stage = "loop" /\ route = "member" /\ ~failed
    /\ remaining # {}
    /\ remaining' = {}
    /\ \/ flat' = batch /\ UNCHANGED failed
       \/ failed' = TRUE /\ UNCHANGED flat
    /\ UNCHANGED <<callVars, stage, route, pc, at, clones, allClones, toClose,
                   closed, closeThrew, outcome, released>>

AllIdle == \A w \in Workers : pc[w] = "idle"
-----------------------------------------------------------------------------
(* The calling thread.                                                        *)

\* Mutants: a body that threw counts as one that completed; the loop waits for
\* what is queued and not for the bodies that are running.
MutLoopCompletes == AllIdle /\ remaining = {}
MutLoopCompletesEarly == remaining = {} /\ ~failed

LoopCompletes == AllIdle /\ remaining = {} /\ ~failed

\* Mutants: the failure is rethrown while other bodies run; a body that throws
\* does not count down the latch the caller waits on.
MutLoopFails == failed
MutLoopFailsLatch == failed /\ AllIdle /\ flat = batch

LoopFails == failed /\ (AllIdle \/ (route = "managed" /\ ~JoinsBodies))

(* Mutant: cleanup after the loop, not in a finally block.                    *)
MutLeaveLoop(threw) ==
    /\ failed' = threw
    /\ IF route = "managed" /\ ~threw
         THEN /\ stage' = "closing"
              /\ toClose' = allClones
              /\ UNCHANGED outcome
         ELSE /\ ReturnWith(IF threw THEN "error" ELSE "result")
              /\ UNCHANGED toClose
    /\ UNCHANGED <<callVars, route, bodyVars, closed, closeThrew, released>>

(* The finally block closes what has been recorded by now.                    *)
LeaveLoop(threw) ==
    /\ failed' = threw
    /\ IF route = "managed"
         THEN /\ stage' = "closing"
              /\ toClose' = allClones
              /\ UNCHANGED outcome
         ELSE /\ ReturnWith(IF threw THEN "error" ELSE "result")
              /\ UNCHANGED toClose
    /\ UNCHANGED <<callVars, route, bodyVars, closed, closeThrew, released>>

LoopReturns == stage = "loop" /\ LoopCompletes /\ LeaveLoop(FALSE)

LoopThrows == stage = "loop" /\ LoopFails /\ LeaveLoop(TRUE)

(* InterruptedException out of get(): the bodies are not told.                *)
Interrupted == /\ stage = "loop" /\ route = "managed" /\ ~JoinsBodies
               /\ LeaveLoop(TRUE)

CloseOne ==
    /\ stage = "closing"
    /\ \E c \in toClose : /\ toClose' = toClose \ {c}
                          /\ closed' = closed \cup {c}
    /\ UNCHANGED <<callVars, stage, route, bodyVars, failed, closeThrew,
                   outcome, released>>

(* The cleanup loop is abandoned: an instance's Dispose/close threw, or the   *)
(* unsynchronised iteration over allClones met a concurrent add.              *)
AbandonClosing ==
    /\ stage = "closing"
    /\ toClose # {}
    /\ \/ closeThrew' = TRUE
       \/ /\ ~(allClones \subseteq closed \cup toClose)
          /\ UNCHANGED closeThrew
    /\ toClose' = {}
    /\ ReturnWith("error")
    /\ UNCHANGED <<callVars, route, bodyVars, closed, failed, released>>

Return ==
    /\ stage = "closing"
    /\ toClose = {}
    /\ ReturnWith(IF failed THEN "error" ELSE "result")
    /\ UNCHANGED <<callVars, route, bodyVars, toClose, closed, failed,
                   closeThrew, released>>

(* The caller is free to dispose what it passed in once the call is over.     *)
CallerReleases ==
    /\ stage = "returned"
    /\ ~released
    /\ released' = TRUE
    /\ closed' = closed \cup {Source}
    /\ UNCHANGED <<callVars, stage, route, bodyVars, toClose, failed,
                   closeThrew, outcome>>

Body(w) == MakeClone(w) \/ Record(w) \/ Evaluate(w) \/ FitnessThrows(w)

CallingThread == \/ Dispatch \/ Probe \/ BatchFitness
                 \/ LoopReturns \/ LoopThrows \/ CloseOne \/ Return

Next == \/ CallingThread
        \/ AbandonClosing \/ Interrupted \/ CallerReleases
        \/ \E w \in Workers : Claim(w) \/ Body(w)

(* fitness(), clone() and close() are assumed to return; a started body and   *)
(* the calling thread keep running, and some pool thread takes what remains.  *)
Fairness == /\ WF_vars(CallingThread)
            /\ WF_vars(\E w \in Workers : Claim(w))
            /\ \A w \in Workers : WF_vars(Body(w))

Spec == Init /\ [][Next]_vars /\ Fairness
-----------------------------------------------------------------------------
(* Properties *)

TypeOK ==
    /\ entry \in Entries /\ problem \in Problems /\ batch \in SUBSET Points
    /\ stage \in {"start", "loop", "closing", "returned"}
    /\ route \in {"none", "managed", "native", "member", "serial", "rejected"}
    /\ remaining \in SUBSET batch
    /\ pc \in [Workers -> {"idle", "clone", "record", "fitness"}]
    /\ at \in [Workers -> SUBSET batch]
    /\ clones \in [Workers -> Instances \cup {NoClone}]
    /\ allClones \in SUBSET Instances /\ toClose \in SUBSET Instances
    /\ closed \in SUBSET Instances
    /\ flat \in SUBSET batch
    /\ failed \in BOOLEAN /\ closeThrew \in BOOLEAN /\ released \in BOOLEAN
    /\ outcome \in {"pending", "result", "error"}

(* A problem that declares ThreadSafety.None never has fitness() running on    *)
(* one instance in two threads, whichever evaluator it is given to: BfeBridge  *)
(* sends it to per-thread clones, to one thread, or refuses it.                *)
ExclusiveInstance ==
    Unsafe => \A v, w \in Workers :
                 /\ v # w
                 /\ pc[v] = "fitness" /\ pc[w] = "fitness"
                 => InstanceOf(v) # InstanceOf(w)

(* No body runs on an instance that has been closed, nor after the caller got  *)
(* batchX and the problem back: the cleanup in the finally block comes after    *)
(* every body.                                                                 *)
NoUseAfterClose ==
    \A w \in Workers : pc[w] = "fitness" => InstanceOf(w) \notin closed /\ ~released

(* When the call has returned, every clone a worker made has been closed,      *)
(* unless closing one of them threw.                                           *)
ClonesClosed ==
    stage = "returned" /\ ~closeThrew =>
        \A w \in Workers : clones[w] = w => w \in closed

(* A call that returns a result evaluated every decision vector, swallowed no  *)
(* exception, left no body running and closed all its clones, in both bindings. *)
SuccessIsClean ==
    outcome = "result" => /\ flat = batch /\ ~failed
                          /\ AllIdle /\ remaining = {}
                          /\ \A w \in Workers : clones[w] = w => w \in closed

UsesSource(w) == pc[w] = "clone" \/ (pc[w] = "fitness" /\ InstanceOf(w) = Source)

(* The caller's own None problem is used by one thread at a time: neither in    *)
(* Clone(), which the workers call on it, nor in fitness(), by two at once.     *)
SourceNotConcurrent ==
    Unsafe => \A v, w \in Workers : UsesSource(v) /\ UsesSource(w) => v = w

(* Every call ends, whatever the bodies, Clone() and Dispose() do, as long as   *)
(* they return or throw.                                                       *)
Terminates == (stage = "loop") ~> (stage = "returned")

(* The .NET evaluator implements the contract: in particular the output buffer *)
(* does not change any more once the call has ended.                           *)
Contract == INSTANCE BatchContract
                WITH Points <- Points, batch <- batch, flat <- flat, outcome <- outcome
ImplementsContract == Contract!Spec
=============================================================================
