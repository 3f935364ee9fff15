---------------------------- MODULE DeferredBridge ----------------------------
(***************************************************************************)
(* One call that takes a managed problem across the callback boundary: the  *)
(* adapter that defers a callback's exception, the bridge function that      *)
(* builds the native problem, the native operation run on it (a population,  *)
(* a batch evaluation, a gradient estimate), and what the caller is told.    *)
(* Native code calls back on the caller's thread, and from the threads of a  *)
(* parallel evaluator.                                                       *)
(***************************************************************************)
CONSTANTS Bindings,    \* the bindings to model, of "csharp" and "java"
          Threads,     \* the threads native code may call back from
          Caller,      \* the one that made the call
          Failures,    \* the exceptions callbacks can throw, each at most once
          NoFailure    \* no exception

ASSUME BridgeAssumption ==
    /\ Bindings \subseteq {"csharp", "java"}
    /\ Caller \in Threads
    /\ NoFailure \notin Failures
    /\ Failures \cap {"pending", "ok", "native"} = {}

VARIABLES call,         \* the binding, the operation, and whether its batch is empty
          stage,        \* where the calling thread is
          lastError,    \* its thread-local g_pagmonet_last_error
          problemPtr,   \* the native problem
          resultPtr,    \* what the native operation returned
          rooted,       \* the adapter is kept reachable for native code
          pc, caught,   \* each thread's step in a callback, and the exception it caught
          deferred,     \* the adapter's deferred exception
          thrown,       \* the exceptions callbacks threw, by the stage they did it in
          rejected,     \* native code refused a value a failed callback returned
          outcome,      \* what the caller got: a value, an exception, a native error
          text          \* the message of a native error

adapterVars == <<pc, caught, deferred, thrown>>
vars == <<call, stage, lastError, problemPtr, resultPtr, rooted, adapterVars,
          rejected, outcome, text>>

Operations == {"problem", "population", "batch", "gradient", "sparsity"}
Stages == {"start", "factory", "factory_check", "operating", "operation_check",
           "returned"}

CSharp == call.binding = "csharp"
ThrownIn(where) == {e \in Failures : thrown[e] = where}
-----------------------------------------------------------------------------
(* pagmo calls back from several threads only to evaluate a batch, and calls
   batch_fitness() once for an empty one.                                    *)
CallbackThreads ==
    IF stage = "operating" /\ call.op = "batch" /\ ~call.empty THEN Threads ELSE {Caller}

(* Values a failed callback is replaced by: dummy bounds and metadata are what
   pagmo accepts for a problem; an empty fitness vector is of the wrong size,
   except as the result of an empty batch.                                   *)
FallbackAccepted == stage = "factory" \/ call.empty

Init ==
    /\ call \in [binding : Bindings, op : Operations, empty : BOOLEAN]
    /\ call.empty => call.op = "batch"
    /\ stage = "start"
    /\ lastError \in {"none", "earlier"}
    /\ problemPtr = "none" /\ resultPtr = "none"
    /\ rooted = FALSE
    /\ pc = [t \in Threads |-> "idle"]
    /\ caught = [t \in Threads |-> NoFailure]
    /\ deferred = NoFailure
    /\ thrown = [e \in Failures |-> "not"]
    /\ rejected = FALSE
    /\ outcome = "pending" /\ text = "none"
-----------------------------------------------------------------------------
(* Callbacks.                                                                *)

(* Native code enters the adapter; a serial operation ends at a refused value. *)
Enter(t) ==
    /\ stage \in {"factory", "operating"}
    /\ t \in CallbackThreads
    /\ pc[t] = "idle"
    /\ rejected => CallbackThreads # {Caller}
    /\ pc' = [pc EXCEPT ![t] = "running"]
    /\ UNCHANGED <<call, stage, lastError, problemPtr, resultPtr, rooted, caught,
                   deferred, thrown, rejected, outcome, text>>

(* Managed code that itself called the bridge leaves the thread's last error
   cleared, or set to that call's message.                                   *)
NestedBridgeCalls(t) ==
    lastError' \in IF t = Caller THEN {lastError, "none", "nested"} ELSE {lastError}

Succeeds(t) ==
    /\ pc[t] = "running"
    /\ NestedBridgeCalls(t)
    /\ pc' = [pc EXCEPT ![t] = "idle"]
    /\ UNCHANGED <<call, stage, problemPtr, resultPtr, rooted, caught, deferred,
                   thrown, rejected, outcome, text>>

(* The problem's method throws, or returns null; the adapter catches it.      *)
Throws(t) ==
    /\ pc[t] = "running"
    /\ \E e \in ThrownIn("not") :
        /\ thrown' = [thrown EXCEPT ![e] = stage]
        /\ caught' = [caught EXCEPT ![t] = e]
    /\ pc' = [pc EXCEPT ![t] = "caught"]
    /\ NestedBridgeCalls(t)
    /\ UNCHANGED <<call, stage, problemPtr, resultPtr, rooted, deferred, rejected,
                   outcome, text>>

(* The callback returns its fallback value to native code.                    *)
ReturnFallback(t) ==
    /\ pc' = [pc EXCEPT ![t] = "idle"]
    /\ caught' = [caught EXCEPT ![t] = NoFailure]
    /\ rejected' = (rejected \/ ~FallbackAccepted)

(* .NET's Defer is `??=`: the field is read, and assigned in a second step.    *)
ReadDeferred(t) ==
    /\ CSharp
    /\ pc[t] = "caught"
    /\ IF deferred = NoFailure
       THEN /\ pc' = [pc EXCEPT ![t] = "assigning"]
            /\ UNCHANGED <<caught, rejected>>
       ELSE ReturnFallback(t)
    /\ UNCHANGED <<call, stage, lastError, problemPtr, resultPtr, rooted, deferred,
                   thrown, outcome, text>>

AssignDeferred(t) ==
    /\ pc[t] = "assigning"
    /\ deferred' = caught[t]
    /\ ReturnFallback(t)
    /\ UNCHANGED <<call, stage, lastError, problemPtr, resultPtr, rooted, thrown,
                   outcome, text>>

(* Java's defer is compareAndSet(null, ex).                                   *)
KeepFirst(e) == IF deferred = NoFailure THEN e ELSE deferred

CompareAndSet(t) ==
    /\ ~CSharp
    /\ pc[t] = "caught"
    /\ deferred' = KeepFirst(caught[t])
    /\ ReturnFallback(t)
    /\ UNCHANGED <<call, stage, lastError, problemPtr, resultPtr, rooted, thrown,
                   outcome, text>>
-----------------------------------------------------------------------------
(* The call.                                                                 *)

(* Mutant: a catch clause that returns null without a message.                *)
MutSetLastError == UNCHANGED lastError

(* A bridge function clears the last error on entry, and sets it when it
   returns null.                                                             *)
SetLastError == lastError' = "own"

EnterFactory ==
    /\ stage = "start"
    /\ stage' = "factory"
    /\ lastError' = "none"
    /\ UNCHANGED <<call, problemPtr, resultPtr, rooted, adapterVars, rejected,
                   outcome, text>>

FactoryReturns ==
    /\ stage = "factory"
    /\ pc[Caller] = "idle"
    /\ \/ problemPtr' = "live" /\ UNCHANGED lastError
       \/ problemPtr' = "null" /\ SetLastError
    /\ rooted' = (~CSharp /\ problemPtr' = "live")
    /\ stage' = "factory_check"
    /\ UNCHANGED <<call, resultPtr, adapterVars, rejected, outcome, text>>

(* Mutant: the native object is forgotten.                                    *)
MutDeleted(ptr) == ptr

Deleted(ptr) == IF ptr = "live" THEN "deleted" ELSE ptr

(* Mutant: the field is cleared before it is read.                            *)
MutRethrow ==
    /\ deferred' = NoFailure
    /\ outcome' = deferred'
    /\ stage' = "returned"
    /\ UNCHANGED <<lastError, text>>

(* Throwing the exception that was deferred.                                  *)
Rethrow ==
    /\ outcome' = deferred
    /\ deferred' = NoFailure
    /\ stage' = "returned"
    /\ UNCHANGED <<lastError, text>>

(* Throwing the native error: .NET's TakeLastErrorOrDefault also clears it;
   Java reads it where `reads` says, and elsewhere has a text of its own.     *)
ThrowNative(reads) ==
    /\ outcome' = "native"
    /\ text' = IF CSharp \/ reads THEN lastError ELSE "fixed"
    /\ lastError' = IF CSharp THEN "none" ELSE lastError
    /\ stage' = "returned"
    /\ UNCHANGED deferred

(* The rest of CreateProblemPointer: a deferred exception first deletes what
   the factory built all the same.                                           *)
ConstructionThrows ==
    /\ stage = "factory_check"
    /\ deferred # NoFailure
    /\ problemPtr' = Deleted(problemPtr)
    /\ rooted' = FALSE
    /\ Rethrow
    /\ UNCHANGED <<call, resultPtr, pc, caught, thrown, rejected>>

ConstructionFails ==
    /\ stage = "factory_check"
    /\ deferred = NoFailure
    /\ problemPtr = "null"
    /\ ThrowNative(TRUE)
    /\ UNCHANGED <<call, problemPtr, resultPtr, rooted, pc, caught, thrown, rejected>>

(* Mutant: a native problem that was built is taken for a valid one.           *)
MutAccepted == problemPtr = "live"

Accepted == problemPtr = "live" /\ deferred = NoFailure

(* The problem is handed to the caller, or the operation is called on it.      *)
Constructed ==
    /\ stage = "factory_check"
    /\ Accepted
    /\ rooted' = TRUE
    /\ IF call.op = "problem"
       THEN stage' = "returned" /\ outcome' = "ok" /\ UNCHANGED lastError
       ELSE stage' = "operating" /\ lastError' = "none" /\ UNCHANGED outcome
    /\ UNCHANGED <<call, problemPtr, resultPtr, adapterVars, rejected, text>>

(* A native operation returns when no callback runs any more, and not with a
   result after it refused a value.                                          *)
OperationReturns ==
    /\ stage = "operating"
    /\ \A t \in Threads : pc[t] = "idle"
    /\ \/ ~rejected /\ resultPtr' = "live" /\ UNCHANGED lastError
       \/ resultPtr' = "null" /\ SetLastError
    /\ stage' = "operation_check"
    /\ UNCHANGED <<call, problemPtr, rooted, adapterVars, rejected, outcome, text>>

(* .NET surfaces a deferred exception before it looks at the result, which only
   GetVectorOrThrow frees; leaving the scope deletes the native problem.       *)
OperationThrows ==
    /\ stage = "operation_check"
    /\ CSharp
    /\ deferred # NoFailure
    /\ resultPtr' = IF call.op \in {"batch", "gradient"} THEN Deleted(resultPtr) ELSE resultPtr
    /\ problemPtr' = "deleted"
    /\ Rethrow
    /\ UNCHANGED <<call, rooted, pc, caught, thrown, rejected>>

(* Mutant: the result is looked at before the adapter.                        *)
MutNothingDeferred == TRUE

(* Java never looks at the adapter after an operation.                        *)
NothingDeferred == CSharp => deferred = NoFailure

OperationFails ==
    /\ stage = "operation_check"
    /\ NothingDeferred
    /\ resultPtr = "null"
    /\ problemPtr' = "deleted"
    /\ ThrowNative(call.op = "batch")
    /\ UNCHANGED <<call, resultPtr, rooted, pc, caught, thrown, rejected>>

OperationSucceeds ==
    /\ stage = "operation_check"
    /\ NothingDeferred
    /\ resultPtr = "live"
    /\ resultPtr' = "handed"
    /\ problemPtr' = "deleted"
    /\ outcome' = "ok"
    /\ stage' = "returned"
    /\ UNCHANGED <<call, lastError, rooted, adapterVars, rejected, text>>
-----------------------------------------------------------------------------
Callback(t) == \/ Enter(t) \/ Succeeds(t) \/ Throws(t)
               \/ ReadDeferred(t) \/ AssignDeferred(t) \/ CompareAndSet(t)

Next == \/ \E t \in Threads : Callback(t)
        \/ EnterFactory \/ FactoryReturns
        \/ ConstructionThrows \/ ConstructionFails \/ Constructed
        \/ OperationReturns
        \/ OperationThrows \/ OperationFails \/ OperationSucceeds

Spec == Init /\ [][Next]_vars
-----------------------------------------------------------------------------
(* Every variable has its type.                                              *)
TypeOK ==
    /\ call \in [binding : Bindings, op : Operations, empty : BOOLEAN]
    /\ stage \in Stages
    /\ lastError \in {"none", "own", "nested", "earlier"}
    /\ problemPtr \in {"none", "null", "live", "deleted"}
    /\ resultPtr \in {"none", "null", "live", "deleted", "handed"}
    /\ rooted \in BOOLEAN
    /\ pc \in [Threads -> {"idle", "running", "caught", "assigning"}]
    /\ caught \in [Threads -> Failures \cup {NoFailure}]
    /\ deferred \in Failures \cup {NoFailure}
    /\ thrown \in [Failures -> {"not", "factory", "operating"}]
    /\ rejected \in BOOLEAN
    /\ outcome \in {"pending", "ok", "native"} \cup Failures
    /\ text \in {"none", "own", "nested", "earlier", "fixed"}

(* A .NET call during which any callback failed, on whatever thread and with   *)
(* whatever fallback native code went on, ends with one of those exceptions:   *)
(* never with a result, and never with the native error it led to.             *)
FailureSurfaces ==
    CSharp /\ stage = "returned" /\ (\E e \in Failures : thrown[e] # "not")
        => outcome \in Failures /\ thrown[outcome] # "not"

(* The problem an operation, or the caller, works with was built without a     *)
(* failed callback: dummy bounds and metadata are never used. It is live, and  *)
(* its adapter is rooted.                                                     *)
UsableProblem ==
    stage = "operating" \/ (outcome = "ok" /\ call.op = "problem")
        => problemPtr = "live" /\ rooted /\ ThrownIn("factory") = {}

(* A call that ended has freed the native problem, unless that is what it      *)
(* returned, and what the operation computed, unless the caller has it; a      *)
(* construction that failed leaves no root behind.                             *)
NothingLeaks ==
    stage = "returned" =>
        /\ problemPtr = "live" <=> (call.op = "problem" /\ outcome = "ok")
        /\ resultPtr # "live"
        /\ resultPtr = "none" /\ outcome # "ok" => ~rooted

(* The text of a native error is the failing bridge function's own, whatever   *)
(* earlier calls left in the thread's last error and whatever bridge calls the *)
(* callbacks made meanwhile.                                                  *)
OwnErrorText == text \notin {"earlier", "nested"}
=============================================================================
