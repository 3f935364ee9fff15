------------------------ MODULE DeferredBridgeProofs -------------------------
(***************************************************************************)
(* The invariants of DeferredBridge, for any set of threads, any number of   *)
(* failures, and either binding.                                             *)
(***************************************************************************)
EXTENDS DeferredBridge, TLAPS

Failing(t) == pc[t] \in {"caught", "assigning"}

(* A thread is inside a callback only where native code runs, and holds there  *)
(* an exception thrown in the present stage; only .NET assigns separately.     *)
CallbacksInv ==
    \A t \in Threads :
        /\ pc[t] # "idle" => stage \in {"factory", "operating"} /\ t \in CallbackThreads
        /\ Failing(t) => caught[t] \in Failures /\ thrown[caught[t]] = stage
        /\ pc[t] = "assigning" => CSharp

(* Until the call returns, a failure is deferred or about to be; what is        *)
(* deferred was thrown; and during an operation native code refused it, except *)
(* in an empty batch.                                                        *)
DeferredInv ==
    /\ stage # "returned" /\ (\E e \in Failures : thrown[e] # "not")
           => deferred # NoFailure \/ (\E t \in Threads : Failing(t))
    /\ deferred # NoFailure => thrown[deferred] # "not"
    /\ stage \in {"operating", "operation_check"} /\ deferred # NoFailure
           => rejected \/ call.empty

(* The pointers, the root and the last error at each stage of the call.         *)
PointersInv ==
    /\ call.empty => call.op = "batch"
    /\ outcome = "pending" <=> stage # "returned"
    /\ stage \in {"start", "factory"} =>
           problemPtr = "none" /\ resultPtr = "none" /\ ~rooted
    /\ stage = "factory_check" =>
           /\ problemPtr \in {"live", "null"} /\ resultPtr = "none"
           /\ problemPtr = "null" => ~rooted /\ lastError = "own"
    /\ stage = "operating" => resultPtr = "none"
    /\ stage \in {"operating", "operation_check"} =>
           call.op # "problem" /\ problemPtr = "live"
    /\ stage = "operation_check" =>
           /\ resultPtr = "live" \/ (resultPtr = "null" /\ lastError = "own")
           /\ resultPtr = "live" => ~rejected

IInv == /\ TypeOK /\ CallbacksInv /\ DeferredInv /\ PointersInv
        /\ FailureSurfaces /\ UsableProblem /\ NothingLeaks /\ OwnErrorText
-----------------------------------------------------------------------------
LEMMA InitInv == Init => IInv
<1> SUFFICES ASSUME Init PROVE IInv
  OBVIOUS
<1> USE BridgeAssumption DEF Init
<1>1. TypeOK
  BY DEF TypeOK, Operations, Stages
<1>2. CallbacksInv
  BY DEF CallbacksInv, Failing
<1>3. DeferredInv
  BY DEF DeferredInv
<1>4. PointersInv
  BY DEF PointersInv
<1>5. FailureSurfaces /\ UsableProblem /\ NothingLeaks /\ OwnErrorText
  BY DEF FailureSurfaces, UsableProblem, NothingLeaks, OwnErrorText
<1> QED
  BY <1>1, <1>2, <1>3, <1>4, <1>5 DEF IInv


(* Enter keeps the invariant. *)
LEMMA EnterInv ==
    ASSUME NEW t \in Threads, IInv, Enter(t)
    PROVE  IInv'
<1> USE BridgeAssumption DEF IInv
<1>1. TypeOK'
  BY DEF Enter, TypeOK, Stages, ThrownIn
<1>2. CallbacksInv'
  BY DEF Enter, CallbacksInv, Failing, CallbackThreads, CSharp, TypeOK,
     ThrownIn
<1>3. DeferredInv'
  BY DEF Enter, DeferredInv, CallbacksInv, Failing, TypeOK, ThrownIn,
     FallbackAccepted
<1>4. PointersInv'
  BY DEF Enter, PointersInv, TypeOK
<1>5. FailureSurfaces'
  BY DEF Enter, FailureSurfaces, CSharp, DeferredInv, CallbacksInv, Failing,
     TypeOK, PointersInv
<1>6. UsableProblem'
  BY DEF Enter, UsableProblem, ThrownIn, TypeOK, PointersInv
<1>7. NothingLeaks'
  BY DEF Enter, NothingLeaks, TypeOK, PointersInv, DeferredInv
<1>8. OwnErrorText'
  BY DEF Enter, OwnErrorText, PointersInv, TypeOK
<1> QED
  BY <1>1, <1>2, <1>3, <1>4, <1>5, <1>6, <1>7, <1>8

(* Succeeds keeps the invariant. *)
LEMMA SucceedsInv ==
    ASSUME NEW t \in Threads, IInv, Succeeds(t)
    PROVE  IInv'
<1> USE BridgeAssumption DEF IInv
<1>0. stage \in {"factory", "operating"}
  BY DEF Succeeds, CallbacksInv, TypeOK
<1>1. TypeOK'
  BY <1>0 DEF Succeeds, NestedBridgeCalls, TypeOK, Stages, ThrownIn
<1>2. CallbacksInv'
  BY DEF Succeeds, NestedBridgeCalls, CallbacksInv, Failing,
     CallbackThreads, CSharp, TypeOK, ThrownIn
<1>3. DeferredInv'
  BY DEF Succeeds, NestedBridgeCalls, DeferredInv, CallbacksInv, Failing,
     TypeOK, ThrownIn, FallbackAccepted
<1>4. PointersInv'
  BY <1>0 DEF Succeeds, NestedBridgeCalls, PointersInv, TypeOK
<1>5. FailureSurfaces'
  BY DEF Succeeds, NestedBridgeCalls, FailureSurfaces, CSharp, DeferredInv,
     CallbacksInv, Failing, TypeOK, PointersInv
<1>6. UsableProblem'
  BY DEF Succeeds, NestedBridgeCalls, UsableProblem, ThrownIn, TypeOK,
     PointersInv
<1>7. NothingLeaks'
  BY DEF Succeeds, NestedBridgeCalls, NothingLeaks, TypeOK, PointersInv,
     DeferredInv
<1>8. OwnErrorText'
  BY DEF Succeeds, NestedBridgeCalls, OwnErrorText, PointersInv, TypeOK
<1> QED
  BY <1>1, <1>2, <1>3, <1>4, <1>5, <1>6, <1>7, <1>8

(* Throws keeps the invariant. *)
LEMMA ThrowsInv ==
    ASSUME NEW t \in Threads, IInv, Throws(t)
    PROVE  IInv'
<1> USE BridgeAssumption DEF IInv
<1>0. stage \in {"factory", "operating"}
  BY DEF Throws, CallbacksInv, TypeOK
<1>1. TypeOK'
  BY <1>0 DEF Throws, NestedBridgeCalls, TypeOK, Stages, ThrownIn
<1>2. CallbacksInv'
  BY DEF Throws, NestedBridgeCalls, CallbacksInv, Failing, CallbackThreads,
     CSharp, TypeOK, ThrownIn
<1>3. DeferredInv'
  BY DEF Throws, NestedBridgeCalls, DeferredInv, CallbacksInv, Failing,
     TypeOK, ThrownIn, FallbackAccepted
<1>4. PointersInv'
  BY <1>0 DEF Throws, NestedBridgeCalls, PointersInv, TypeOK
<1>5. FailureSurfaces'
  BY DEF Throws, NestedBridgeCalls, FailureSurfaces, CSharp, DeferredInv,
     CallbacksInv, Failing, TypeOK, PointersInv
<1>6. UsableProblem'
  BY DEF Throws, NestedBridgeCalls, UsableProblem, ThrownIn, TypeOK,
     PointersInv
<1>7. NothingLeaks'
  BY DEF Throws, NestedBridgeCalls, NothingLeaks, TypeOK, PointersInv,
     DeferredInv
<1>8. OwnErrorText'
  BY DEF Throws, NestedBridgeCalls, OwnErrorText, PointersInv, TypeOK
<1> QED
  BY <1>1, <1>2, <1>3, <1>4, <1>5, <1>6, <1>7, <1>8

(* ReadDeferred keeps the invariant. *)
LEMMA ReadDeferredInv ==
    ASSUME NEW t \in Threads, IInv, ReadDeferred(t)
    PROVE  IInv'
<1> USE BridgeAssumption DEF IInv
<1>0. stage \in {"factory", "operating"}
  BY DEF ReadDeferred, CallbacksInv, TypeOK
<1>1. TypeOK'
  <2>1. CASE deferred = NoFailure
    BY <2>1 DEF ReadDeferred, TypeOK
  <2>2. CASE deferred # NoFailure
    <3>1. rejected' \in BOOLEAN
      BY <2>2 DEF ReadDeferred, ReturnFallback
    <3> QED
      BY <2>2, <3>1 DEF ReadDeferred, ReturnFallback, TypeOK
  <2> QED
    BY <2>1, <2>2
<1>2. CallbacksInv'
  BY DEF ReadDeferred, ReturnFallback, CallbacksInv, Failing,
     CallbackThreads, CSharp, TypeOK, ThrownIn
<1>3. DeferredInv'
  BY DEF ReadDeferred, ReturnFallback, DeferredInv, CallbacksInv, Failing,
     TypeOK, ThrownIn, FallbackAccepted
<1>4. PointersInv'
  BY <1>0 DEF ReadDeferred, ReturnFallback, PointersInv, TypeOK
<1>5. FailureSurfaces'
  BY DEF ReadDeferred, ReturnFallback, FailureSurfaces, CSharp, DeferredInv,
     CallbacksInv, Failing, TypeOK, PointersInv
<1>6. UsableProblem'
  BY DEF ReadDeferred, ReturnFallback, UsableProblem, ThrownIn, TypeOK,
     PointersInv
<1>7. NothingLeaks'
  BY DEF ReadDeferred, ReturnFallback, NothingLeaks, TypeOK, PointersInv,
     DeferredInv
<1>8. OwnErrorText'
  BY DEF ReadDeferred, ReturnFallback, OwnErrorText, PointersInv, TypeOK
<1> QED
  BY <1>1, <1>2, <1>3, <1>4, <1>5, <1>6, <1>7, <1>8

(* AssignDeferred keeps the invariant. *)
LEMMA AssignDeferredInv ==
    ASSUME NEW t \in Threads, IInv, AssignDeferred(t)
    PROVE  IInv'
<1> USE BridgeAssumption DEF IInv
<1>0. stage \in {"factory", "operating"}
  BY DEF AssignDeferred, CallbacksInv, TypeOK
<1>1. TypeOK'
  BY <1>0 DEF AssignDeferred, ReturnFallback, TypeOK, Stages, ThrownIn
<1>2. CallbacksInv'
  BY DEF AssignDeferred, ReturnFallback, CallbacksInv, Failing,
     CallbackThreads, CSharp, TypeOK, ThrownIn
<1>3. DeferredInv'
  BY DEF AssignDeferred, ReturnFallback, DeferredInv, CallbacksInv, Failing,
     TypeOK, ThrownIn, FallbackAccepted
<1>4. PointersInv'
  BY <1>0 DEF AssignDeferred, ReturnFallback, PointersInv, TypeOK
<1>5. FailureSurfaces'
  BY DEF AssignDeferred, ReturnFallback, FailureSurfaces, CSharp,
     DeferredInv, CallbacksInv, Failing, TypeOK, PointersInv
<1>6. UsableProblem'
  BY DEF AssignDeferred, ReturnFallback, UsableProblem, ThrownIn, TypeOK,
     PointersInv
<1>7. NothingLeaks'
  BY DEF AssignDeferred, ReturnFallback, NothingLeaks, TypeOK, PointersInv,
     DeferredInv
<1>8. OwnErrorText'
  BY DEF AssignDeferred, ReturnFallback, OwnErrorText, PointersInv, TypeOK
<1> QED
  BY <1>1, <1>2, <1>3, <1>4, <1>5, <1>6, <1>7, <1>8

(* CompareAndSet keeps the invariant. *)
LEMMA CompareAndSetInv ==
    ASSUME NEW t \in Threads, IInv, CompareAndSet(t)
    PROVE  IInv'
<1> USE BridgeAssumption DEF IInv
<1>0. stage \in {"factory", "operating"}
  BY DEF CompareAndSet, CallbacksInv, TypeOK
<1>1. TypeOK'
  BY <1>0 DEF CompareAndSet, ReturnFallback, KeepFirst, TypeOK, Stages, ThrownIn
<1>2. CallbacksInv'
  BY DEF CompareAndSet, ReturnFallback, KeepFirst, CallbacksInv, Failing,
     CallbackThreads, CSharp, TypeOK, ThrownIn
<1>3. DeferredInv'
  BY DEF CompareAndSet, ReturnFallback, KeepFirst, DeferredInv,
     CallbacksInv, Failing, TypeOK, ThrownIn, FallbackAccepted
<1>4. PointersInv'
  BY <1>0 DEF CompareAndSet, ReturnFallback, KeepFirst, PointersInv, TypeOK
<1>5. FailureSurfaces'
  BY DEF CompareAndSet, ReturnFallback, KeepFirst, FailureSurfaces, CSharp,
     DeferredInv, CallbacksInv, Failing, TypeOK, PointersInv
<1>6. UsableProblem'
  BY DEF CompareAndSet, ReturnFallback, KeepFirst, UsableProblem, ThrownIn,
     TypeOK, PointersInv
<1>7. NothingLeaks'
  BY DEF CompareAndSet, ReturnFallback, KeepFirst, NothingLeaks, TypeOK,
     PointersInv, DeferredInv
<1>8. OwnErrorText'
  BY DEF CompareAndSet, ReturnFallback, KeepFirst, OwnErrorText,
     PointersInv, TypeOK
<1> QED
  BY <1>1, <1>2, <1>3, <1>4, <1>5, <1>6, <1>7, <1>8

(* EnterFactory keeps the invariant. *)
LEMMA EnterFactoryInv ==
    ASSUME IInv, EnterFactory
    PROVE  IInv'
<1> USE BridgeAssumption DEF IInv, adapterVars
<1>1. TypeOK'
  BY DEF EnterFactory, TypeOK, Stages, ThrownIn
<1>2. CallbacksInv'
  BY DEF EnterFactory, CallbacksInv, Failing, CallbackThreads, CSharp,
     TypeOK, ThrownIn
<1>3. DeferredInv'
  BY DEF EnterFactory, DeferredInv, CallbacksInv, Failing, TypeOK, ThrownIn,
     FallbackAccepted
<1>4. PointersInv'
  BY DEF EnterFactory, PointersInv, TypeOK
<1>5. FailureSurfaces'
  BY DEF EnterFactory, FailureSurfaces, CSharp, DeferredInv, CallbacksInv,
     Failing, TypeOK, PointersInv
<1>6. UsableProblem'
  BY DEF EnterFactory, UsableProblem, ThrownIn, TypeOK, PointersInv
<1>7. NothingLeaks'
  BY DEF EnterFactory, NothingLeaks, TypeOK, PointersInv, DeferredInv
<1>8. OwnErrorText'
  BY DEF EnterFactory, OwnErrorText, PointersInv, TypeOK
<1> QED
  BY <1>1, <1>2, <1>3, <1>4, <1>5, <1>6, <1>7, <1>8

(* FactoryReturns keeps the invariant. *)
LEMMA FactoryReturnsInv ==
    ASSUME IInv, FactoryReturns
    PROVE  IInv'
<1> USE BridgeAssumption DEF IInv, adapterVars
<1>1. TypeOK'
  BY DEF FactoryReturns, SetLastError, CSharp, TypeOK, Stages, ThrownIn
<1>2. CallbacksInv'
  BY DEF FactoryReturns, SetLastError, CSharp, CallbacksInv, Failing,
     CallbackThreads, TypeOK, ThrownIn
<1>3. DeferredInv'
  BY DEF FactoryReturns, SetLastError, CSharp, DeferredInv, CallbacksInv,
     Failing, TypeOK, ThrownIn, FallbackAccepted
<1>4. PointersInv'
  BY DEF FactoryReturns, SetLastError, CSharp, PointersInv, TypeOK
<1>5. FailureSurfaces'
  BY DEF FactoryReturns, SetLastError, CSharp, FailureSurfaces, DeferredInv,
     CallbacksInv, Failing, TypeOK, PointersInv
<1>6. UsableProblem'
  BY DEF FactoryReturns, SetLastError, CSharp, UsableProblem, ThrownIn,
     TypeOK, PointersInv
<1>7. NothingLeaks'
  BY DEF FactoryReturns, SetLastError, CSharp, NothingLeaks, TypeOK,
     PointersInv, DeferredInv
<1>8. OwnErrorText'
  BY DEF FactoryReturns, SetLastError, CSharp, OwnErrorText, PointersInv,
     TypeOK
<1> QED
  BY <1>1, <1>2, <1>3, <1>4, <1>5, <1>6, <1>7, <1>8

(* ConstructionThrows keeps the invariant. *)
LEMMA ConstructionThrowsInv ==
    ASSUME IInv, ConstructionThrows
    PROVE  IInv'
<1> USE BridgeAssumption DEF IInv
<1>1. TypeOK'
  BY DEF ConstructionThrows, Rethrow, Deleted, TypeOK, Stages, ThrownIn
<1>2. CallbacksInv'
  BY DEF ConstructionThrows, Rethrow, Deleted, CallbacksInv, Failing,
     CallbackThreads, CSharp, TypeOK, ThrownIn
<1>3. DeferredInv'
  BY DEF ConstructionThrows, Rethrow, Deleted, DeferredInv, CallbacksInv,
     Failing, TypeOK, ThrownIn, FallbackAccepted
<1>4. PointersInv'
  BY DEF ConstructionThrows, Rethrow, Deleted, PointersInv, TypeOK
<1>5. FailureSurfaces'
  BY DEF ConstructionThrows, Rethrow, Deleted, FailureSurfaces, CSharp,
     DeferredInv, CallbacksInv, Failing, TypeOK, PointersInv
<1>6. UsableProblem'
  BY DEF ConstructionThrows, Rethrow, Deleted, UsableProblem, ThrownIn,
     TypeOK, PointersInv
<1>7. NothingLeaks'
  BY DEF ConstructionThrows, Rethrow, Deleted, NothingLeaks, TypeOK,
     PointersInv, DeferredInv
<1>8. OwnErrorText'
  BY DEF ConstructionThrows, Rethrow, Deleted, OwnErrorText, PointersInv,
     TypeOK
<1> QED
  BY <1>1, <1>2, <1>3, <1>4, <1>5, <1>6, <1>7, <1>8

(* ConstructionFails keeps the invariant. *)
LEMMA ConstructionFailsInv ==
    ASSUME IInv, ConstructionFails
    PROVE  IInv'
<1> USE BridgeAssumption DEF IInv
<1>1. TypeOK'
  BY DEF ConstructionFails, ThrowNative, TypeOK, Stages, ThrownIn
<1>2. CallbacksInv'
  BY DEF ConstructionFails, ThrowNative, CallbacksInv, Failing,
     CallbackThreads, CSharp, TypeOK, ThrownIn
<1>3. DeferredInv'
  BY DEF ConstructionFails, ThrowNative, DeferredInv, CallbacksInv, Failing,
     TypeOK, ThrownIn, FallbackAccepted
<1>4. PointersInv'
  BY DEF ConstructionFails, ThrowNative, PointersInv, TypeOK
<1>5. FailureSurfaces'
  BY DEF ConstructionFails, ThrowNative, FailureSurfaces, CSharp,
     DeferredInv, CallbacksInv, Failing, TypeOK, PointersInv
<1>6. UsableProblem'
  BY DEF ConstructionFails, ThrowNative, UsableProblem, ThrownIn, TypeOK,
     PointersInv
<1>7. NothingLeaks'
  BY DEF ConstructionFails, ThrowNative, NothingLeaks, TypeOK, PointersInv,
     DeferredInv
<1>8. OwnErrorText'
  BY DEF ConstructionFails, ThrowNative, OwnErrorText, PointersInv, TypeOK
<1> QED
  BY <1>1, <1>2, <1>3, <1>4, <1>5, <1>6, <1>7, <1>8

(* Constructed keeps the invariant. *)
LEMMA ConstructedInv ==
    ASSUME IInv, Constructed
    PROVE  IInv'
<1> USE BridgeAssumption DEF IInv, adapterVars
<1>0. \A e \in Failures : thrown[e] = "not"
  BY DEF Constructed, Accepted, DeferredInv, CallbacksInv, Failing, TypeOK
<1>1. TypeOK'
  BY DEF Constructed, Accepted, TypeOK, Stages, ThrownIn
<1>2. CallbacksInv'
  BY DEF Constructed, Accepted, CallbacksInv, Failing, CallbackThreads,
     CSharp, TypeOK, ThrownIn
<1>3. DeferredInv'
  BY DEF Constructed, Accepted, DeferredInv, CallbacksInv, Failing, TypeOK,
     ThrownIn, FallbackAccepted
<1>4. PointersInv'
  BY DEF Constructed, Accepted, PointersInv, TypeOK
<1>5. FailureSurfaces'
  BY DEF Constructed, Accepted, FailureSurfaces, CSharp, DeferredInv,
     CallbacksInv, Failing, TypeOK, PointersInv
<1>6. UsableProblem'
  BY <1>0 DEF Constructed, Accepted, UsableProblem, ThrownIn, TypeOK, PointersInv
<1>7. NothingLeaks'
  BY DEF Constructed, Accepted, NothingLeaks, TypeOK, PointersInv, DeferredInv
<1>8. OwnErrorText'
  BY DEF Constructed, Accepted, OwnErrorText, PointersInv, TypeOK
<1> QED
  BY <1>1, <1>2, <1>3, <1>4, <1>5, <1>6, <1>7, <1>8

(* OperationReturns keeps the invariant. *)
LEMMA OperationReturnsInv ==
    ASSUME IInv, OperationReturns
    PROVE  IInv'
<1> USE BridgeAssumption DEF IInv, adapterVars
<1>1. TypeOK'
  BY DEF OperationReturns, SetLastError, TypeOK, Stages, ThrownIn
<1>2. CallbacksInv'
  BY DEF OperationReturns, SetLastError, CallbacksInv, Failing,
     CallbackThreads, CSharp, TypeOK, ThrownIn
<1>3. DeferredInv'
  BY DEF OperationReturns, SetLastError, DeferredInv, CallbacksInv, Failing,
     TypeOK, ThrownIn, FallbackAccepted
<1>4. PointersInv'
  BY DEF OperationReturns, SetLastError, PointersInv, TypeOK
<1>5. FailureSurfaces'
  BY DEF OperationReturns, SetLastError, FailureSurfaces, CSharp,
     DeferredInv, CallbacksInv, Failing, TypeOK, PointersInv
<1>6. UsableProblem'
  BY DEF OperationReturns, SetLastError, UsableProblem, ThrownIn, TypeOK,
     PointersInv
<1>7. NothingLeaks'
  BY DEF OperationReturns, SetLastError, NothingLeaks, TypeOK, PointersInv,
     DeferredInv
<1>8. OwnErrorText'
  BY DEF OperationReturns, SetLastError, OwnErrorText, PointersInv, TypeOK
<1> QED
  BY <1>1, <1>2, <1>3, <1>4, <1>5, <1>6, <1>7, <1>8

(* OperationThrows keeps the invariant. *)
LEMMA OperationThrowsInv ==
    ASSUME IInv, OperationThrows
    PROVE  IInv'
<1> USE BridgeAssumption DEF IInv
<1>1. TypeOK'
  BY DEF OperationThrows, Rethrow, Deleted, TypeOK, Stages, ThrownIn
<1>2. CallbacksInv'
  BY DEF OperationThrows, Rethrow, Deleted, CallbacksInv, Failing,
     CallbackThreads, CSharp, TypeOK, ThrownIn
<1>3. DeferredInv'
  BY DEF OperationThrows, Rethrow, Deleted, DeferredInv, CallbacksInv,
     Failing, TypeOK, ThrownIn, FallbackAccepted
<1>4. PointersInv'
  BY DEF OperationThrows, Rethrow, Deleted, PointersInv, TypeOK
<1>5. FailureSurfaces'
  BY DEF OperationThrows, Rethrow, Deleted, FailureSurfaces, CSharp,
     DeferredInv, CallbacksInv, Failing, TypeOK, PointersInv
<1>6. UsableProblem'
  BY DEF OperationThrows, Rethrow, Deleted, UsableProblem, ThrownIn, TypeOK,
     PointersInv
<1>7. NothingLeaks'
  BY DEF OperationThrows, Rethrow, Deleted, NothingLeaks, TypeOK,
     PointersInv, DeferredInv
<1>8. OwnErrorText'
  BY DEF OperationThrows, Rethrow, Deleted, OwnErrorText, PointersInv, TypeOK
<1> QED
  BY <1>1, <1>2, <1>3, <1>4, <1>5, <1>6, <1>7, <1>8

(* OperationFails keeps the invariant. *)
LEMMA OperationFailsInv ==
    ASSUME IInv, OperationFails
    PROVE  IInv'
<1> USE BridgeAssumption DEF IInv
<1>1. TypeOK'
  BY DEF OperationFails, ThrowNative, NothingDeferred, TypeOK, Stages,
     ThrownIn
<1>2. CallbacksInv'
  BY DEF OperationFails, ThrowNative, NothingDeferred, CallbacksInv,
     Failing, CallbackThreads, CSharp, TypeOK, ThrownIn
<1>3. DeferredInv'
  BY DEF OperationFails, ThrowNative, NothingDeferred, DeferredInv,
     CallbacksInv, Failing, TypeOK, ThrownIn, FallbackAccepted
<1>4. PointersInv'
  BY DEF OperationFails, ThrowNative, NothingDeferred, PointersInv, TypeOK
<1>5. FailureSurfaces'
  BY DEF OperationFails, ThrowNative, NothingDeferred, FailureSurfaces,
     CSharp, DeferredInv, CallbacksInv, Failing, TypeOK, PointersInv
<1>6. UsableProblem'
  BY DEF OperationFails, ThrowNative, NothingDeferred, UsableProblem,
     ThrownIn, TypeOK, PointersInv
<1>7. NothingLeaks'
  BY DEF OperationFails, ThrowNative, NothingDeferred, NothingLeaks, TypeOK,
     PointersInv, DeferredInv
<1>8. OwnErrorText'
  BY DEF OperationFails, ThrowNative, NothingDeferred, OwnErrorText,
     PointersInv, TypeOK
<1> QED
  BY <1>1, <1>2, <1>3, <1>4, <1>5, <1>6, <1>7, <1>8

(* OperationSucceeds keeps the invariant. *)
LEMMA OperationSucceedsInv ==
    ASSUME IInv, OperationSucceeds
    PROVE  IInv'
<1> USE BridgeAssumption DEF IInv, adapterVars
<1>1. TypeOK'
  BY DEF OperationSucceeds, NothingDeferred, TypeOK, Stages, ThrownIn
<1>2. CallbacksInv'
  BY DEF OperationSucceeds, NothingDeferred, CallbacksInv, Failing,
     CallbackThreads, CSharp, TypeOK, ThrownIn
<1>3. DeferredInv'
  BY DEF OperationSucceeds, NothingDeferred, DeferredInv, CallbacksInv,
     Failing, TypeOK, ThrownIn, FallbackAccepted
<1>4. PointersInv'
  BY DEF OperationSucceeds, NothingDeferred, PointersInv, TypeOK
<1>5. FailureSurfaces'
  BY DEF OperationSucceeds, NothingDeferred, FailureSurfaces, CSharp,
     DeferredInv, CallbacksInv, Failing, TypeOK, PointersInv
<1>6. UsableProblem'
  BY DEF OperationSucceeds, NothingDeferred, UsableProblem, ThrownIn,
     TypeOK, PointersInv
<1>7. NothingLeaks'
  BY DEF OperationSucceeds, NothingDeferred, NothingLeaks, TypeOK,
     PointersInv, DeferredInv
<1>8. OwnErrorText'
  BY DEF OperationSucceeds, NothingDeferred, OwnErrorText, PointersInv, TypeOK
<1> QED
  BY <1>1, <1>2, <1>3, <1>4, <1>5, <1>6, <1>7, <1>8
-----------------------------------------------------------------------------
LEMMA StepInv == IInv /\ [Next]_vars => IInv'
<1> SUFFICES ASSUME IInv, [Next]_vars PROVE IInv'
  OBVIOUS
<1>1. ASSUME NEW t \in Threads, Callback(t) PROVE IInv'
  BY <1>1, EnterInv, SucceedsInv, ThrowsInv, ReadDeferredInv,
     AssignDeferredInv, CompareAndSetInv DEF Callback
<1>2. CASE UNCHANGED vars
  <2> USE <1>2 DEF IInv, vars, adapterVars
  <2>1. (TypeOK /\ PointersInv)'
    BY DEF TypeOK, PointersInv
  <2>2. CallbacksInv'
    BY DEF CallbacksInv, CallbackThreads, Failing, CSharp
  <2>3. DeferredInv'
    BY DEF DeferredInv, Failing
  <2>4. (FailureSurfaces /\ UsableProblem /\ NothingLeaks /\ OwnErrorText)'
    BY DEF FailureSurfaces, UsableProblem, NothingLeaks, OwnErrorText, CSharp,
           ThrownIn
  <2> QED
    BY <2>1, <2>2, <2>3, <2>4
<1> QED
  BY <1>1, <1>2, EnterFactoryInv, FactoryReturnsInv, ConstructionThrowsInv,
     ConstructionFailsInv, ConstructedInv, OperationReturnsInv,
     OperationThrowsInv, OperationFailsInv, OperationSucceedsInv DEF Next

(* The strengthened invariant holds of every reachable state.                 *)
THEOREM Invariance == Spec => []IInv
BY InitInv, StepInv, PTL DEF Spec

(* Every variable has its type, whatever the threads and failures.            *)
THEOREM TypeCorrect == Spec => []TypeOK
BY Invariance, PTL DEF IInv

(* A .NET call during which a callback failed ends with one of the callbacks'  *)
(* exceptions, however the threads that failed were interleaved.              *)
THEOREM FailureSurfacesHolds == Spec => []FailureSurfaces
BY Invariance, PTL DEF IInv

(* Dummy bounds and metadata never reach an operation or the caller.           *)
THEOREM UsableProblemHolds == Spec => []UsableProblem
BY Invariance, PTL DEF IInv

(* A call frees what it does not hand over, on each of its paths.              *)
THEOREM NothingLeaksHolds == Spec => []NothingLeaks
BY Invariance, PTL DEF IInv

(* A native error carries the message of the function that failed.            *)
THEOREM OwnErrorTextHolds == Spec => []OwnErrorText
BY Invariance, PTL DEF IInv
=============================================================================
