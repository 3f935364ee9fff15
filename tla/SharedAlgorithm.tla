--------------------------- MODULE SharedAlgorithm ----------------------------
(***************************************************************************)
(* Evolutions that run at once through one algorithm adapter. A copy of a    *)
(* managed algorithm shares its callback, so the islands, and the copied      *)
(* islands, that evolve with copies of it share the adapter's only deferred   *)
(* exception. Each evolution ends by consuming it and throwing what it got;   *)
(* set_seed() and set_verbosity() are called, and fail, in the same way.      *)
(* get_name() and get_extra_info() defer in Java, and nobody consumes there.  *)
(***************************************************************************)
CONSTANTS Bindings,    \* the bindings to model, of "csharp" and "java"
          Evolutions,  \* the threads that evolve
          Failures,    \* the exceptions callbacks can throw, each at most once
          NoFailure    \* no exception

ASSUME SharedAssumption ==
    /\ Bindings \subseteq {"csharp", "java"}
    /\ NoFailure \notin Failures

VARIABLES binding,
          deferred,    \* the adapter's deferred exception
          pc,          \* each thread's step
          caught,      \* the exception its callback threw
          captured,    \* the exception it took from the adapter
          thrown,      \* every exception thrown so far
          described,   \* those that get_name() or get_extra_info() threw
          reports      \* those thrown to the islands, by the thread that did

vars == <<binding, deferred, pc, caught, captured, thrown, described, reports>>

CSharp == binding = "csharp"
Idle == \A t \in Evolutions : pc[t] = "idle"

Init ==
    /\ binding \in Bindings
    /\ deferred = NoFailure
    /\ pc = [t \in Evolutions |-> "idle"]
    /\ caught = [t \in Evolutions |-> NoFailure]
    /\ captured = [t \in Evolutions |-> NoFailure]
    /\ thrown = {} /\ described = {}
    /\ reports = [t \in Evolutions |-> {}]

Goto(t, step) == pc' = [pc EXCEPT ![t] = step]
-----------------------------------------------------------------------------
Evolve(t) ==
    /\ pc[t] = "idle"
    /\ Goto(t, "evolving")
    /\ UNCHANGED <<binding, deferred, caught, captured, thrown, described, reports>>

Evolved(t) ==
    /\ pc[t] = "evolving"
    /\ Goto(t, "consume")
    /\ UNCHANGED <<binding, deferred, caught, captured, thrown, described, reports>>

(* The managed evolve() throws, or returns null; the adapter catches it.       *)
EvolveThrows(t) ==
    /\ pc[t] = "evolving"
    /\ \E e \in Failures \ thrown :
        /\ thrown' = thrown \cup {e}
        /\ caught' = [caught EXCEPT ![t] = e]
    /\ Goto(t, "caught")
    /\ UNCHANGED <<binding, deferred, captured, described, reports>>

(* .NET's `??=` reads the field, and assigns it in a second step.              *)
ReadDeferred(t) ==
    /\ CSharp
    /\ pc[t] = "caught"
    /\ Goto(t, IF deferred = NoFailure THEN "assign" ELSE "consume")
    /\ UNCHANGED <<binding, deferred, caught, captured, thrown, described, reports>>

AssignDeferred(t) ==
    /\ pc[t] = "assign"
    /\ deferred' = caught[t]
    /\ Goto(t, "consume")
    /\ UNCHANGED <<binding, caught, captured, thrown, described, reports>>

(* Mutant: an exception is dropped, not deferred, while another is handled.    *)
MutKeepFirst(e) == deferred

(* Java's compareAndSet.                                                      *)
KeepFirst(e) == IF deferred = NoFailure THEN e ELSE deferred

CompareAndSet(t) ==
    /\ ~CSharp
    /\ pc[t] = "caught"
    /\ deferred' = KeepFirst(caught[t])
    /\ Goto(t, "consume")
    /\ UNCHANGED <<binding, caught, captured, thrown, described, reports>>

(* A failure of get_name() or get_extra_info(), which .NET does not catch.      *)
DescriptionThrows(t) ==
    /\ ~CSharp
    /\ pc[t] = "idle"
    /\ \E e \in Failures \ thrown :
        /\ thrown' = thrown \cup {e}
        /\ described' = described \cup {e}
        /\ caught' = [caught EXCEPT ![t] = e]
    /\ Goto(t, "described")
    /\ UNCHANGED <<binding, deferred, captured, reports>>

(* It is deferred like the others, but native code has no throw_if_deferred.    *)
DeferDescription(t) ==
    /\ pc[t] = "described"
    /\ deferred' = KeepFirst(caught[t])
    /\ caught' = [caught EXCEPT ![t] = NoFailure]
    /\ Goto(t, "idle")
    /\ UNCHANGED <<binding, captured, thrown, described, reports>>
-----------------------------------------------------------------------------
(* Mutant: a consumed exception stays in the adapter.                         *)
MutCleared == deferred

(* What a consumed adapter is left with.                                      *)
Cleared == NoFailure

(* .NET's consume_deferred_exception: captured = field; field = null.           *)
ReadForConsume(t) ==
    /\ CSharp
    /\ pc[t] = "consume"
    /\ captured' = [captured EXCEPT ![t] = deferred]
    /\ Goto(t, "clear")
    /\ UNCHANGED <<binding, deferred, caught, thrown, described, reports>>

ClearForConsume(t) ==
    /\ pc[t] = "clear"
    /\ deferred' = Cleared
    /\ Goto(t, "throw_if")
    /\ UNCHANGED <<binding, caught, captured, thrown, described, reports>>

(* Mutant: consuming in two steps, as .NET does.                              *)
MutGetAndSet(t) ==
    /\ ~CSharp
    /\ pc[t] = "consume"
    /\ captured' = [captured EXCEPT ![t] = deferred]
    /\ Goto(t, "clear")
    /\ UNCHANGED <<binding, deferred, caught, thrown, described, reports>>

(* Java's getAndSet(null).                                                    *)
GetAndSet(t) ==
    /\ ~CSharp
    /\ pc[t] = "consume"
    /\ captured' = [captured EXCEPT ![t] = deferred]
    /\ deferred' = Cleared
    /\ Goto(t, "throw_if")
    /\ UNCHANGED <<binding, caught, thrown, described, reports>>

(* What throw_if_deferred throws: nothing for an empty message.               *)
Reported(t) == {captured[t]} \ {NoFailure}

(* The native throw_if_deferred, and the end of this evolution.                *)
ThrowIfDeferred(t) ==
    /\ pc[t] = "throw_if"
    /\ reports' = [reports EXCEPT ![t] = @ \cup Reported(t)]
    /\ caught' = [caught EXCEPT ![t] = NoFailure]
    /\ captured' = [captured EXCEPT ![t] = NoFailure]
    /\ Goto(t, "idle")
    /\ UNCHANGED <<binding, deferred, thrown, described>>

Step(t) == \/ Evolve(t) \/ Evolved(t) \/ EvolveThrows(t)
           \/ ReadDeferred(t) \/ AssignDeferred(t) \/ CompareAndSet(t)
           \/ DescriptionThrows(t) \/ DeferDescription(t)
           \/ ReadForConsume(t) \/ ClearForConsume(t) \/ GetAndSet(t)
           \/ ThrowIfDeferred(t)

Next == \E t \in Evolutions : Step(t)

Spec == Init /\ [][Next]_vars
-----------------------------------------------------------------------------
Steps == {"idle", "evolving", "caught", "described", "assign", "consume", "clear",
          "throw_if"}

(* Every variable has its type.                                              *)
TypeOK ==
    /\ binding \in Bindings
    /\ deferred \in Failures \cup {NoFailure}
    /\ pc \in [Evolutions -> Steps]
    /\ caught \in [Evolutions -> Failures \cup {NoFailure}]
    /\ captured \in [Evolutions -> Failures \cup {NoFailure}]
    /\ thrown \subseteq Failures
    /\ described \subseteq thrown
    /\ reports \in [Evolutions -> SUBSET Failures]

(* What evolutions may leave behind for one that starts after all of them have  *)
(* ended is, in .NET, nothing; in Java, only what get_name() or                *)
(* get_extra_info() threw.                                                    *)
NothingStale == Idle => deferred \in described \cup {NoFailure}

(* With Java's atomic adapter, an exception is thrown to one island only.       *)
JavaReportsOnce ==
    ~CSharp => \A t, u \in Evolutions : t # u => reports[t] \cap reports[u] = {}

(* Some evolution failed, and all have ended.                                  *)
FailedRound == Idle /\ thrown \ described # {}

(* With Java's atomic adapter failures may shadow one another, but after a     *)
(* round in which some evolution failed at least one island was told of one.   *)
JavaFailureReported ==
    ~CSharp /\ FailedRound => \E t \in Evolutions : reports[t] # {}

(* "Return the current deferred error and clear it": the same of both adapters. *)
FailureReported == FailedRound => \E t \in Evolutions : reports[t] # {}
=============================================================================
