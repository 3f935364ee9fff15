---------------------------- MODULE CallbackRoots -----------------------------
(***************************************************************************)
(* What keeps a managed callback alive while native code may call it.  The   *)
(* native director behind it belongs to native objects that share it; the    *)
(* managed object is the collector's.  .NET pins the adapter of a problem or  *)
(* an algorithm with a strong handle in a table keyed by the user's object;   *)
(* Java makes the director hold a reference, and has a table keyed by the     *)
(* native address besides; .NET's migration policies are the user's own       *)
(* callbacks.  The collector and the allocator are the environment.          *)
(***************************************************************************)
EXTENDS Integers

CONSTANTS RootBindings,  \* the bindings to model, of "csharp" and "java"
          RootThreads,   \* the threads that create native problems and algorithms
          Owners,        \* the user's problems and algorithms
          Policies,      \* the user's .NET policy callbacks
          Adapters,      \* the adapters that can be created
          Addresses,     \* of native problems
          Null,
          MaxCopies      \* bound: native copies that share a director

Callbacks == Adapters \cup Policies

ASSUME RootsAssumption ==
    /\ RootBindings \subseteq {"csharp", "java"}
    /\ MaxCopies \in Nat \ {0}
    /\ Null \notin Owners \cup Callbacks \cup Addresses
    /\ Owners \cap Callbacks = {} /\ Adapters \cap Policies = {}

VARIABLES lang,
          held,       \* the user's objects the program still refers to
          collected,  \* the managed objects that are gone
          step,       \* each thread's place in createProblemPointer
          mine,       \* the adapter it is creating a native object for
          excepted,   \* a callback of the construction threw
          freed,      \* Java: the address a thread has just deleted
          ownerOf,    \* the object an adapter forwards to
          handles,    \* .NET: the bucket of each owner
          roots,      \* Java: problemRoots, algorithmRoots
          address,    \* where the native problem of an adapter is
          copies,     \* the other native objects that share a director
          director    \* who deletes it: its managed object, or native code

rootVars == <<lang, held, collected, step, mine, excepted, freed, ownerOf, handles, roots,
              address, copies, director>>

RootsInit ==
    /\ lang \in RootBindings
    /\ held = IF lang = "csharp" THEN Owners \cup Policies ELSE Owners
    /\ collected = {}
    /\ step = [t \in RootThreads |-> "idle"]
    /\ mine = [t \in RootThreads |-> Null]
    /\ excepted = [t \in RootThreads |-> FALSE]
    /\ freed = [t \in RootThreads |-> Null]
    /\ ownerOf = [a \in Adapters |-> Null]
    /\ handles = [o \in Owners |-> {}]
    /\ roots = [x \in Addresses |-> Null]
    /\ address = [a \in Adapters |-> Null]
    /\ copies = [d \in Callbacks |-> 0]
    /\ director = [d \in Callbacks |->
                      IF d \in Policies /\ lang = "csharp" THEN "managed" ELSE "none"]

Delete(d) == director' = [director EXCEPT ![d] = IF @ \in {"managed", "native"}
                                                   THEN "deleted" ELSE "twice"]

Return(t) == /\ step' = [step EXCEPT ![t] = "idle"]
             /\ mine' = [mine EXCEPT ![t] = Null]
             /\ excepted' = [excepted EXCEPT ![t] = FALSE]
             /\ freed' = [freed EXCEPT ![t] = Null]
-----------------------------------------------------------------------------
(* CreateProblemPointer and CreateAlgorithmPointer (in .NET nothing is deferred *)
(* while an algorithm is made, in Java a failed get_name()).                   *)

(* The adapter's ownership is released before native code has it.             *)
NewAdapter(t) ==
    /\ step[t] = "idle"
    /\ \E o \in held \cap Owners, a \in Adapters :
          /\ director[a] = "none"
          /\ director' = [director EXCEPT ![a] = "native"]
          /\ ownerOf' = [ownerOf EXCEPT ![a] = o]
          /\ mine' = [mine EXCEPT ![t] = a]
    /\ step' = [step EXCEPT ![t] = "factory"]
    /\ UNCHANGED <<lang, held, collected, excepted, freed, handles, roots, address, copies>>

(* A native object at an address nothing occupies, or null: the shared_ptr     *)
(* has then deleted the director.  An exception is deferred in either case.    *)
Factory(t) ==
    /\ step[t] = "factory"
    /\ excepted' \in {[excepted EXCEPT ![t] = e] : e \in BOOLEAN}
    /\ \/ /\ \E x \in Addresses :
                /\ \A a \in Adapters : address[a] # x
                /\ address' = [address EXCEPT ![mine[t]] = x]
          /\ step' = [step EXCEPT ![t] = IF lang = "java" THEN "attach" ELSE "check"]
          /\ UNCHANGED director
       \/ /\ Delete(mine[t])
          /\ step' = [step EXCEPT ![t] = "check"]
          /\ UNCHANGED address
    /\ UNCHANGED <<lang, held, collected, mine, freed, ownerOf, handles, roots, copies>>

(* Java attaches the root before it looks for a deferred exception.           *)
Attach(t) ==
    /\ step[t] = "attach"
    /\ roots' = [roots EXCEPT ![address[mine[t]]] = mine[t]]
    /\ step' = [step EXCEPT ![t] = "check"]
    /\ UNCHANGED <<lang, held, collected, mine, excepted, freed, ownerOf, handles, address,
                   copies, director>>

NoPointer(t) ==
    /\ step[t] = "check" /\ address[mine[t]] = Null
    /\ Return(t)
    /\ UNCHANGED <<lang, held, collected, ownerOf, handles, roots, address, copies, director>>

ConstructionExcepted(t) ==
    /\ step[t] = "check" /\ address[mine[t]] # Null /\ excepted[t]
    /\ address' = [address EXCEPT ![mine[t]] = Null]
    /\ Delete(mine[t])
    /\ IF lang = "java"
         THEN /\ freed' = [freed EXCEPT ![t] = address[mine[t]]]
              /\ step' = [step EXCEPT ![t] = "release"]
              /\ UNCHANGED <<mine, excepted>>
         ELSE Return(t)
    /\ UNCHANGED <<lang, held, collected, ownerOf, handles, roots, copies>>

(* Java removes the entry of an address it has already given back.            *)
ReleaseRoot(t) ==
    /\ step[t] = "release"
    /\ roots' = [roots EXCEPT ![freed[t]] = Null]
    /\ Return(t)
    /\ UNCHANGED <<lang, held, collected, ownerOf, handles, address, copies, director>>

(* AttachCallbackRoot: the bucket gets a strong handle.                       *)
Created(t) ==
    /\ step[t] = "check" /\ address[mine[t]] # Null /\ ~excepted[t]
    /\ IF lang = "csharp"
         THEN handles' = [handles EXCEPT ![ownerOf[mine[t]]] = @ \cup {mine[t]}]
         ELSE UNCHANGED handles
    /\ Return(t)
    /\ UNCHANGED <<lang, held, collected, ownerOf, roots, address, copies, director>>
-----------------------------------------------------------------------------
(* The program.                                                              *)

InNative(d) == copies[d] > 0 \/ (d \in Adapters /\ address[d] # Null)
BeingCreated(d) == \E t \in RootThreads : mine[t] = d

(* A population, an island, a copy of one: whatever shares the director.       *)
Copy(d) ==
    /\ InNative(d) /\ ~BeingCreated(d)
    /\ copies[d] < MaxCopies
    /\ copies' = [copies EXCEPT ![d] = @ + 1]
    /\ UNCHANGED <<lang, held, collected, step, mine, excepted, freed, ownerOf, handles, roots,
                   address, director>>

DestroyCopy(d) ==
    /\ copies[d] > 0
    /\ copies' = [copies EXCEPT ![d] = @ - 1]
    /\ IF copies[d] = 1 /\ (d \in Adapters => address[d] = Null)
         THEN Delete(d) ELSE UNCHANGED director
    /\ UNCHANGED <<lang, held, collected, step, mine, excepted, freed, ownerOf, handles, roots,
                   address>>

(* The wrapper is disposed or closed: no table is told.                       *)
DestroyProblem(a) ==
    /\ address[a] # Null /\ ~BeingCreated(a)
    /\ address' = [address EXCEPT ![a] = Null]
    /\ IF copies[a] = 0 THEN Delete(a) ELSE UNCHANGED director
    /\ UNCHANGED <<lang, held, collected, step, mine, excepted, freed, ownerOf, handles, roots,
                   copies>>

(* Mutant: the callback still owns the director it has handed over.           *)
MutWrapPolicy(p) ==
    /\ p \in held /\ director[p] = "managed"
    /\ copies' = [copies EXCEPT ![p] = 1]
    /\ UNCHANGED <<lang, held, collected, step, mine, excepted, freed, ownerOf, handles, roots,
                   address, director>>

(* new r_policy(callback), new s_policy(callback): one that was disposed, or    *)
(* is already native code's, is refused.  The wrapper is the first copy.       *)
WrapPolicy(p) ==
    /\ p \in held /\ director[p] = "managed"
    /\ director' = [director EXCEPT ![p] = "native"]
    /\ copies' = [copies EXCEPT ![p] = 1]
    /\ UNCHANGED <<lang, held, collected, step, mine, excepted, freed, ownerOf, handles, roots,
                   address>>

(* Dispose() of a callback: nothing to do once the ownership is transferred.   *)
DisposePolicy(p) ==
    /\ p \in held /\ director[p] = "managed"
    /\ Delete(p)
    /\ UNCHANGED <<lang, held, collected, step, mine, excepted, freed, ownerOf, handles, roots,
                   address, copies>>

Forget(x) ==
    /\ x \in held
    /\ held' = held \ {x}
    /\ UNCHANGED <<lang, collected, step, mine, excepted, freed, ownerOf, handles, roots,
                   address, copies, director>>
-----------------------------------------------------------------------------
(* The collector.                                                            *)

(* Mutant: swigReleaseOwnership() is not called; the table has to do.          *)
MutPinnedByDirector == {}

(* After swigReleaseOwnership() Java's native director refers to its adapter;   *)
(* .NET's has function pointers into it, which keep nothing alive.            *)
PinnedByDirector == IF lang = "java" THEN {a \in Adapters : director[a] = "native"} ELSE {}

PinnedByTable == IF lang = "csharp" THEN UNION {handles[o] : o \in Owners}
                 ELSE {roots[x] : x \in Addresses} \ {Null}

Pinned == PinnedByDirector \cup PinnedByTable \cup ({mine[t] : t \in RootThreads} \ {Null})
Reachable == held \cup Pinned \cup {ownerOf[a] : a \in Pinned}

(* The finalizers: a policy callback deletes a director it still owns, and an    *)
(* owner's bucket frees its handles.                                          *)
Collect(x) ==
    /\ x \notin Reachable \cup collected
    /\ x \in Callbacks => director[x] # "none"
    /\ collected' = collected \cup {x}
    /\ IF x \in Policies /\ director[x] = "managed" THEN Delete(x) ELSE UNCHANGED director
    /\ handles' = [o \in Owners |-> IF o = x THEN {} ELSE handles[o]]
    /\ UNCHANGED <<lang, held, step, mine, excepted, freed, ownerOf, roots, address, copies>>

Create(t) == \/ NewAdapter(t) \/ Factory(t) \/ Attach(t)
             \/ NoPointer(t) \/ ConstructionExcepted(t) \/ ReleaseRoot(t) \/ Created(t)

RootsNext == \/ \E t \in RootThreads : Create(t)
             \/ \E d \in Callbacks : Copy(d) \/ DestroyCopy(d)
             \/ \E a \in Adapters : DestroyProblem(a)
             \/ \E p \in Policies : WrapPolicy(p) \/ DisposePolicy(p)
             \/ \E x \in Owners \cup Callbacks : Forget(x) \/ Collect(x)

RootsSpec == RootsInit /\ [][RootsNext]_rootVars
-----------------------------------------------------------------------------
(* Properties *)

(* As long as native code has an object that calls back through the adapter of  *)
(* a problem or an algorithm, the collector has taken neither the adapter nor    *)
(* the user's object: however the program forgets, disposes and copies, and      *)
(* although Java's table loses entries to addresses that are used again.         *)
CallableAdapters ==
    \A a \in Adapters :
        InNative(a) => a \notin collected /\ ownerOf[a] \notin collected

(* A native director is deleted once: when the last native object that shares it  *)
(* is gone, or with its managed object if it was never handed over; neither a     *)
(* failed construction nor a finalizer deletes one that is in use, or forgets one. *)
DirectorsFreedOnce ==
    \A d \in Callbacks :
        /\ director[d] # "twice"
        /\ InNative(d) => director[d] = "native"
        /\ director[d] = "native" => InNative(d) \/ BeingCreated(d)

(* "Ownership of basePolicy is transferred to the native side": what native code   *)
(* owns, and calls, is not collected while it does.                              *)
CallablePolicies == \A p \in Policies : InNative(p) => p \notin collected
=============================================================================
