------------------------- MODULE CallbackRootsProofs -------------------------
(***************************************************************************)
(* Proofs about CallbackRoots, for any numbers of threads, objects, adapters, *)
(* addresses and copies.                                                    *)
(***************************************************************************)
EXTENDS CallbackRoots, TLAPS

Places == {"idle", "factory", "attach", "check", "release"}

RootsTyped ==
    /\ lang \in {"csharp", "java"}
    /\ held \subseteq Owners \cup Policies
    /\ step \in [RootThreads -> Places]
    /\ mine \in [RootThreads -> Adapters \cup {Null}]
    /\ ownerOf \in [Adapters -> Owners \cup {Null}]
    /\ handles \in [Owners -> SUBSET Adapters]
    /\ address \in [Adapters -> Addresses \cup {Null}]
    /\ copies \in [Callbacks -> Nat]
    /\ director \in [Callbacks -> {"none", "managed", "native", "deleted", "twice"}]

(* A thread has the adapter it works for to itself until it returns.            *)
Creating ==
    /\ \A t \in RootThreads :
          /\ step[t] = "idle" <=> mine[t] = Null
          /\ mine[t] # Null => copies[mine[t]] = 0 /\ director[mine[t]] # "none"
          /\ step[t] = "factory" => director[mine[t]] = "native" /\ address[mine[t]] = Null
          /\ step[t] \in {"check", "release"} /\ address[mine[t]] = Null =>
                 director[mine[t]] # "native"
          /\ step[t] = "release" => address[mine[t]] = Null
          /\ step[t] = "attach" => address[mine[t]] # Null
    /\ \A t, u \in RootThreads : t # u /\ mine[t] = mine[u] => mine[t] = Null

Known == \A a \in Adapters : director[a] # "none" => ownerOf[a] \in Owners

(* What .NET's table holds, once a creation has returned.                       *)
Handled ==
    lang = "csharp" =>
        \A a \in Adapters : InNative(a) /\ ~BeingCreated(a) => a \in handles[ownerOf[a]]

NotCollected ==
    /\ held \cap collected = {}
    /\ \A d \in Callbacks \cap collected : director[d] # "none"
    /\ \A a \in Adapters :
          InNative(a) \/ BeingCreated(a) => a \notin collected /\ ownerOf[a] \notin collected

RootsInv == RootsTyped /\ Creating /\ Known /\ DirectorsFreedOnce /\ Handled /\ NotCollected
-----------------------------------------------------------------------------
LEMMA RootsInitially == RootsInit => RootsInv
  BY RootsAssumption
  DEF RootsInit, RootsInv, RootsTyped, Creating, Known, DirectorsFreedOnce, Handled, NotCollected,
      InNative, BeingCreated, Callbacks, Places

LEMMA NewAdapterStep ==
  ASSUME RootsInv, NEW t \in RootThreads, NewAdapter(t)
  PROVE  RootsInv'
<1> USE RootsAssumption DEF RootsInv, RootsTyped, Callbacks, InNative, BeingCreated, NewAdapter
<1>1. RootsTyped'
  BY DEF Places
<1>2. Creating'
  BY DEF Creating, DirectorsFreedOnce
<1>3. Known'
  BY DEF Known
<1>4. DirectorsFreedOnce'
  BY DEF Creating, DirectorsFreedOnce
<1>5. Handled'
  BY DEF Creating, Handled
<1>6. NotCollected'
  BY DEF NotCollected
<1> QED
  BY <1>1, <1>2, <1>3, <1>4, <1>5, <1>6

LEMMA FactoryStep ==
  ASSUME RootsInv, NEW t \in RootThreads, Factory(t)
  PROVE  RootsInv'
<1> USE RootsAssumption DEF RootsInv, RootsTyped, Callbacks, InNative, BeingCreated, Factory, Delete
<1>1. RootsTyped'
  BY DEF Places
<1>2. Creating'
  BY DEF Creating
<1>3. Known'
  BY DEF Creating, Known
<1>4. DirectorsFreedOnce'
  BY DEF Creating, DirectorsFreedOnce
<1>5. Handled'
  BY DEF Handled
<1>6. NotCollected'
  BY DEF NotCollected
<1> QED
  BY <1>1, <1>2, <1>3, <1>4, <1>5, <1>6

LEMMA AttachStep ==
  ASSUME RootsInv, NEW t \in RootThreads, Attach(t)
  PROVE  RootsInv'
<1> USE RootsAssumption DEF RootsInv, RootsTyped, Callbacks, InNative, BeingCreated, Attach
<1>1. RootsTyped'
  BY DEF Places
<1>2. Creating'
  BY DEF Creating
<1>3. Known'
  BY DEF Known
<1>4. DirectorsFreedOnce'
  BY DEF DirectorsFreedOnce
<1>5. Handled'
  BY DEF Handled
<1>6. NotCollected'
  BY DEF NotCollected
<1> QED
  BY <1>1, <1>2, <1>3, <1>4, <1>5, <1>6

LEMMA NoPointerStep ==
  ASSUME RootsInv, NEW t \in RootThreads, NoPointer(t)
  PROVE  RootsInv'
<1> USE RootsAssumption DEF RootsInv, RootsTyped, Callbacks, InNative, BeingCreated, NoPointer, Return
<1>1. RootsTyped'
  BY DEF Places
<1>2. Creating'
  BY DEF Creating
<1>3. Known'
  BY DEF Known
<1>4. DirectorsFreedOnce'
  BY DEF Creating, DirectorsFreedOnce
<1>5. Handled'
  BY DEF Creating, Handled
<1>6. NotCollected'
  BY DEF NotCollected
<1> QED
  BY <1>1, <1>2, <1>3, <1>4, <1>5, <1>6

LEMMA ConstructionExceptedStep ==
  ASSUME RootsInv, NEW t \in RootThreads, ConstructionExcepted(t)
  PROVE  RootsInv'
<1> USE RootsAssumption DEF RootsInv, RootsTyped, Callbacks, InNative, BeingCreated, ConstructionExcepted, Return, Delete
<1>1. RootsTyped'
  BY DEF Places
<1>2. Creating'
  BY DEF Creating
<1>3. Known'
  BY DEF Creating, Known
<1>4. DirectorsFreedOnce'
  BY DEF Creating, DirectorsFreedOnce
<1>5. Handled'
  BY DEF Creating, Handled
<1>6. NotCollected'
  BY DEF NotCollected
<1> QED
  BY <1>1, <1>2, <1>3, <1>4, <1>5, <1>6

LEMMA ReleaseRootStep ==
  ASSUME RootsInv, NEW t \in RootThreads, ReleaseRoot(t)
  PROVE  RootsInv'
<1> USE RootsAssumption DEF RootsInv, RootsTyped, Callbacks, InNative, BeingCreated, ReleaseRoot, Return
<1>1. RootsTyped'
  BY DEF Places
<1>2. Creating'
  BY DEF Creating
<1>3. Known'
  BY DEF Known
<1>4. DirectorsFreedOnce'
  BY DEF Creating, DirectorsFreedOnce
<1>5. Handled'
  BY DEF Creating, Handled
<1>6. NotCollected'
  BY DEF NotCollected
<1> QED
  BY <1>1, <1>2, <1>3, <1>4, <1>5, <1>6

LEMMA CreatedStep ==
  ASSUME RootsInv, NEW t \in RootThreads, Created(t)
  PROVE  RootsInv'
<1> USE RootsAssumption DEF RootsInv, RootsTyped, Callbacks, InNative, BeingCreated, Created, Return
<1>1. RootsTyped'
  BY DEF Places, Creating
<1>2. Creating'
  BY DEF Creating
<1>3. Known'
  BY DEF Known
<1>4. DirectorsFreedOnce'
  BY DEF DirectorsFreedOnce
<1>5. Handled'
  BY DEF Creating, Known, DirectorsFreedOnce, Handled
<1>6. NotCollected'
  BY DEF NotCollected
<1> QED
  BY <1>1, <1>2, <1>3, <1>4, <1>5, <1>6

LEMMA CopyStep ==
  ASSUME RootsInv, NEW d \in Callbacks, Copy(d)
  PROVE  RootsInv'
<1> USE RootsAssumption DEF RootsInv, RootsTyped, Callbacks, InNative, BeingCreated, Copy
<1>1. RootsTyped'
  BY DEF Places
<1>2. Creating'
  BY DEF Creating
<1>3. Known'
  BY DEF Known
<1>4. DirectorsFreedOnce'
  BY DEF DirectorsFreedOnce
<1>5. Handled'
  BY DEF Handled
<1>6. NotCollected'
  BY DEF NotCollected
<1> QED
  BY <1>1, <1>2, <1>3, <1>4, <1>5, <1>6

LEMMA DestroyCopyStep ==
  ASSUME RootsInv, NEW d \in Callbacks, DestroyCopy(d)
  PROVE  RootsInv'
<1> USE RootsAssumption DEF RootsInv, RootsTyped, Callbacks, InNative, BeingCreated, DestroyCopy, Delete
<1>1. RootsTyped'
  BY DEF Places
<1>2. Creating'
  BY DEF Creating
<1>3. Known'
  BY DEF Creating, DirectorsFreedOnce, Known
<1>4. DirectorsFreedOnce'
  BY DEF DirectorsFreedOnce
<1>5. Handled'
  BY DEF Handled
<1>6. NotCollected'
  BY DEF NotCollected
<1> QED
  BY <1>1, <1>2, <1>3, <1>4, <1>5, <1>6

LEMMA DestroyProblemStep ==
  ASSUME RootsInv, NEW a \in Adapters, DestroyProblem(a)
  PROVE  RootsInv'
<1> USE RootsAssumption DEF RootsInv, RootsTyped, Callbacks, InNative, BeingCreated, DestroyProblem, Delete
<1>1. RootsTyped'
  BY DEF Places
<1>2. Creating'
  BY DEF Creating
<1>3. Known'
  BY DEF Creating, DirectorsFreedOnce, Known
<1>4. DirectorsFreedOnce'
  BY DEF DirectorsFreedOnce
<1>5. Handled'
  BY DEF Handled
<1>6. NotCollected'
  BY DEF NotCollected
<1> QED
  BY <1>1, <1>2, <1>3, <1>4, <1>5, <1>6

LEMMA WrapPolicyStep ==
  ASSUME RootsInv, NEW p \in Policies, WrapPolicy(p)
  PROVE  RootsInv'
<1> USE RootsAssumption DEF RootsInv, RootsTyped, Callbacks, InNative, BeingCreated, WrapPolicy
<1>1. RootsTyped'
  BY DEF Places
<1>2. Creating'
  BY DEF Creating
<1>3. Known'
  BY DEF Known
<1>4. DirectorsFreedOnce'
  BY DEF DirectorsFreedOnce
<1>5. Handled'
  BY DEF Handled
<1>6. NotCollected'
  BY DEF NotCollected
<1> QED
  BY <1>1, <1>2, <1>3, <1>4, <1>5, <1>6

LEMMA DisposePolicyStep ==
  ASSUME RootsInv, NEW p \in Policies, DisposePolicy(p)
  PROVE  RootsInv'
<1> USE RootsAssumption DEF RootsInv, RootsTyped, Callbacks, InNative, BeingCreated, DisposePolicy, Delete
<1>1. RootsTyped'
  BY DEF Places
<1>2. Creating'
  BY DEF Creating
<1>3. Known'
  BY DEF Known
<1>4. DirectorsFreedOnce'
  BY DEF DirectorsFreedOnce
<1>5. Handled'
  BY DEF Handled
<1>6. NotCollected'
  BY DEF NotCollected
<1> QED
  BY <1>1, <1>2, <1>3, <1>4, <1>5, <1>6

LEMMA ForgetStep ==
  ASSUME RootsInv, NEW x \in Owners \cup Callbacks, Forget(x)
  PROVE  RootsInv'
<1> USE RootsAssumption DEF RootsInv, RootsTyped, Callbacks, InNative, BeingCreated, Forget
<1>1. RootsTyped'
  BY DEF Places
<1>2. Creating'
  BY DEF Creating
<1>3. Known'
  BY DEF Known
<1>4. DirectorsFreedOnce'
  BY DEF DirectorsFreedOnce
<1>5. Handled'
  BY DEF Handled
<1>6. NotCollected'
  BY DEF NotCollected
<1> QED
  BY <1>1, <1>2, <1>3, <1>4, <1>5, <1>6

LEMMA CollectStep ==
  ASSUME RootsInv, NEW x \in Owners \cup Callbacks, Collect(x)
  PROVE  RootsInv'
<1> USE RootsAssumption DEF RootsInv, RootsTyped, Callbacks, InNative, BeingCreated, Collect, Delete, Reachable, Pinned, PinnedByDirector, PinnedByTable
<1>1. RootsTyped'
  BY DEF Places
<1>2. Creating'
  BY DEF Creating
<1>3. Known'
  BY DEF Known
<1>4. DirectorsFreedOnce'
  BY DEF DirectorsFreedOnce
<1>5. Handled'
  BY DEF Creating, Known, DirectorsFreedOnce, Handled
<1>6. NotCollected'
  BY DEF Creating, Known, DirectorsFreedOnce, Handled, NotCollected
<1> QED
  BY <1>1, <1>2, <1>3, <1>4, <1>5, <1>6

-----------------------------------------------------------------------------
(* The invariant of the roots holds in every state.                            *)
THEOREM RootsInvariant == RootsSpec => []RootsInv
<1>1. RootsInv /\ [RootsNext]_rootVars => RootsInv'
  <2> SUFFICES ASSUME RootsInv, [RootsNext]_rootVars PROVE RootsInv'
    OBVIOUS
  <2>1. CASE \E t \in RootThreads : Create(t)
    BY <2>1, NewAdapterStep, FactoryStep, AttachStep, NoPointerStep, ConstructionExceptedStep,
       ReleaseRootStep, CreatedStep DEF Create
  <2>2. CASE \E d \in Callbacks : Copy(d) \/ DestroyCopy(d)
    BY <2>2, CopyStep, DestroyCopyStep
  <2>3. CASE \E a \in Adapters : DestroyProblem(a)
    BY <2>3, DestroyProblemStep
  <2>4. CASE \E p \in Policies : WrapPolicy(p) \/ DisposePolicy(p)
    BY <2>4, WrapPolicyStep, DisposePolicyStep
  <2>5. CASE \E x \in Owners \cup Callbacks : Forget(x) \/ Collect(x)
    BY <2>5, ForgetStep, CollectStep
  <2>6. CASE UNCHANGED rootVars
    BY <2>6 DEF rootVars, RootsInv, RootsTyped, Creating, Known, DirectorsFreedOnce, Handled,
                NotCollected, InNative, BeingCreated
  <2> QED
    BY <2>1, <2>2, <2>3, <2>4, <2>5, <2>6 DEF RootsNext
<1> QED
  BY RootsInitially, <1>1, PTL DEF RootsSpec

(* Native code never calls an adapter, or through it a user's object, that the    *)
(* collector has taken, for any threads, objects and copies (NativeInterop).     *)
THEOREM AdaptersStayCallable == RootsSpec => []CallableAdapters
<1>1. RootsInv => CallableAdapters
  BY DEF RootsInv, NotCollected, CallableAdapters
<1> QED
  BY <1>1, RootsInvariant, PTL

(* Whoever owns a native director deletes it, once, when nobody needs it.        *)
THEOREM DirectorsAreFreedOnce == RootsSpec => []DirectorsFreedOnce
<1>1. RootsInv => DirectorsFreedOnce
  BY DEF RootsInv
<1> QED
  BY <1>1, RootsInvariant, PTL
-----------------------------------------------------------------------------
(* The program forgets a policy callback only when no native policy is left.    *)
KeepsPolicies == \A p \in Policies : Forget(p) => ~InNative(p)

PoliciesHeld == \A p \in Policies : InNative(p) => p \in held

LEMMA PoliciesHeldStep ==
    RootsInv /\ PoliciesHeld /\ [RootsNext]_rootVars /\ [KeepsPolicies]_rootVars => PoliciesHeld'
<1> SUFFICES ASSUME RootsInv, PoliciesHeld, [RootsNext]_rootVars, [KeepsPolicies]_rootVars,
                    NEW p \in Policies, InNative(p)'
             PROVE  p \in held'
  BY DEF PoliciesHeld
<1> USE RootsAssumption DEF Callbacks
<1>1. p \notin Adapters /\ copies \in [Callbacks -> Nat] /\ InNative(p) = (copies[p] > 0)
  BY DEF InNative, RootsInv, RootsTyped
<1>2. copies'[p] > 0
  BY <1>1 DEF InNative
<1>3. CASE copies'[p] = copies[p] /\ held' = held
  BY <1>1, <1>2, <1>3 DEF PoliciesHeld, InNative
<1>4. ASSUME NEW d \in Callbacks, Copy(d) \/ DestroyCopy(d) PROVE p \in held'
  <2>1. held' = held /\ copies[d] \in Nat
    BY <1>1, <1>4 DEF Copy, DestroyCopy
  <2>2. copies[p] > 0
    <3>1. CASE d # p
      BY <1>1, <1>2, <1>4, <3>1 DEF Copy, DestroyCopy
    <3>2. CASE d = p
      BY <1>1, <1>4, <3>2 DEF Copy, DestroyCopy, InNative
    <3>. QED  BY <3>1, <3>2
  <2>. QED  BY <1>1, <2>1, <2>2 DEF PoliciesHeld, InNative
<1>5. ASSUME NEW q \in Policies, WrapPolicy(q) PROVE p \in held'
  BY <1>1, <1>2, <1>5 DEF WrapPolicy, PoliciesHeld, InNative
<1>6. ASSUME NEW x \in Owners \cup Callbacks, Forget(x) PROVE p \in held'
  <2>1. copies'[p] = copies[p] /\ held' = held \ {x} /\ x \in held
    BY <1>6 DEF Forget
  <2>2. InNative(p)
    BY <1>1, <1>2, <2>1
  <2>3. ~(UNCHANGED rootVars)
    BY <2>1 DEF rootVars
  <2>4. x # p
    BY <1>6, <2>2, <2>3 DEF KeepsPolicies
  <2>. QED  BY <2>1, <2>2, <2>4 DEF PoliciesHeld
<1>7. CASE UNCHANGED rootVars
  BY <1>3, <1>7 DEF rootVars
<1>. QED
  BY <1>3, <1>4, <1>5, <1>6, <1>7
     DEF RootsNext, Create, NewAdapter, Factory, Attach, NoPointer, ConstructionExcepted,
         ReleaseRoot, Created, DestroyProblem, DisposePolicy, Collect

(* A policy callback needs what NativeInterop does for problems, or a program that *)
(* does it: kept as long as native code has the policy, it is never collected      *)
(* while it can be called (CallablePolicies), whatever is copied and disposed.     *)
THEOREM HeldPoliciesCallable ==
    RootsSpec /\ [][KeepsPolicies]_rootVars => []CallablePolicies
<1>1. RootsInit => PoliciesHeld
  BY RootsAssumption DEF RootsInit, PoliciesHeld, InNative, Callbacks
<1>2. RootsInv /\ PoliciesHeld => CallablePolicies
  BY DEF RootsInv, NotCollected, PoliciesHeld, CallablePolicies
<1>. QED  BY <1>1, <1>2, PoliciesHeldStep, RootsInvariant, PTL DEF RootsSpec
=============================================================================
