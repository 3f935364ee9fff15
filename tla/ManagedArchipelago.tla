------------------------- MODULE ManagedArchipelago --------------------------
(***************************************************************************)
(* An archipelago that holds managed problems: insertion of islands, their   *)
(* asynchronous evolution, copies of islands, topologies, and disposal.      *)
(*                                                                          *)
(* A problem that declares ThreadSafety.None and is cloneable is cloned for  *)
(* its island; the clone is wrapped so that it reports Basic, and the        *)
(* archipelago keeps it until it is disposed.  Everything native that holds  *)
(* the problem shares one callback to that clone (managed_problem copies a   *)
(* shared_ptr), so an instance here is what a callback ends in: a clone, or  *)
(* the caller's own problem.                                                 *)
(*                                                                          *)
(* The caller is one thread.  pagmo gives each island, and each copy of an   *)
(* island, a queue of evolutions that one thread of its own works off.       *)
(***************************************************************************)
EXTENDS Naturals

CONSTANTS Binding,     \* "csharp" or "java"
          MaxIslands,  \* bound: islands pushed
          MaxPending,  \* bound: evolutions queued on one island
          MaxVertices, \* bound: vertices of a topology the caller brings
          Clones,      \* bound: the clones the caller's problems can make
          Copies,      \* bound: island copies the caller holds
          Problems,    \* the caller's problems
          Safety,      \* their get_thread_safety()
          CloneResults,\* what their Clone() may return; {} if not cloneable
          Caller, Helper,  \* threads that evaluate an initial population
          None         \* no instance

Islands == 1 .. MaxIslands
Runners == Islands \cup Copies           \* threads that evolve
Pushers == {Caller, Helper}              \* threads that fill a new population
Threads == Runners \cup Pushers
Instances == Clones \cup Problems

ASSUME ArchipelagoAssumption ==
    /\ Binding \in {"csharp", "java"}
    /\ MaxIslands \in Nat /\ MaxPending \in Nat /\ MaxVertices \in Nat
    /\ Safety \in [Problems -> {"None", "Basic"}]
    /\ CloneResults \in [Problems -> SUBSET {"fresh", "null", "same"}]
    /\ Clones \cap Problems = {}
    /\ None \notin Instances
    /\ Copies \cap Islands = {} /\ Pushers \cap Runners = {}
    /\ Caller # Helper

VARIABLES stage,       \* what the caller is doing with the archipelago
          pushing,     \* the instance of the island being constructed
          parallel,    \* its population is filled by a parallel evaluator
          size,        \* islands in the archipelago
          instance,    \* the instance each island or copy evolves on
          pending,     \* evolutions queued or running, per island or copy
          busy,        \* the instance whose callbacks a thread is inside
          errors,      \* exceptions the islands have stored for wait_check
          vertices,    \* vertices of a connected topology
          connected,   \* the topology is not `unconnected`
          made,        \* clones made so far
          rooted,      \* _managedProblemCloneRoots
          toClose,     \* those the running OnManagedDispose has still to close
          disposed,    \* instances that have been disposed
          threw        \* disposing a clone threw

evolution == <<pending, busy, errors>>
islands == <<size, instance>>
topology == <<vertices, connected>>
cleanup == <<toClose, disposed, threw>>
vars == <<stage, pushing, parallel, islands, evolution, topology, made, rooted, cleanup>>

Unsafe(p) == Safety[p] = "None"
Present == {i \in Islands : i <= size}
CallerFree == stage \in {"open", "closed"}

Init ==
    /\ stage = "open"
    /\ pushing = None /\ parallel = FALSE
    /\ size = 0
    /\ instance = [r \in Runners |-> None]
    /\ pending = [r \in Runners |-> 0]
    /\ busy = [t \in Threads |-> None]
    /\ errors = [i \in Islands |-> {}]
    /\ vertices = 0 /\ connected = FALSE
    /\ made = {} /\ rooted = {} /\ toClose = {} /\ disposed = {}
    /\ threw = FALSE
-----------------------------------------------------------------------------
(* push_back_island                                                          *)

\* Mutant: the clone is not compared with the problem it was made from.
MutPushTargets(p) ==
    IF Unsafe(p)
      THEN (IF "fresh" \in CloneResults[p] THEN Clones \ made ELSE {})
             \cup (IF "same" \in CloneResults[p] THEN {p} ELSE {})
      ELSE {p}

\* Mutant: a clone made for one island is kept for the next.
MutCachedTargets(p) ==
    IF Unsafe(p)
      THEN IF "fresh" \in CloneResults[p] THEN IF made = {} THEN Clones ELSE made ELSE {}
      ELSE {p}

(* The instances an island for p may get.  A clone that is null or `this`, and *)
(* an unsafe problem without clones, end the call with an exception before     *)
(* anything has changed.                                                       *)
PushTargets(p) ==
    IF Unsafe(p)
      THEN IF "fresh" \in CloneResults[p] THEN Clones \ made ELSE {}
      ELSE {p}

(* The clone is rooted before the native island exists.                        *)
PushBack(p) ==
    /\ stage = "open" /\ size < MaxIslands
    /\ p \notin disposed
    /\ \E target \in PushTargets(p) :
          /\ pushing' = target
          /\ made' = made \cup ({target} \cap Clones)
          /\ rooted' = rooted \cup ({target} \cap Clones)
    /\ parallel' \in BOOLEAN
    /\ stage' = "pushing"
    /\ UNCHANGED <<islands, evolution, topology, cleanup>>

(* The island's population is filled on the calling thread, or by thread_bfe   *)
(* or default_bfe on several: the adapter reports Basic.                       *)
EvaluateInitial(t) ==
    /\ stage = "pushing"
    /\ t = Helper => parallel
    /\ busy[t] = None
    /\ busy' = [busy EXCEPT ![t] = pushing]
    /\ UNCHANGED <<stage, pushing, parallel, islands, pending, errors, topology,
                   made, rooted, cleanup>>

InitialEvaluated(t) ==
    /\ busy[t] # None
    /\ busy' = [busy EXCEPT ![t] = None]
    /\ UNCHANGED <<stage, pushing, parallel, islands, pending, errors, topology,
                   made, rooted, cleanup>>

PushersIdle == \A t \in Pushers : busy[t] = None

(* archipelago::push_back: the island, its migrants and a topology vertex.     *)
PushReturns ==
    /\ stage = "pushing" /\ PushersIdle
    /\ size' = size + 1
    /\ instance' = [instance EXCEPT ![size + 1] = pushing]
    /\ vertices' = IF connected THEN vertices + 1 ELSE vertices
    /\ stage' = "open" /\ pushing' = None /\ parallel' = FALSE
    /\ UNCHANGED <<evolution, connected, made, rooted, cleanup>>

\* Mutant: a failed insertion takes the clone off the list again.
MutPushThrows ==
    /\ stage = "pushing" /\ PushersIdle
    /\ stage' = "open" /\ pushing' = None /\ parallel' = FALSE
    /\ rooted' = rooted \ {pushing}
    /\ UNCHANGED <<islands, evolution, topology, made, cleanup>>

(* A callback or the construction failed: the clone stays on the list.         *)
PushThrows ==
    /\ stage = "pushing" /\ PushersIdle
    /\ stage' = "open" /\ pushing' = None /\ parallel' = FALSE
    /\ UNCHANGED <<islands, evolution, topology, made, rooted, cleanup>>
-----------------------------------------------------------------------------
(* set_topology_*                                                            *)

\* Mutant: off by one, as if the next island were already there.
MutTopologyFits(v) == v <= size + 1

\* require_topology_fits
TopologyFits(v) == v <= size

SetTopology ==
    /\ stage = "open"
    /\ \E v \in 0 .. MaxVertices : TopologyFits(v) /\ vertices' = v
    /\ connected' = TRUE
    /\ UNCHANGED <<stage, pushing, parallel, islands, evolution, made, rooted, cleanup>>

SetUnconnected ==
    /\ stage = "open"
    /\ vertices' = 0 /\ connected' = FALSE
    /\ UNCHANGED <<stage, pushing, parallel, islands, evolution, made, rooted, cleanup>>
-----------------------------------------------------------------------------
(* Evolution                                                                 *)

\* Mutant: one evolution per slot, not per island.
MutEvolve ==
    /\ stage = "open"
    /\ \A i \in Islands : pending[i] < MaxPending
    /\ pending' = [r \in Runners |-> IF r \in Islands THEN pending[r] + 1 ELSE pending[r]]
    /\ UNCHANGED <<stage, pushing, parallel, islands, busy, errors, topology, made,
                   rooted, cleanup>>

Evolve ==
    /\ stage = "open"
    /\ \A i \in Present : pending[i] < MaxPending
    /\ pending' = [r \in Runners |-> IF r \in Present THEN pending[r] + 1 ELSE pending[r]]
    /\ UNCHANGED <<stage, pushing, parallel, islands, busy, errors, topology, made,
                   rooted, cleanup>>

(* get_island_copy: the copy's problem shares the callback.                    *)
GetIslandCopy(i, c) ==
    /\ stage = "open"
    /\ i \in Present /\ instance[c] = None
    /\ instance' = [instance EXCEPT ![c] = instance[i]]
    /\ UNCHANGED <<stage, pushing, parallel, size, evolution, topology, made, rooted, cleanup>>

(* island.evolve on a copy, which the archipelago does not know of.            *)
EvolveCopy(c) ==
    /\ CallerFree
    /\ instance[c] # None /\ pending[c] < MaxPending
    /\ pending' = [pending EXCEPT ![c] = @ + 1]
    /\ UNCHANGED <<stage, pushing, parallel, islands, busy, errors, topology, made,
                   rooted, cleanup>>

(* Disposing a copy waits for its evolutions.                                  *)
DisposeCopy(c) ==
    /\ CallerFree
    /\ instance[c] # None /\ pending[c] = 0
    /\ instance' = [instance EXCEPT ![c] = None]
    /\ UNCHANGED <<stage, pushing, parallel, size, evolution, topology, made, rooted, cleanup>>

(* An island asks for its connections and their migrants before it evolves:    *)
(* the topology must have a vertex for it, and no neighbour may lie beyond the *)
(* migrants database, which has one entry per island.                          *)
MigrationErrors(r) ==
    IF r \in Islands /\ connected
      THEN {e \in {"vertex", "migrants"} : \/ e = "vertex" /\ r > vertices
                                           \/ e = "migrants" /\ r <= vertices /\ vertices > size}
      ELSE {}

\* Mutant: an archipelago that is being deleted starts no more queued evolutions.
MutRunnable(r) == stage # "deleting" /\ pending[r] > 0 /\ busy[r] = None

Runnable(r) == pending[r] > 0 /\ busy[r] = None

StartEvolution(r) ==
    /\ Runnable(r)
    /\ "vertex" \notin MigrationErrors(r)
    /\ busy' = [busy EXCEPT ![r] = instance[r]]
    /\ UNCHANGED <<stage, pushing, parallel, islands, pending, errors, topology, made,
                   rooted, cleanup>>

MigrationFails(r) ==
    /\ Runnable(r)
    /\ \E e \in MigrationErrors(r) : errors' = [errors EXCEPT ![r] = @ \cup {e}]
    /\ pending' = [pending EXCEPT ![r] = @ - 1]
    /\ UNCHANGED <<stage, pushing, parallel, islands, busy, topology, made, rooted, cleanup>>

(* The evolution ends, or a callback failed: the exception is stored.          *)
EndEvolution(r) ==
    /\ busy[r] # None
    /\ busy' = [busy EXCEPT ![r] = None]
    /\ pending' = [pending EXCEPT ![r] = @ - 1]
    /\ \/ UNCHANGED errors
       \/ r \in Islands /\ errors' = [errors EXCEPT ![r] = @ \cup {"callback"}]
    /\ UNCHANGED <<stage, pushing, parallel, islands, topology, made, rooted, cleanup>>

Quiet == \A i \in Present : pending[i] = 0

(* wait_check: rethrows the first stored exception and forgets the rest.       *)
WaitCheck ==
    /\ stage = "open" /\ Quiet
    /\ errors' = [i \in Islands |-> {}]
    /\ UNCHANGED <<stage, pushing, parallel, islands, pending, busy, topology, made,
                   rooted, cleanup>>
-----------------------------------------------------------------------------
(* Disposal                                                                  *)

(* Dispose()/close() enters the native destructor.                             *)
Dispose ==
    /\ stage = "open"
    /\ stage' = "deleting"
    /\ UNCHANGED <<pushing, parallel, islands, evolution, topology, made, rooted, cleanup>>

\* Mutant: the managed hook runs before the native archipelago is deleted.
MutNativeDeleted ==
    /\ stage = "deleting"
    /\ stage' = "closing"
    /\ toClose' = rooted
    /\ UNCHANGED <<pushing, parallel, islands, evolution, topology, made, rooted, disposed, threw>>

(* The destructor has waited for every queued evolution; then the managed hook *)
(* disposes the clones.                                                        *)
NativeDeleted ==
    /\ stage = "deleting" /\ Quiet
    /\ stage' = "closing"
    /\ toClose' = rooted
    /\ UNCHANGED <<pushing, parallel, islands, evolution, topology, made, rooted, disposed, threw>>

CloseClone ==
    /\ stage = "closing"
    /\ \E c \in toClose : toClose' = toClose \ {c} /\ disposed' = disposed \cup {c}
    /\ UNCHANGED <<stage, pushing, parallel, islands, evolution, topology, made, rooted, threw>>

(* A clone's Dispose throws.  Java swallows it and goes on; in C# it leaves     *)
(* OnManagedDispose, and the list stays as it is.                              *)
CloseThrows ==
    /\ stage = "closing"
    /\ Binding = "csharp"
    /\ toClose # {}
    /\ \E c \in toClose : disposed' = disposed \cup {c}
    /\ toClose' = {}
    /\ threw' = TRUE
    /\ stage' = "closed"
    /\ UNCHANGED <<pushing, parallel, islands, evolution, topology, made, rooted>>

ClosingEnds ==
    /\ stage = "closing" /\ toClose = {}
    /\ rooted' = {}
    /\ threw' = FALSE
    /\ stage' = "closed"
    /\ UNCHANGED <<pushing, parallel, islands, evolution, topology, made, toClose, disposed>>

(* Dispose() again runs the hook over what is still listed.                    *)
DisposeAgain ==
    /\ stage = "closed" /\ rooted # {}
    /\ stage' = "closing"
    /\ toClose' = rooted
    /\ UNCHANGED <<pushing, parallel, islands, evolution, topology, made, rooted, disposed, threw>>

(* The caller is done with a problem that was cloned.  A problem it shares with *)
(* the islands it keeps: that is its side of the bargain.                      *)
CallerDisposes(p) ==
    /\ Unsafe(p) /\ CallerFree
    /\ p \notin disposed
    /\ disposed' = disposed \cup {p}
    /\ UNCHANGED <<stage, pushing, parallel, islands, evolution, topology, made, rooted,
                   toClose, threw>>
-----------------------------------------------------------------------------
Native(r) == StartEvolution(r) \/ MigrationFails(r) \/ EndEvolution(r)

Disposal == NativeDeleted \/ CloseClone \/ CloseThrows \/ ClosingEnds

Next ==
    \/ \E p \in Problems : PushBack(p) \/ CallerDisposes(p)
    \/ \E t \in Pushers : EvaluateInitial(t) \/ InitialEvaluated(t)
    \/ PushReturns \/ PushThrows
    \/ SetTopology \/ SetUnconnected
    \/ Evolve \/ WaitCheck
    \/ \E c \in Copies : \/ \E i \in Islands : GetIslandCopy(i, c)
                         \/ EvolveCopy(c) \/ DisposeCopy(c)
    \/ \E r \in Runners : Native(r)
    \/ Dispose \/ Disposal \/ DisposeAgain

(* Callbacks return, pagmo's threads run what is queued, and a Dispose that has *)
(* been entered goes on.  The caller need not do anything.                     *)
Fairness == /\ \A r \in Runners : WF_vars(Native(r))
            /\ WF_vars(Disposal)

Spec == Init /\ [][Next]_vars /\ Fairness
-----------------------------------------------------------------------------
(* Properties *)

TypeOK ==
    /\ stage \in {"open", "pushing", "deleting", "closing", "closed"}
    /\ pushing \in Instances \cup {None} /\ parallel \in BOOLEAN
    /\ size \in 0 .. MaxIslands
    /\ instance \in [Runners -> Instances \cup {None}]
    /\ pending \in [Runners -> 0 .. MaxPending]
    /\ busy \in [Threads -> Instances \cup {None}]
    /\ errors \in [Islands -> SUBSET {"vertex", "migrants", "callback"}]
    /\ vertices \in Nat /\ connected \in BOOLEAN
    /\ made \subseteq Clones /\ rooted \subseteq made /\ toClose \subseteq rooted
    /\ disposed \subseteq Instances /\ threw \in BOOLEAN
    /\ \A i \in Islands : instance[i] = None <=> i > size
    /\ \A r \in Runners : pending[r] = 0 \/ instance[r] # None

Shareable(x) == x \in Problems /\ ~Unsafe(x)

OwnThreads == Islands \cup Pushers

(* No two islands of the archipelago, nor an island and a push_back that is     *)
(* filling the next one, are inside the same instance of an unsafe problem.     *)
IslandsExclusive ==
    \A i \in Islands : \A t \in OwnThreads \ {i} :
        busy[i] # None /\ busy[i] = busy[t] => Shareable(busy[i])

(* No callback of the archipelago's own islands, nor of an island under          *)
(* construction, reaches an instance that has been disposed, by Dispose or by    *)
(* the caller who still holds the original problem.                              *)
NoUseAfterDispose == \A t \in OwnThreads : busy[t] \notin disposed

(* A Dispose that has returned normally disposed every clone that was ever made, *)
(* those of failed insertions too, and one whose earlier attempt threw.          *)
ClonesDisposed == stage = "closed" /\ ~threw => made \subseteq disposed

(* No evolution fails because migration indexes past the migrants database.      *)
MigrantsInRange == \A i \in Islands : "migrants" \notin errors[i]

(* The archipelago implements the ownership of clones, with an insertion as the  *)
(* first thing the next island does: a clone is one island's for life, nobody     *)
(* else calls it, and it is disposed only when the archipelago has ended.         *)
Given(i) == IF i = size + 1 THEN {pushing} ELSE {instance[i]}
Contract ==
    INSTANCE OwnershipContract WITH
        Users <- Islands, Clones <- Clones, None <- None,
        Shared <- {p \in Problems : ~Unsafe(p)}, Private <- {p \in Problems : Unsafe(p)},
        alive <- stage \in {"open", "pushing", "deleting"},
        fresh <- Clones \ made,
        owns <- [i \in Islands |-> Clones \cap Given(i)],
        using <- [i \in Islands |-> IF i = size + 1 /\ ~PushersIdle THEN pushing ELSE busy[i]],
        released <- disposed
ImplementsOwnership == Contract!Spec

(* Dispose returns even if evolutions are queued when it is called.              *)
DisposeReturns == stage = "deleting" ~> stage = "closed"

(* The clone of an unsafe problem is only ever used by one thread at a time.     *)
SingleThreaded ==
    \A t, u \in Threads : t # u /\ busy[t] # None /\ busy[t] = busy[u] => Shareable(busy[t])

(* A topology that require_topology_fits accepted never fails an evolution.      *)
AcceptedTopologySafe == \A i \in Islands : errors[i] \subseteq {"callback"}
=============================================================================
