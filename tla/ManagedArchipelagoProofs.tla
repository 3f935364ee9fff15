---------------------- MODULE ManagedArchipelagoProofs -----------------------
(***************************************************************************)
(* Theorems about an archipelago of managed problems, for any number of      *)
(* islands, clones, copies and problems and any topology sizes.              *)
(***************************************************************************)
EXTENDS ManagedArchipelago, TLAPS

(* What a thread is inside is what it was given.                              *)
BusySound ==
    /\ \A r \in Runners : busy[r] # None => busy[r] = instance[r] /\ pending[r] # 0
    /\ \A t \in Pushers : busy[t] # None => stage = "pushing" /\ busy[t] = pushing
    /\ stage = "pushing" <=> pushing # None
    /\ stage = "pushing" => size < MaxIslands

TypeInv == TypeOK /\ BusySound

USE ArchipelagoAssumption

LEMMA SetFacts ==
  /\ Islands \subseteq Nat \ {0} /\ Islands \subseteq Runners
  /\ \A n \in Nat : n < MaxIslands => n + 1 \in Islands
  /\ Copies \subseteq Runners /\ Copies \cap Islands = {}
  /\ Runners = Islands \cup Copies
  /\ Runners \subseteq Threads /\ Pushers \subseteq Threads
  /\ Pushers \cap Runners = {} /\ Threads = Runners \cup Pushers
  /\ None \notin Instances
  BY DEF Islands, Runners, Threads, Pushers

LEMMA TargetType ==
  ASSUME NEW p \in Problems, NEW target \in PushTargets(p)
  PROVE  /\ target \in Instances /\ target # None
         /\ target \in Clones => target \notin made
         /\ target \notin Clones => Shareable(target)
<1>1. CASE Unsafe(p)
  BY <1>1 DEF PushTargets, Instances
<1>2. CASE ~Unsafe(p)
  BY <1>2 DEF PushTargets, Instances, Shareable
<1>3. QED BY <1>1, <1>2

LEMMA TypeInit == Init => TypeInv
<1> SUFFICES ASSUME Init PROVE TypeInv
  OBVIOUS
<1>0. /\ 0 \in 0 .. MaxPending /\ 0 \in 0 .. MaxIslands /\ 0 \in Nat
      /\ \A i \in Islands : i > 0
  BY DEF Islands
<1>1. TypeOK
  <2>1. /\ instance \in [Runners -> Instances \cup {None}]
        /\ pending \in [Runners -> 0 .. MaxPending]
        /\ busy \in [Threads -> Instances \cup {None}]
        /\ errors \in [Islands -> SUBSET {"vertex", "migrants", "callback"}]
    BY <1>0 DEF Init
  <2>2. /\ \A i \in Islands : instance[i] = None <=> i > size
        /\ \A r \in Runners : pending[r] = 0
    BY <1>0, SetFacts DEF Init
  <2>3. QED BY <1>0, <2>1, <2>2 DEF Init, TypeOK
<1>2. BusySound
  BY SetFacts DEF Init, BusySound
<1>3. QED BY <1>1, <1>2 DEF TypeInv

LEMMA TypeStep == TypeInv /\ [Next]_vars => TypeInv'
<1> SUFFICES ASSUME TypeOK, BusySound, [Next]_vars PROVE TypeOK' /\ BusySound'
  BY DEF TypeInv
<1> USE SetFacts
<1>1. ASSUME NEW p \in Problems, PushBack(p) PROVE TypeOK' /\ BusySound'
  <2>1. PICK target \in PushTargets(p) :
            /\ pushing' = target
            /\ made' = made \cup ({target} \cap Clones)
            /\ rooted' = rooted \cup ({target} \cap Clones)
    BY <1>1 DEF PushBack
  <2>2. TypeOK'
    BY <1>1, <2>1, TargetType DEF PushBack, TypeOK, islands, evolution, topology, cleanup
  <2>3. BusySound'
    BY <1>1, <2>1, TargetType DEF PushBack, BusySound, TypeOK, islands, evolution
  <2>4. QED BY <2>2, <2>3
<1>2. ASSUME NEW p \in Problems, CallerDisposes(p) PROVE TypeOK' /\ BusySound'
  BY <1>2 DEF CallerDisposes, TypeOK, BusySound, Instances, islands, evolution, topology
<1>3. ASSUME NEW t \in Pushers, EvaluateInitial(t) \/ InitialEvaluated(t)
      PROVE  TypeOK' /\ BusySound'
  <2>1. t \notin Runners /\ \A u \in Threads \ {t} : busy'[u] = busy[u]
    BY <1>3 DEF EvaluateInitial, InitialEvaluated, TypeOK
  <2>2. TypeOK'
    BY <1>3 DEF EvaluateInitial, InitialEvaluated, TypeOK, islands, topology, cleanup
  <2>3. BusySound'
    BY <1>3, <2>1 DEF EvaluateInitial, InitialEvaluated, BusySound, TypeOK, islands
  <2>4. QED BY <2>2, <2>3
<1>4. ASSUME PushReturns PROVE TypeOK' /\ BusySound'
  <2>1. size \in Nat /\ size < MaxIslands /\ size + 1 \in Islands
    BY <1>4 DEF PushReturns, TypeOK, BusySound
  <2>2. pushing # None /\ pushing \in Instances
    BY <1>4 DEF PushReturns, TypeOK, BusySound
  <2>3. size' \in 0 .. MaxIslands /\ vertices' \in Nat
    BY <1>4, <2>1 DEF PushReturns, TypeOK
  <2>4. instance' \in [Runners -> Instances \cup {None}]
    BY <1>4, <2>2 DEF PushReturns, TypeOK
  <2>5. \A i \in Islands : instance'[i] = None <=> i > size'
    <3>1. TAKE i \in Islands
    <3>2. CASE i = size + 1
      BY <1>4, <2>1, <2>2, <3>2 DEF PushReturns, TypeOK
    <3>3. CASE i # size + 1
      BY <1>4, <2>1, <3>3 DEF PushReturns, TypeOK
    <3>4. QED BY <3>2, <3>3
  <2>6. \A r \in Runners : pending'[r] = 0 \/ instance'[r] # None
    BY <1>4, <2>2 DEF PushReturns, TypeOK, evolution
  <2>7. TypeOK'
    BY <1>4, <2>3, <2>4, <2>5, <2>6 DEF PushReturns, TypeOK, evolution, cleanup
  <2>8. busy[size + 1] = None
    BY <2>1 DEF TypeOK, BusySound
  <2>9. BusySound'
    BY <1>4, <2>1, <2>8 DEF PushReturns, PushersIdle, BusySound, TypeOK, evolution
  <2>10. QED BY <2>7, <2>9
<1>5. ASSUME PushThrows PROVE TypeOK' /\ BusySound'
  BY <1>5 DEF PushThrows, PushersIdle, TypeOK, BusySound, islands, evolution, topology, cleanup
<1>6. ASSUME SetTopology \/ SetUnconnected PROVE TypeOK' /\ BusySound'
  <2>1. vertices' \in Nat /\ connected' \in BOOLEAN
    <3>1. CASE SetTopology
      <4>1. PICK v \in 0 .. MaxVertices : vertices' = v
        BY <3>1 DEF SetTopology
      <4>2. QED BY <3>1, <4>1 DEF SetTopology
    <3>2. CASE SetUnconnected
      BY <3>2 DEF SetUnconnected
    <3>3. QED BY <1>6, <3>1, <3>2
  <2>2. UNCHANGED <<stage, pushing, parallel, islands, evolution, made, rooted, cleanup>>
    BY <1>6 DEF SetTopology, SetUnconnected
  <2>3. QED BY <2>1, <2>2 DEF TypeOK, BusySound, islands, evolution, cleanup
<1>7. ASSUME Evolve PROVE TypeOK' /\ BusySound'
  <2>1. \A r \in Runners : \/ r \in Present /\ pending'[r] = pending[r] + 1
                           \/ pending'[r] = pending[r]
    BY <1>7 DEF Evolve
  <2>2. pending' \in [Runners -> 0 .. MaxPending]
    BY <1>7 DEF Evolve, Present, TypeOK
  <2>3. \A r \in Present : instance[r] # None
    BY DEF Present, TypeOK
  <2>4. \A r \in Runners : pending'[r] = 0 \/ instance[r] # None
    BY <2>1, <2>3 DEF TypeOK
  <2>5. TypeOK'
    BY <1>7, <2>2, <2>4 DEF Evolve, TypeOK, islands, topology, cleanup
  <2>6. BusySound'
    BY <1>7, <2>1 DEF Evolve, BusySound, TypeOK, islands
  <2>7. QED BY <2>5, <2>6
<1>8. ASSUME WaitCheck PROVE TypeOK' /\ BusySound'
  BY <1>8 DEF WaitCheck, TypeOK, BusySound, islands, topology, cleanup
<1>9. ASSUME NEW c \in Copies, NEW i \in Islands, GetIslandCopy(i, c) PROVE TypeOK' /\ BusySound'
  BY <1>9 DEF GetIslandCopy, Present, TypeOK, BusySound, evolution, topology, cleanup
<1>10. ASSUME NEW c \in Copies, EvolveCopy(c) PROVE TypeOK' /\ BusySound'
  BY <1>10 DEF EvolveCopy, TypeOK, BusySound, islands, topology, cleanup
<1>11. ASSUME NEW c \in Copies, DisposeCopy(c) PROVE TypeOK' /\ BusySound'
  BY <1>11 DEF DisposeCopy, TypeOK, BusySound, evolution, topology, cleanup
<1>12. ASSUME NEW r \in Runners, StartEvolution(r) PROVE TypeOK' /\ BusySound'
  BY <1>12 DEF StartEvolution, Runnable, TypeOK, BusySound, islands, topology, cleanup
<1>13. ASSUME NEW r \in Runners, MigrationFails(r) PROVE TypeOK' /\ BusySound'
  <2>1. PICK e \in MigrationErrors(r) : errors' = [errors EXCEPT ![r] = @ \cup {e}]
    BY <1>13 DEF MigrationFails
  <2>2. e \in {"vertex", "migrants"}
    BY <2>1 DEF MigrationErrors
  <2>3. errors' \in [Islands -> SUBSET {"vertex", "migrants", "callback"}]
    BY <2>1, <2>2 DEF TypeOK
  <2>4. pending[r] - 1 \in 0 .. MaxPending /\ pending' \in [Runners -> 0 .. MaxPending]
    BY <1>13 DEF MigrationFails, Runnable, TypeOK
  <2>5. busy[r] = None /\ \A q \in Runners \ {r} : pending'[q] = pending[q]
    BY <1>13 DEF MigrationFails, Runnable, TypeOK
  <2>6. instance[r] # None
    BY <1>13 DEF MigrationFails, Runnable, TypeOK
  <2>7. TypeOK'
    BY <1>13, <2>3, <2>4, <2>5, <2>6 DEF MigrationFails, TypeOK, islands, topology, cleanup
  <2>8. BusySound'
    BY <1>13, <2>5 DEF MigrationFails, BusySound, islands
  <2>9. QED BY <2>7, <2>8
<1>14. ASSUME NEW r \in Runners, EndEvolution(r) PROVE TypeOK' /\ BusySound'
  <2>1. errors' \in [Islands -> SUBSET {"vertex", "migrants", "callback"}]
    BY <1>14 DEF EndEvolution, TypeOK
  <2>2. pending[r] # 0 /\ pending[r] \in 0 .. MaxPending
    BY <1>14 DEF EndEvolution, TypeOK, BusySound
  <2>3. pending' \in [Runners -> 0 .. MaxPending] /\ busy' \in [Threads -> Instances \cup {None}]
    BY <1>14, <2>2 DEF EndEvolution, TypeOK
  <2>4. /\ busy'[r] = None /\ \A u \in Threads \ {r} : busy'[u] = busy[u]
        /\ \A q \in Runners \ {r} : pending'[q] = pending[q]
    BY <1>14 DEF EndEvolution, TypeOK
  <2>5. instance[r] # None
    BY <2>2 DEF TypeOK
  <2>6. TypeOK'
    BY <1>14, <2>1, <2>3, <2>4, <2>5 DEF EndEvolution, TypeOK, islands, topology, cleanup
  <2>7. BusySound'
    BY <1>14, <2>4 DEF EndEvolution, BusySound, islands
  <2>8. QED BY <2>6, <2>7
<1>15. ASSUME Dispose \/ NativeDeleted \/ CloseClone \/ CloseThrows \/ ClosingEnds \/ DisposeAgain
       PROVE  TypeOK' /\ BusySound'
  <2>1. UNCHANGED <<pushing, parallel, islands, evolution, topology, made>>
    BY <1>15 DEF Dispose, NativeDeleted, CloseClone, CloseThrows, ClosingEnds, DisposeAgain
  <2>2. stage # "pushing" /\ stage' \in {"deleting", "closing", "closed"}
    BY <1>15 DEF Dispose, NativeDeleted, CloseClone, CloseThrows, ClosingEnds, DisposeAgain
  <2>3. /\ rooted' \subseteq made /\ toClose' \subseteq rooted'
        /\ disposed' \subseteq Instances /\ threw' \in BOOLEAN
    <3>1. rooted \subseteq Instances /\ toClose \subseteq Instances
      BY DEF TypeOK, Instances
    <3>2. CASE CloseClone
      <4>1. PICK c \in toClose : toClose' = toClose \ {c} /\ disposed' = disposed \cup {c}
        BY <3>2 DEF CloseClone
      <4>2. QED BY <3>1, <3>2, <4>1 DEF CloseClone, TypeOK
    <3>3. CASE CloseThrows
      <4>1. PICK c \in toClose : disposed' = disposed \cup {c}
        BY <3>3 DEF CloseThrows
      <4>2. QED BY <3>1, <3>3, <4>1 DEF CloseThrows, TypeOK
    <3>4. CASE Dispose \/ NativeDeleted \/ ClosingEnds \/ DisposeAgain
      BY <3>4 DEF Dispose, NativeDeleted, ClosingEnds, DisposeAgain, TypeOK, cleanup
    <3>5. QED BY <1>15, <3>2, <3>3, <3>4
  <2>4. TypeOK'
    BY <2>1, <2>2, <2>3 DEF TypeOK, islands, evolution, topology
  <2>5. BusySound'
    BY <2>1, <2>2 DEF BusySound, islands, evolution
  <2>6. QED BY <2>4, <2>5
<1>16. CASE UNCHANGED vars
  BY <1>16 DEF vars, TypeOK, BusySound, islands, evolution, topology, cleanup
<1>17. QED
  BY <1>1, <1>2, <1>3, <1>4, <1>5, <1>6, <1>7, <1>8, <1>9, <1>10, <1>11, <1>12, <1>13,
     <1>14, <1>15, <1>16 DEF Next, Native, Disposal

(* Every variable keeps its type; an island evolves only on the instance it    *)
(* was built with, and a slot without an island has nothing queued.            *)
THEOREM TypeCorrect == Spec => []TypeOK
<1>1. TypeInv => TypeOK
  BY DEF TypeInv
<1>2. QED BY <1>1, TypeInit, TypeStep, PTL DEF Spec
-----------------------------------------------------------------------------
(* Migration.  Every push adds a vertex and an island, and a new topology is   *)
(* compared with the islands there are.                                        *)

TopologyBounded == connected => vertices <= size

NoMigrantError == \A i \in Islands : "migrants" \notin errors[i]

MigrationInv == TypeInv /\ TopologyBounded /\ NoMigrantError

LEMMA MigrationStep == MigrationInv /\ [Next]_vars => MigrationInv'
<1> SUFFICES ASSUME MigrationInv, [Next]_vars PROVE TopologyBounded' /\ NoMigrantError'
  BY TypeStep DEF MigrationInv
<1> USE SetFacts DEF MigrationInv, TypeInv
<1>1. ASSUME UNCHANGED <<size, vertices, connected, errors>>
      PROVE  TopologyBounded' /\ NoMigrantError'
  BY <1>1 DEF TopologyBounded, NoMigrantError
<1>2. ASSUME PushReturns PROVE TopologyBounded' /\ NoMigrantError'
  BY <1>2 DEF PushReturns, TopologyBounded, NoMigrantError, TypeOK, evolution
<1>3. ASSUME SetTopology \/ SetUnconnected PROVE TopologyBounded' /\ NoMigrantError'
  BY <1>3 DEF SetTopology, SetUnconnected, TopologyFits, TopologyBounded, NoMigrantError,
              islands, evolution
<1>4. ASSUME WaitCheck PROVE TopologyBounded' /\ NoMigrantError'
  BY <1>4 DEF WaitCheck, TopologyBounded, NoMigrantError, islands, topology
<1>5. ASSUME NEW r \in Runners, MigrationFails(r) PROVE TopologyBounded' /\ NoMigrantError'
  <2>1. PICK e \in MigrationErrors(r) : errors' = [errors EXCEPT ![r] = @ \cup {e}]
    BY <1>5 DEF MigrationFails
  <2>2. e = "vertex"
    <3>1. vertices \in Nat /\ size \in Nat
      BY DEF TypeOK
    <3>2. QED BY <2>1, <3>1 DEF MigrationErrors, TopologyBounded
  <2>3. NoMigrantError'
    BY <2>1, <2>2 DEF NoMigrantError, TypeOK
  <2>4. QED BY <1>5, <2>3 DEF MigrationFails, TopologyBounded, islands, topology
<1>6. ASSUME NEW r \in Runners, EndEvolution(r) PROVE TopologyBounded' /\ NoMigrantError'
  BY <1>6 DEF EndEvolution, TopologyBounded, NoMigrantError, TypeOK, islands, topology
<1>7. QED
  BY <1>1, <1>2, <1>3, <1>4, <1>5, <1>6
     DEF Next, Native, Disposal, PushBack, CallerDisposes, EvaluateInitial, InitialEvaluated,
         PushThrows, Evolve, GetIslandCopy, EvolveCopy, DisposeCopy, StartEvolution, Dispose,
         NativeDeleted, CloseClone, CloseThrows, ClosingEnds, DisposeAgain, vars, islands,
         evolution, topology

(* No evolution ever indexes past the migrants database: the check in          *)
(* require_topology_fits is enough, whatever is pushed afterwards.             *)
THEOREM MigrantsInRangeHolds == Spec => []MigrantsInRange
<1>1. Init => MigrationInv
  BY TypeInit DEF Init, MigrationInv, TopologyBounded, NoMigrantError
<1>2. MigrationInv => MigrantsInRange
  BY DEF MigrationInv, NoMigrantError, MigrantsInRange
<1>3. QED BY <1>1, <1>2, MigrationStep, PTL DEF Spec
-----------------------------------------------------------------------------
(* Ownership.  A clone is made for one island and given to no other; only      *)
(* problems that may be shared are used directly; clones are disposed once no  *)
(* evolution is left; and until then the archipelago holds every clone.        *)

Owned(x) == x \in made \/ Shareable(x)

Ownership ==
    /\ \A i \in Present : Owned(instance[i])
    /\ stage = "pushing" => Owned(pushing)
    /\ \A i, j \in Present : i # j /\ instance[i] = instance[j] => Shareable(instance[i])
    /\ \A i \in Present : instance[i] = pushing => Shareable(pushing)

Lifetime ==
    /\ stage \in {"closing", "closed"} => \A i \in Islands : pending[i] = 0
    /\ stage \in {"open", "pushing", "deleting"} => rooted = made /\ disposed \cap Clones = {} /\ ~threw
    /\ stage = "closing" => made \subseteq disposed \cup toClose
    /\ stage \in {"closing", "closed"} => rooted = made \/ made \subseteq disposed
    /\ stage = "closed" /\ ~threw => made \subseteq disposed
    /\ \A p \in disposed : p \in Clones \/ Unsafe(p)

OwnershipInv == TypeInv /\ Ownership

LifetimeInv == OwnershipInv /\ Lifetime

LEMMA OwnershipStep == OwnershipInv /\ [Next]_vars => OwnershipInv'
<1> SUFFICES ASSUME OwnershipInv, [Next]_vars PROVE Ownership'
  BY TypeStep DEF OwnershipInv
<1> USE SetFacts DEF OwnershipInv, TypeInv
<1>1. ASSUME UNCHANGED <<stage, pushing, size, made>>, \A i \in Islands : instance'[i] = instance[i]
      PROVE  Ownership'
  BY <1>1 DEF Ownership, Owned, Shareable, Present
<1>2. ASSUME NEW p \in Problems, PushBack(p) PROVE Ownership'
  <2>1. PICK target \in PushTargets(p) :
            pushing' = target /\ made' = made \cup ({target} \cap Clones)
    BY <1>2 DEF PushBack
  <2>2. Shareable(target) \/ (target \in Clones /\ target \notin made)
    BY <2>1, TargetType
  <2>3. \A i \in Present : instance[i] = target => Shareable(target)
    BY <2>2 DEF Ownership, Owned
  <2>4. stage' = "pushing" /\ UNCHANGED <<size, instance>>
    BY <1>2 DEF PushBack, islands
  <2>5. Owned(target)'
    BY <2>1, <2>2 DEF Owned, Shareable
  <2>6. \A i \in Present : Owned(instance[i])'
    BY <2>1, <2>4 DEF Ownership, Owned, Shareable
  <2>7. Present' = Present
    BY <2>4 DEF Present
  <2>8. QED
    BY <2>1, <2>3, <2>4, <2>5, <2>6, <2>7 DEF Ownership, Shareable, Unsafe
<1>3. ASSUME PushReturns PROVE Ownership'
  <2>1. /\ size \in Nat /\ size + 1 \in Islands /\ size' = size + 1
        /\ instance'[size + 1] = pushing /\ pushing # None
        /\ \A i \in Present : i # size + 1 /\ instance'[i] = instance[i]
        /\ stage' = "open" /\ pushing' = None /\ made' = made /\ stage = "pushing"
    BY <1>3 DEF PushReturns, TypeOK, BusySound, Present
  <2>2. \A i \in Islands : i <= size' <=> i <= size \/ i = size + 1
    BY <2>1
  <2>3. \A i \in Present' : i \in Present \/ i = size + 1
    BY <2>2 DEF Present
  <2>4. \A i \in Present' : instance'[i] # None
    BY <2>1, <2>3 DEF Present, TypeOK
  <2>5. QED BY <2>1, <2>3, <2>4 DEF Ownership, Owned, Shareable
<1>4. ASSUME PushThrows PROVE Ownership'
  <2>1. \A i \in Present : instance[i] # None
    BY DEF Present, TypeOK
  <2>2. QED BY <1>4, <2>1 DEF PushThrows, Ownership, Owned, Shareable, Present, islands
<1>5. ASSUME Dispose \/ Disposal \/ DisposeAgain PROVE Ownership'
  <2>1. UNCHANGED <<pushing, islands, made>> /\ stage' # "pushing"
    BY <1>5 DEF Dispose, Disposal, NativeDeleted, CloseClone, CloseThrows, ClosingEnds, DisposeAgain
  <2>2. QED BY <2>1 DEF Ownership, Owned, Shareable, Present, islands
<1>6. ASSUME NEW c \in Copies, (\E i \in Islands : GetIslandCopy(i, c)) \/ DisposeCopy(c)
      PROVE  Ownership'
  BY <1>1, <1>6 DEF GetIslandCopy, DisposeCopy, TypeOK
<1>7. QED
  BY <1>1, <1>2, <1>3, <1>4, <1>5, <1>6
     DEF Next, Native, CallerDisposes, EvaluateInitial, InitialEvaluated, SetTopology,
         SetUnconnected, Evolve, WaitCheck, EvolveCopy, StartEvolution, MigrationFails,
         EndEvolution, vars, islands

(* The archipelago gives no unsafe instance to two islands, and none that is in *)
(* an island to a push_back under way.                                         *)
THEOREM IslandsExclusiveHolds == Spec => []IslandsExclusive
<1>1. Init => OwnershipInv
  BY TypeInit, SetFacts DEF Init, OwnershipInv, Ownership, Owned, Present, Islands
<1>2. OwnershipInv => IslandsExclusive
  <2> SUFFICES ASSUME OwnershipInv, NEW i \in Islands, NEW t \in OwnThreads \ {i},
                      busy[i] # None, busy[i] = busy[t]
               PROVE  Shareable(busy[i])
    BY DEF IslandsExclusive
  <2> USE SetFacts DEF OwnershipInv, TypeInv
  <2>1. \A j \in Islands : busy[j] # None => j \in Present /\ busy[j] = instance[j]
    BY DEF BusySound, TypeOK, Present
  <2>2. CASE t \in Islands
    BY <2>1, <2>2 DEF Ownership
  <2>3. CASE t \in Pushers
    BY <2>1, <2>3 DEF Ownership, BusySound
  <2>4. QED BY <2>2, <2>3 DEF OwnThreads
<1>3. QED BY <1>1, <1>2, OwnershipStep, PTL DEF Spec

LEMMA LifetimeDisposal ==
  ASSUME LifetimeInv, Dispose \/ Disposal \/ DisposeAgain
  PROVE  Lifetime'
<1> USE SetFacts DEF LifetimeInv, OwnershipInv, TypeInv
<1>0. UNCHANGED <<made, pending>>
  BY DEF Dispose, Disposal, NativeDeleted, CloseClone, CloseThrows, ClosingEnds,
         DisposeAgain, evolution
<1>1. rooted \subseteq Clones /\ toClose \subseteq rooted
  BY DEF TypeOK
<1>2. ASSUME Dispose PROVE Lifetime'
  BY <1>0, <1>2 DEF Dispose, Lifetime, cleanup
<1>3. ASSUME NativeDeleted PROVE Lifetime'
  <2>1. \A i \in Islands : pending[i] = 0
    BY <1>3 DEF NativeDeleted, Quiet, Present, TypeOK
  <2>2. QED BY <1>0, <1>3, <2>1 DEF NativeDeleted, Lifetime
<1>4. ASSUME CloseClone PROVE Lifetime'
  <2>1. PICK c \in toClose : toClose' = toClose \ {c} /\ disposed' = disposed \cup {c}
    BY <1>4 DEF CloseClone
  <2>2. QED BY <1>0, <1>1, <1>4, <2>1 DEF CloseClone, Lifetime
<1>5. ASSUME CloseThrows PROVE Lifetime'
  <2>1. PICK c \in toClose : disposed' = disposed \cup {c}
    BY <1>5 DEF CloseThrows
  <2>2. rooted = made \/ made \subseteq disposed'
    BY <1>5, <2>1 DEF CloseThrows, Lifetime
  <2>3. QED BY <1>0, <1>1, <1>5, <2>1, <2>2 DEF CloseThrows, Lifetime
<1>6. ASSUME ClosingEnds PROVE Lifetime'
  BY <1>0, <1>6 DEF ClosingEnds, Lifetime
<1>7. ASSUME DisposeAgain PROVE Lifetime'
  BY <1>0, <1>7 DEF DisposeAgain, Lifetime
<1>8. QED BY <1>2, <1>3, <1>4, <1>5, <1>6, <1>7 DEF Disposal

LEMMA LifetimeStep == LifetimeInv /\ [Next]_vars => LifetimeInv'
<1> SUFFICES ASSUME LifetimeInv, [Next]_vars PROVE Lifetime'
  BY OwnershipStep DEF LifetimeInv
<1> USE SetFacts DEF LifetimeInv, OwnershipInv, TypeInv
<1>1. ASSUME UNCHANGED <<made, rooted, cleanup>>,
             stage' \in {"open", "pushing"} /\ stage \in {"open", "pushing"}
      PROVE  Lifetime'
  BY <1>1 DEF Lifetime, cleanup
<1>2. ASSUME UNCHANGED <<stage, made, rooted, cleanup>>,
             \A i \in Islands : pending[i] = 0 => pending'[i] = 0
      PROVE  Lifetime'
  BY <1>2 DEF Lifetime, cleanup
<1>3. ASSUME NEW p \in Problems, PushBack(p) PROVE Lifetime'
  BY <1>3 DEF PushBack, Lifetime, cleanup
<1>4. ASSUME NEW p \in Problems, CallerDisposes(p) PROVE Lifetime'
  BY <1>4 DEF CallerDisposes, Lifetime, evolution
<1>5. ASSUME NEW r \in Runners, Native(r) PROVE Lifetime'
  <2>1. pending[r] # 0
    BY <1>5 DEF Native, StartEvolution, MigrationFails, EndEvolution, Runnable, TypeOK, BusySound
  <2>2. \A i \in Islands : pending[i] = 0 => pending'[i] = 0
    BY <1>5, <2>1 DEF Native, StartEvolution, MigrationFails, EndEvolution, TypeOK
  <2>3. QED BY <1>2, <1>5, <2>2 DEF Native, StartEvolution, MigrationFails, EndEvolution
<1>6. ASSUME NEW c \in Copies, EvolveCopy(c) PROVE Lifetime'
  BY <1>2, <1>6 DEF EvolveCopy, TypeOK
<1>7. ASSUME NEW c \in Copies, (\E i \in Islands : GetIslandCopy(i, c)) \/ DisposeCopy(c)
      PROVE  Lifetime'
  BY <1>2, <1>7 DEF GetIslandCopy, DisposeCopy, evolution
<1>8. ASSUME NEW t \in Pushers, EvaluateInitial(t) \/ InitialEvaluated(t) PROVE Lifetime'
  BY <1>2, <1>8 DEF EvaluateInitial, InitialEvaluated
<1>9. ASSUME PushReturns \/ PushThrows \/ SetTopology \/ SetUnconnected \/ Evolve \/ WaitCheck
      PROVE  Lifetime'
  BY <1>1, <1>9 DEF PushReturns, PushThrows, SetTopology, SetUnconnected, Evolve, WaitCheck
<1>10. CASE UNCHANGED vars
  BY <1>2, <1>10 DEF vars, evolution
<1>11. QED
  BY <1>3, <1>4, <1>5, <1>6, <1>7, <1>8, <1>9, <1>10, LifetimeDisposal DEF Next

LEMMA LifetimeInit == Init => LifetimeInv
<1>1. Init => Ownership
  BY SetFacts DEF Init, Ownership, Owned, Present
<1>2. QED BY <1>1, TypeInit DEF Init, LifetimeInv, OwnershipInv, Lifetime

(* Whatever the caller does with topologies, copies and its own problems, no   *)
(* callback of an island reaches a disposed instance: OnManagedDispose and      *)
(* close() come after the native destructor has waited.                         *)
THEOREM NoUseAfterDisposeHolds == Spec => []NoUseAfterDispose
<1>1. LifetimeInv => NoUseAfterDispose
  <2> SUFFICES ASSUME LifetimeInv, NEW t \in OwnThreads, busy[t] \in disposed PROVE FALSE
    BY DEF NoUseAfterDispose
  <2> USE SetFacts DEF LifetimeInv, OwnershipInv, TypeInv
  <2>1. busy[t] # None
    BY DEF TypeOK
  <2>2. CASE t \in Islands
    <3>1. t \in Present /\ busy[t] = instance[t] /\ pending[t] # 0
      BY <2>1, <2>2 DEF BusySound, TypeOK, Present
    <3>2. stage \in {"open", "pushing", "deleting"}
      BY <2>2, <3>1 DEF Lifetime, TypeOK
    <3>3. QED BY <2>2, <3>1, <3>2 DEF Lifetime, Ownership, Owned, Shareable, TypeOK
  <2>3. CASE t \in Pushers
    <3>1. stage = "pushing" /\ busy[t] = pushing
      BY <2>1, <2>3 DEF BusySound
    <3>2. QED BY <3>1 DEF Lifetime, Ownership, Owned, Shareable, TypeOK
  <2>4. QED BY <2>2, <2>3 DEF OwnThreads
<1>2. QED BY <1>1, LifetimeInit, LifetimeStep, PTL DEF Spec

(* No clone is forgotten: once Dispose has returned normally every clone the    *)
(* archipelago made has been disposed.  In Java, where a clone's failure is      *)
(* swallowed, this is every return.                                             *)
THEOREM ClonesDisposedHolds == Spec => []ClonesDisposed
<1>1. LifetimeInv => ClonesDisposed
  BY DEF LifetimeInv, Lifetime, ClonesDisposed
<1>2. QED BY <1>1, LifetimeInit, LifetimeStep, PTL DEF Spec
-----------------------------------------------------------------------------
(* The archipelago implements OwnershipContract.                              *)

Alive == stage \in {"open", "pushing", "deleting"}
Owns(i) == Clones \cap Given(i)
Using(i) == IF i = size + 1 /\ ~PushersIdle THEN pushing ELSE busy[i]

LEMMA ContractInit == Init => Contract!Init
<1> SUFFICES ASSUME Init PROVE Contract!Init
  OBVIOUS
<1> USE SetFacts
<1>1. \A i \in Islands : Clones \cap Given(i) = {}
  BY DEF Init, Given, Instances
<1>2. \A i \in Islands : (IF i = size + 1 /\ ~PushersIdle THEN pushing ELSE busy[i]) = None
  BY DEF Init
<1>3. QED BY <1>1, <1>2 DEF Init, Contract!Init

(* What the contract does not see.                                            *)
LEMMA Stutters ==
  ASSUME Alive' = Alive, UNCHANGED <<made, disposed>>,
         \A i \in Islands : Owns(i)' = Owns(i) /\ Using(i)' = Using(i)
  PROVE  UNCHANGED Contract!oVars
BY DEF Contract!oVars, Alive, Owns, Using

(* An island that is there, or the one being inserted, is inside its own        *)
(* instance or inside nothing.                                                *)
LEMMA UsingFacts ==
  ASSUME LifetimeInv
  PROVE  /\ size \in Nat
         /\ stage = "pushing" => size + 1 \in Islands /\ pushing # None
         /\ stage # "pushing" => PushersIdle /\ pushing = None
         /\ \A i \in Islands : ~(i <= size) => busy[i] = None /\ instance[i] = None
         /\ \A i \in Islands : busy[i] # None => Alive
         /\ \A i \in Islands : pending[i] # 0 => Alive /\ i <= size
         /\ Alive => disposed \cap Clones = {}
<1> USE SetFacts DEF LifetimeInv, OwnershipInv, TypeInv
<1>1. size \in Nat /\ size \in 0 .. MaxIslands
  BY DEF TypeOK
<1>2. stage = "pushing" => size + 1 \in Islands /\ pushing # None
  BY <1>1 DEF BusySound
<1>3. stage # "pushing" => PushersIdle /\ pushing = None
  BY DEF BusySound, PushersIdle
<1>4. \A i \in Islands : ~(i <= size) => busy[i] = None /\ instance[i] = None
  BY <1>1 DEF TypeOK, BusySound
<1>5. \A i \in Islands : pending[i] # 0 => Alive /\ i <= size
  BY <1>1 DEF TypeOK, Lifetime, Alive
<1>6. QED BY <1>1, <1>2, <1>3, <1>4, <1>5 DEF BusySound, Lifetime, Alive

(* Entering what one was given.                                               *)
LEMMA EnterGiven ==
  ASSUME LifetimeInv, NEW u \in Islands, NEW x,
         Alive, Owned(x), x \in Instances, Using(u) = None, x \in Given(u),
         Using(u)' = x, \A i \in Islands \ {u} : Using(i)' = Using(i),
         \A i \in Islands : Owns(i)' = Owns(i),
         UNCHANGED <<stage, made, disposed>>
  PROVE  Contract!Next
<1> USE SetFacts DEF LifetimeInv, OwnershipInv, TypeInv
<1>1. x \in Clones => x \in Owns(u)
  BY DEF Owns
<1>2. x \notin Clones => x \in {p \in Problems : ~Unsafe(p)}
  BY DEF Owned, Shareable, TypeOK
<1>3. x \notin disposed
  BY <1>2, UsingFacts DEF Lifetime
<1>4. x \in Clones \cup {p \in Problems : ~Unsafe(p)}
  BY <1>2
<1>5. [i \in Islands |-> Using(i)'] = [[i \in Islands |-> Using(i)] EXCEPT ![u] = x]
  OBVIOUS
<1>6. Contract!Enter(u, x)
  BY <1>1, <1>2, <1>3, <1>5 DEF Contract!Enter, Alive, Owns, Using
<1>7. QED BY <1>4, <1>6 DEF Contract!Next

LEMMA LeaveOwn ==
  ASSUME NEW u \in Islands, Using(u) # None, Using(u)' = None,
         \A i \in Islands \ {u} : Using(i)' = Using(i),
         \A i \in Islands : Owns(i)' = Owns(i),
         UNCHANGED <<stage, made, disposed>>
  PROVE  Contract!Next
<1>1. [i \in Islands |-> Using(i)'] = [[i \in Islands |-> Using(i)] EXCEPT ![u] = None]
  <2>1. \A i \in Islands : Using(i)' = IF i = u THEN None ELSE Using(i)
    OBVIOUS
  <2>2. QED BY <2>1, Zenon
<1>2. Contract!Leave(u)
  BY <1>1 DEF Contract!Leave, Owns, Using
<1>3. QED BY <1>2 DEF Contract!Next

LEMMA InsertionImplements ==
  ASSUME LifetimeInv, LifetimeInv',
         \/ \E p \in Problems : PushBack(p)
         \/ \E t \in Pushers : EvaluateInitial(t) \/ InitialEvaluated(t)
         \/ PushReturns \/ PushThrows
  PROVE  [Contract!Next]_Contract!oVars
<1> USE SetFacts DEF LifetimeInv, OwnershipInv, TypeInv
<1>1. /\ size \in Nat /\ \A i \in Islands : i \in Nat
      /\ None \notin Clones
  BY UsingFacts DEF Instances
<1>2. ASSUME NEW p \in Problems, PushBack(p) PROVE [Contract!Next]_Contract!oVars
  <2>1. PICK target \in PushTargets(p) :
            pushing' = target /\ made' = made \cup ({target} \cap Clones)
    BY <1>2 DEF PushBack
  <2>2. /\ stage = "open" /\ stage' = "pushing" /\ pushing = None /\ size + 1 \in Islands
        /\ Alive /\ Alive' /\ UNCHANGED <<size, instance, busy, disposed>>
        /\ PushersIdle /\ PushersIdle'
    BY <1>1, <1>2, UsingFacts DEF PushBack, Alive, islands, evolution, cleanup, PushersIdle
  <2>3. \A i \in Islands : Using(i)' = Using(i)
    BY <2>2 DEF Using
  <2>4. \A i \in Islands \ {size + 1} : Owns(i)' = Owns(i)
    BY <2>2 DEF Owns, Given
  <2>5. Owns(size + 1) = {} /\ Owns(size + 1)' = {target} \cap Clones
    BY <1>1, <2>1, <2>2 DEF Owns, Given
  <2>6. CASE target \in Clones
    <3>1. target \in Clones \ made
      BY <2>1, <2>6, TargetType
    <3>2. Clones \ made' = (Clones \ made) \ {target}
      BY <2>1
    <3>3. [i \in Islands |-> Owns(i)'] =
            [[i \in Islands |-> Owns(i)] EXCEPT ![size + 1] = @ \cup {target}]
      <4>1. Owns(size + 1)' = Owns(size + 1) \cup {target}
        BY <2>5, <2>6
      <4>2. \A i \in Islands :
               Owns(i)' = IF i = size + 1 THEN Owns(i) \cup {target} ELSE Owns(i)
        BY <2>2, <2>4, <4>1
      <4>3. QED BY <2>2, <4>2, Zenon
    <3>4. [i \in Islands |-> Using(i)'] = [i \in Islands |-> Using(i)]
      BY <2>3
    <3>5. Contract!Acquire(size + 1, target)
      BY <2>2, <3>1, <3>2, <3>3, <3>4 DEF Contract!Acquire, Alive, Owns, Using
    <3>6. QED BY <2>2, <2>6, <3>5 DEF Contract!Next
  <2>7. CASE target \notin Clones
    <3>1. made' = made /\ Owns(size + 1)' = Owns(size + 1)
      <4>1. {target} \cap Clones = {}
        BY <2>7
      <4>2. QED BY <2>1, <2>5, <4>1
    <3>2. QED BY <2>2, <2>3, <2>4, <3>1, Stutters
  <2>8. QED BY <2>6, <2>7
<1>3. ASSUME NEW t \in Pushers, EvaluateInitial(t) PROVE [Contract!Next]_Contract!oVars
  <2>1. /\ stage = "pushing" /\ Alive /\ pushing # None /\ size + 1 \in Islands
        /\ busy' = [busy EXCEPT ![t] = pushing] /\ t \notin Islands
        /\ UNCHANGED <<stage, pushing, size, instance, made, disposed>>
    BY <1>3, UsingFacts DEF EvaluateInitial, Alive, islands, cleanup
  <2>2. /\ \A i \in Islands : busy'[i] = busy[i] /\ Owns(i)' = Owns(i)
        /\ ~PushersIdle'
    BY <2>1 DEF Owns, Given, PushersIdle, TypeOK
  <2>3. \A i \in Islands \ {size + 1} : Using(i)' = Using(i)
    BY <2>1, <2>2 DEF Using
  <2>4. Using(size + 1)' = pushing
    BY <2>1, <2>2 DEF Using
  <2>5. CASE PushersIdle
    <3>1. Using(size + 1) = None
      BY <1>1, <2>1, <2>5, UsingFacts DEF Using
    <3>2. Owned(pushing) /\ pushing \in Instances /\ pushing \in Given(size + 1)
      BY <2>1 DEF Ownership, TypeOK, Given
    <3>3. QED BY <2>1, <2>2, <2>3, <2>4, <3>1, <3>2, EnterGiven
  <2>6. CASE ~PushersIdle
    <3>1. Using(size + 1) = pushing
      BY <2>6 DEF Using
    <3>2. QED BY <2>1, <2>2, <2>3, <2>4, <3>1, Stutters DEF Alive
  <2>7. QED BY <2>5, <2>6
<1>4. ASSUME NEW t \in Pushers, InitialEvaluated(t) PROVE [Contract!Next]_Contract!oVars
  <2>1. /\ busy[t] # None /\ busy' = [busy EXCEPT ![t] = None] /\ t \notin Islands
        /\ UNCHANGED <<stage, pushing, size, instance, made, disposed>>
    BY <1>4 DEF InitialEvaluated, islands, cleanup
  <2>2. stage = "pushing" /\ pushing # None /\ size + 1 \in Islands /\ ~PushersIdle
    BY <2>1, UsingFacts DEF BusySound, PushersIdle
  <2>3. \A i \in Islands : busy'[i] = busy[i] /\ Owns(i)' = Owns(i)
    BY <2>1 DEF Owns, Given, TypeOK
  <2>4. \A i \in Islands \ {size + 1} : Using(i)' = Using(i)
    BY <2>1, <2>3 DEF Using
  <2>5. Using(size + 1) = pushing
    BY <2>2 DEF Using
  <2>6. CASE PushersIdle'
    <3>1. Using(size + 1)' = None
      BY <1>1, <2>1, <2>2, <2>3, <2>6, UsingFacts DEF Using
    <3>2. QED BY <2>1, <2>2, <2>3, <2>4, <2>5, <3>1, LeaveOwn
  <2>7. CASE ~PushersIdle'
    <3>1. Using(size + 1)' = pushing
      BY <2>1, <2>7 DEF Using
    <3>2. QED BY <2>1, <2>3, <2>4, <2>5, <3>1, Stutters DEF Alive
  <2>8. QED BY <2>6, <2>7
<1>5. ASSUME PushReturns PROVE [Contract!Next]_Contract!oVars
  <2>1. /\ stage = "pushing" /\ stage' = "open" /\ PushersIdle /\ PushersIdle'
        /\ size' = size + 1 /\ pushing' = None /\ pushing # None /\ size + 1 \in Islands
        /\ instance' = [instance EXCEPT ![size + 1] = pushing]
        /\ UNCHANGED <<busy, made, disposed>>
    BY <1>5, UsingFacts DEF PushReturns, PushersIdle, evolution, cleanup
  <2>2. \A i \in Islands : Using(i)' = Using(i)
    BY <2>1 DEF Using
  <2>3. ASSUME NEW i \in Islands PROVE Owns(i)' = Owns(i)
    <3>1. CASE i = size + 1
      BY <1>1, <2>1, <3>1 DEF Owns, Given, TypeOK
    <3>2. CASE i = size' + 1
      <4>1. instance[i] = None /\ i # size + 1
        BY <1>1, <2>1, <3>2, UsingFacts
      <4>2. QED BY <1>1, <2>1, <3>2, <4>1 DEF Owns, Given
    <3>3. CASE i # size + 1 /\ i # size' + 1
      BY <2>1, <3>3 DEF Owns, Given, TypeOK
    <3>4. QED BY <3>1, <3>2, <3>3
  <2>4. QED BY <2>1, <2>2, <2>3, Stutters DEF Alive
<1>6. ASSUME PushThrows PROVE [Contract!Next]_Contract!oVars
  <2>1. /\ stage = "pushing" /\ stage' = "open" /\ PushersIdle /\ PushersIdle'
        /\ pushing' = None /\ pushing # None /\ size + 1 \in Islands
        /\ UNCHANGED <<size, instance, busy, made, disposed>>
    BY <1>6, UsingFacts DEF PushThrows, PushersIdle, evolution, islands, cleanup
  <2>2. \A i \in Islands : Using(i)' = Using(i)
    BY <2>1 DEF Using
  <2>3. \A i \in Islands \ {size + 1} : Owns(i)' = Owns(i)
    BY <2>1 DEF Owns, Given
  <2>4. Owns(size + 1) = Clones \cap {pushing} /\ Owns(size + 1)' = {}
    BY <1>1, <2>1 DEF Owns, Given
  <2>5. CASE pushing \in Clones
    <3>1. [i \in Islands |-> Owns(i)'] =
            [[i \in Islands |-> Owns(i)] EXCEPT ![size + 1] = @ \ {pushing}]
      <4>1. Owns(size + 1)' = Owns(size + 1) \ {pushing}
        BY <2>4
      <4>2. \A i \in Islands :
               Owns(i)' = IF i = size + 1 THEN Owns(i) \ {pushing} ELSE Owns(i)
        BY <2>1, <2>3, <4>1
      <4>3. QED BY <2>1, <4>2, Zenon
    <3>2. Using(size + 1) = None
      BY <1>1, <2>1, UsingFacts DEF Using
    <3>3. [i \in Islands |-> Using(i)'] = [i \in Islands |-> Using(i)] /\ Alive' = Alive
      BY <2>1, <2>2 DEF Alive
    <3>4. Contract!Abandon(size + 1, pushing)
      BY <2>1, <2>4, <2>5, <3>1, <3>2, <3>3 DEF Contract!Abandon, Alive, Owns, Using
    <3>5. QED BY <2>1, <2>5, <3>4 DEF Contract!Next
  <2>6. CASE pushing \notin Clones
    BY <2>1, <2>2, <2>3, <2>4, <2>6, Stutters DEF Alive
  <2>7. QED BY <2>5, <2>6
<1>7. QED BY <1>2, <1>3, <1>4, <1>5, <1>6

LEMMA EvolutionImplements ==
  ASSUME LifetimeInv, LifetimeInv', NEW r \in Runners, Native(r)
  PROVE  [Contract!Next]_Contract!oVars
<1> USE SetFacts DEF LifetimeInv, OwnershipInv, TypeInv
<1>1. /\ UNCHANGED <<stage, pushing, size, instance, made, disposed>>
      /\ \A t \in Threads \ {r} : busy'[t] = busy[t]
  BY DEF Native, StartEvolution, MigrationFails, EndEvolution, islands, cleanup, TypeOK
<1>2. /\ PushersIdle' = PushersIdle
      /\ \A i \in Islands \ {r} : Using(i)' = Using(i)
      /\ \A i \in Islands : Owns(i)' = Owns(i)
  BY <1>1 DEF PushersIdle, Using, Owns, Given
<1>3. CASE r \in Copies
  BY <1>1, <1>2, <1>3, Stutters DEF Alive
<1>4. CASE r \in Islands /\ busy'[r] = busy[r]
  <2>1. Using(r)' = Using(r)
    BY <1>1, <1>2, <1>4 DEF Using
  <2>2. QED BY <1>1, <1>2, <2>1, Stutters DEF Alive
<1>5. CASE r \in Islands /\ busy'[r] # busy[r]
  <2>1. /\ pending[r] # 0 /\ Alive /\ r <= size /\ r \in Nat /\ size \in Nat
    BY <1>5, UsingFacts DEF Native, StartEvolution, MigrationFails, EndEvolution, Runnable,
                            TypeOK, BusySound
  <2>2. Using(r) = busy[r] /\ Using(r)' = busy'[r] /\ Given(r) = {instance[r]}
    BY <1>1, <2>1 DEF Using, Given
  <2>3. CASE StartEvolution(r)
    <3>1. busy[r] = None /\ busy'[r] = instance[r]
      BY <1>5, <2>3 DEF StartEvolution, Runnable, TypeOK
    <3>2. Owned(instance[r]) /\ instance[r] \in Instances
      BY <1>5, <2>1 DEF Ownership, Present, TypeOK
    <3>3. QED BY <1>1, <1>2, <1>5, <2>1, <2>2, <3>1, <3>2, EnterGiven
  <2>4. CASE EndEvolution(r)
    <3>1. busy[r] # None /\ busy'[r] = None
      BY <1>5, <2>4 DEF EndEvolution, TypeOK
    <3>2. QED BY <1>1, <1>2, <1>5, <2>2, <3>1, LeaveOwn
  <2>5. QED BY <1>5, <2>3, <2>4 DEF Native, MigrationFails
<1>6. QED BY <1>3, <1>4, <1>5

LEMMA ReleaseImplements ==
  ASSUME NEW x \in Instances, disposed' = disposed \cup {x},
         \/ x \in Problems /\ Unsafe(x)
         \/ x \in made /\ made \subseteq Clones /\ ~Alive,
         Alive' = Alive, made' = made,
         \A i \in Islands : Owns(i)' = Owns(i) /\ Using(i)' = Using(i)
  PROVE  [Contract!Next]_Contract!oVars
<1>1. CASE x \in disposed
  <2>1. disposed' = disposed
    BY <1>1
  <2>2. QED BY <2>1, Stutters
<1>2. CASE x \notin disposed
  <2>1. [i \in Islands |-> Using(i)'] = [i \in Islands |-> Using(i)]
        /\ [i \in Islands |-> Owns(i)'] = [i \in Islands |-> Owns(i)]
    OBVIOUS
  <2>2. x \in {p \in Problems : Unsafe(p)} \/ (x \in Clones \ (Clones \ made) /\ ~Alive)
    OBVIOUS
  <2>3. Contract!Release(x)
    BY <1>2, <2>1, <2>2 DEF Contract!Release, Alive, Owns, Using
  <2>4. x \in Clones \cup {p \in Problems : Unsafe(p)}
    BY <2>2
  <2>5. QED BY <2>3, <2>4 DEF Contract!Next
<1>3. QED BY <1>1, <1>2

LEMMA DisposalImplements ==
  ASSUME LifetimeInv, LifetimeInv',
         \/ \E p \in Problems : CallerDisposes(p)
         \/ Dispose \/ Disposal \/ DisposeAgain
  PROVE  [Contract!Next]_Contract!oVars
<1> USE SetFacts DEF LifetimeInv, OwnershipInv, TypeInv
<1>1. /\ UNCHANGED <<pushing, size, instance, busy, pending, made>>
      /\ \A i \in Islands : Using(i)' = Using(i) /\ Owns(i)' = Owns(i)
  <2>1. UNCHANGED <<pushing, size, instance, busy, pending, made>>
    BY DEF CallerDisposes, Dispose, Disposal, NativeDeleted, CloseClone, CloseThrows,
           ClosingEnds, DisposeAgain, islands, evolution
  <2>2. QED BY <2>1 DEF Using, Owns, Given, PushersIdle
<1>2. made \subseteq Clones /\ toClose \subseteq made /\ made \subseteq Instances
  BY DEF TypeOK, Instances
<1>3. ASSUME NEW p \in Problems, CallerDisposes(p) PROVE [Contract!Next]_Contract!oVars
  BY <1>1, <1>3, ReleaseImplements DEF CallerDisposes, Alive, Instances
<1>4. ASSUME CloseClone \/ CloseThrows PROVE [Contract!Next]_Contract!oVars
  <2>1. PICK c \in toClose : disposed' = disposed \cup {c}
    BY <1>4 DEF CloseClone, CloseThrows
  <2>2. ~Alive /\ Alive' = Alive
    BY <1>4 DEF CloseClone, CloseThrows, Alive
  <2>3. QED BY <1>1, <1>2, <2>1, <2>2, ReleaseImplements
<1>5. ASSUME NativeDeleted PROVE [Contract!Next]_Contract!oVars
  <2>1. Alive /\ ~Alive' /\ PushersIdle /\ disposed' = disposed
    BY <1>5, UsingFacts DEF NativeDeleted, Alive
  <2>2. \A i \in Islands : busy[i] = None
    BY <1>5, UsingFacts DEF NativeDeleted, Quiet, Present, BusySound
  <2>3. \A i \in Islands : Using(i) = None
    BY <2>1, <2>2 DEF Using
  <2>4. [i \in Islands |-> Using(i)'] = [i \in Islands |-> Using(i)]
        /\ [i \in Islands |-> Owns(i)'] = [i \in Islands |-> Owns(i)]
    BY <1>1
  <2>5. Contract!End
    BY <1>1, <2>1, <2>3, <2>4 DEF Contract!End, Alive, Owns, Using
  <2>6. QED BY <2>5 DEF Contract!Next
<1>6. ASSUME Dispose \/ ClosingEnds \/ DisposeAgain PROVE [Contract!Next]_Contract!oVars
  <2>1. Alive' = Alive /\ disposed' = disposed
    BY <1>6 DEF Dispose, ClosingEnds, DisposeAgain, Alive, cleanup
  <2>2. QED BY <1>1, <2>1, Stutters
<1>7. QED BY <1>3, <1>4, <1>5, <1>6 DEF Disposal

LEMMA ContractStep ==
  ASSUME LifetimeInv, LifetimeInv', [Next]_vars
  PROVE  [Contract!Next]_Contract!oVars
<1> USE SetFacts DEF LifetimeInv, OwnershipInv, TypeInv
<1>1. ASSUME UNCHANGED <<stage, pushing, size, busy, made, disposed>>,
             \A i \in Islands : instance'[i] = instance[i]
      PROVE  [Contract!Next]_Contract!oVars
  BY <1>1, Stutters DEF Alive, Owns, Given, Using, PushersIdle
<1>2. ASSUME NEW c \in Copies, (\E i \in Islands : GetIslandCopy(i, c)) \/ DisposeCopy(c)
      PROVE  [Contract!Next]_Contract!oVars
  BY <1>1, <1>2 DEF GetIslandCopy, DisposeCopy, TypeOK, evolution, cleanup
<1>3. QED
  BY <1>1, <1>2, InsertionImplements, EvolutionImplements, DisposalImplements
     DEF Next, SetTopology, SetUnconnected, Evolve, WaitCheck, EvolveCopy, vars, islands,
         evolution, cleanup

(* An archipelago is a correct owner of its clones: every step of it is one of   *)
(* OwnershipContract's or changes nothing the contract speaks of, for any number  *)
(* of islands, copies and clones.                                              *)
THEOREM OwnershipIsImplemented == Spec => ImplementsOwnership
<1>1. LifetimeInv /\ LifetimeInv' /\ [Next]_vars => [Contract!Next]_Contract!oVars
  BY ContractStep
<1>2. QED
  BY <1>1, ContractInit, LifetimeInit, LifetimeStep, PTL DEF Spec, ImplementsOwnership, Contract!Spec
-----------------------------------------------------------------------------
(* What a caller has to do for the two promises that the code does not keep.    *)

CopiesAtRest == \A c \in Copies : pending[c] = 0
OneFiller == busy[Helper] = None
NoCopyEvolves == \A c \in Copies : ~EvolveCopy(c)

LEMMA ExclusiveStep ==
  TypeInv /\ CopiesAtRest /\ OneFiller /\ [Next]_vars /\ [NoCopyEvolves]_vars /\ ~parallel
      => CopiesAtRest' /\ OneFiller'
<1> SUFFICES ASSUME TypeInv, CopiesAtRest, OneFiller, [Next]_vars, [NoCopyEvolves]_vars, ~parallel
             PROVE  CopiesAtRest' /\ OneFiller'
  OBVIOUS
<1> USE SetFacts DEF TypeInv
<1>0. Helper \in Pushers /\ Helper \in Threads /\ Helper \notin Runners
  BY DEF Pushers
<1>1. ASSUME UNCHANGED <<pending, busy>> PROVE CopiesAtRest' /\ OneFiller'
  BY <1>1 DEF CopiesAtRest, OneFiller
<1>2. ASSUME NEW t \in Pushers, EvaluateInitial(t) \/ InitialEvaluated(t)
      PROVE  CopiesAtRest' /\ OneFiller'
  <2>1. t # Helper
    BY <1>2 DEF EvaluateInitial, InitialEvaluated, OneFiller
  <2>2. pending' = pending /\ busy'[Helper] = busy[Helper]
    BY <1>0, <1>2, <2>1 DEF EvaluateInitial, InitialEvaluated, TypeOK
  <2>. QED  BY <2>2 DEF CopiesAtRest, OneFiller
<1>3. ASSUME Evolve PROVE CopiesAtRest' /\ OneFiller'
  <2>1. \A c \in Copies : pending'[c] = pending[c]
    BY <1>3 DEF Evolve, Present
  <2>. QED  BY <1>3, <2>1 DEF Evolve, CopiesAtRest, OneFiller
<1>4. ASSUME NEW c \in Copies, EvolveCopy(c) PROVE CopiesAtRest' /\ OneFiller'
  BY <1>1, <1>4 DEF NoCopyEvolves, vars, evolution
<1>5. ASSUME NEW r \in Runners, Native(r) PROVE CopiesAtRest' /\ OneFiller'
  <2>1. pending[r] # 0
    BY <1>5 DEF Native, StartEvolution, MigrationFails, EndEvolution, Runnable, TypeOK, BusySound
  <2>2. r \notin Copies
    BY <2>1 DEF CopiesAtRest
  <2>3. /\ \A c \in Copies : pending'[c] = pending[c]
        /\ busy'[Helper] = busy[Helper]
    BY <1>0, <1>5, <2>2 DEF Native, StartEvolution, MigrationFails, EndEvolution, TypeOK
  <2>. QED  BY <2>3 DEF CopiesAtRest, OneFiller
<1>6. CASE UNCHANGED vars
  BY <1>1, <1>6 DEF vars, evolution
<1>. QED
  BY <1>1, <1>2, <1>3, <1>4, <1>5, <1>6
     DEF Next, Disposal, PushBack, CallerDisposes, PushReturns, PushThrows, SetTopology,
         SetUnconnected, WaitCheck, GetIslandCopy, DisposeCopy, Dispose, NativeDeleted,
         CloseClone, CloseThrows, ClosingEnds, DisposeAgain, evolution

(* The comment at push_back_island is right of a caller who evolves no copy of   *)
(* an island and fills no population in parallel: then one thread at a time uses  *)
(* a clone (SingleThreaded), whatever else happens.                             *)
THEOREM SingleThreadedWithoutCopies ==
    Spec /\ [][NoCopyEvolves]_vars /\ []~parallel => []SingleThreaded
<1>1. Init => TypeInv /\ CopiesAtRest /\ OneFiller
  BY TypeInit, SetFacts DEF Init, CopiesAtRest, OneFiller, Pushers
<1>2. TypeInv /\ CopiesAtRest /\ OneFiller /\ IslandsExclusive => SingleThreaded
  <2> SUFFICES ASSUME TypeInv, CopiesAtRest, OneFiller, IslandsExclusive,
                      NEW t \in Threads, NEW u \in Threads, t # u,
                      busy[t] # None, busy[t] = busy[u]
               PROVE  Shareable(busy[t])
    BY DEF SingleThreaded
  <2> USE SetFacts DEF TypeInv
  <2>1. ASSUME NEW v \in Threads, busy[v] # None PROVE v \in Islands \/ v = Caller
    BY <2>1 DEF BusySound, CopiesAtRest, OneFiller, Pushers
  <2>2. (t \in Islands \/ t = Caller) /\ (u \in Islands \/ u = Caller)
    BY <2>1
  <2>3. CASE t \in Islands
    BY <2>2, <2>3 DEF IslandsExclusive, OwnThreads, Pushers
  <2>4. CASE u \in Islands
    BY <2>2, <2>4 DEF IslandsExclusive, OwnThreads, Pushers
  <2>. QED  BY <2>2, <2>3, <2>4
<1>. QED
  BY <1>1, <1>2, ExclusiveStep, TypeStep, IslandsExclusiveHolds, PTL DEF Spec
-----------------------------------------------------------------------------
(* The caller brings a topology with a vertex for each island there is.         *)
FullTopology == SetTopology => vertices' = size

(* Every vertex of a connected topology is that of an island, and vice versa.   *)
FullyConnected == connected => vertices = size

LEMMA FullStep ==
  TypeInv /\ FullyConnected /\ AcceptedTopologySafe /\ [Next]_vars /\ [FullTopology]_vars
      => FullyConnected' /\ AcceptedTopologySafe'
<1> SUFFICES ASSUME TypeInv, FullyConnected, AcceptedTopologySafe, [Next]_vars,
                    [FullTopology]_vars
             PROVE  FullyConnected' /\ AcceptedTopologySafe'
  OBVIOUS
<1> USE SetFacts DEF TypeInv
<1>1. ASSUME UNCHANGED <<size, vertices, connected, errors>>
      PROVE  FullyConnected' /\ AcceptedTopologySafe'
  BY <1>1 DEF FullyConnected, AcceptedTopologySafe
<1>2. ASSUME PushReturns PROVE FullyConnected' /\ AcceptedTopologySafe'
  BY <1>2 DEF PushReturns, FullyConnected, AcceptedTopologySafe, evolution
<1>3. ASSUME SetTopology PROVE FullyConnected' /\ AcceptedTopologySafe'
  <2>1. errors' = errors /\ size' = size
    BY <1>3 DEF SetTopology, evolution, islands
  <2>2. vertices' = size \/ UNCHANGED vars
    BY <1>3 DEF FullTopology
  <2>3. UNCHANGED vars => vertices' = vertices /\ connected' = connected
    BY DEF vars, topology
  <2>. QED  BY <2>1, <2>2, <2>3 DEF FullyConnected, AcceptedTopologySafe
<1>4. ASSUME SetUnconnected PROVE FullyConnected' /\ AcceptedTopologySafe'
  BY <1>4 DEF SetUnconnected, FullyConnected, AcceptedTopologySafe, evolution, islands
<1>5. ASSUME WaitCheck PROVE FullyConnected' /\ AcceptedTopologySafe'
  BY <1>5 DEF WaitCheck, FullyConnected, AcceptedTopologySafe, islands, topology
<1>6. ASSUME NEW r \in Runners, MigrationFails(r)
      PROVE  FullyConnected' /\ AcceptedTopologySafe'
  <2>1. MigrationErrors(r) # {} /\ pending[r] > 0
    BY <1>6 DEF MigrationFails, Runnable
  <2>2. r \in Islands /\ connected /\ (r > vertices \/ vertices > size)
    BY <2>1 DEF MigrationErrors
  <2>3. pending[r] # 0 /\ size \in Nat /\ r \in Nat
    BY <2>1, <2>2 DEF TypeOK
  <2>4. ~(r > size)
    BY <2>2, <2>3 DEF TypeOK
  <2>. QED  BY <2>2, <2>3, <2>4 DEF FullyConnected
<1>7. ASSUME NEW r \in Runners, EndEvolution(r)
      PROVE  FullyConnected' /\ AcceptedTopologySafe'
  BY <1>7 DEF EndEvolution, FullyConnected, AcceptedTopologySafe, TypeOK, islands, topology
<1>8. CASE UNCHANGED vars
  BY <1>1, <1>8 DEF vars, islands, evolution, topology
<1>. QED
  BY <1>1, <1>2, <1>3, <1>4, <1>5, <1>6, <1>7, <1>8
     DEF Next, Native, Disposal, PushBack, CallerDisposes, EvaluateInitial, InitialEvaluated,
         PushThrows, Evolve, GetIslandCopy, EvolveCopy, DisposeCopy, StartEvolution, Dispose,
         NativeDeleted, CloseClone, CloseThrows, ClosingEnds, DisposeAgain, islands,
         evolution, topology

(* What require_topology_fits does not ask for is enough: a topology that has a  *)
(* vertex for each island when it is set fails no evolution (AcceptedTopologySafe),*)
(* however many islands follow.                                                *)
THEOREM FullTopologySafe ==
    Spec /\ [][FullTopology]_vars => []AcceptedTopologySafe
<1>1. Init => TypeInv /\ FullyConnected /\ AcceptedTopologySafe
  BY TypeInit DEF Init, FullyConnected, AcceptedTopologySafe
<1>. QED  BY <1>1, FullStep, TypeStep, PTL DEF Spec
-----------------------------------------------------------------------------
(* The caller lets the copies of islands come to rest before it disposes the    *)
(* archipelago, and evolves none afterwards.                                   *)
CopiesEndFirst == /\ Dispose => CopiesAtRest
                  /\ \A c \in Copies : EvolveCopy(c) => stage = "open"

CopiesEnded ==
    /\ \A c \in Copies : instance[c] # None => Owned(instance[c])
    /\ stage \in {"deleting", "closing", "closed"} => CopiesAtRest

(* No callback at all reaches an instance that has been disposed, from a copy    *)
(* of an island neither.                                                       *)
NothingDisposedIsCalled == \A t \in Threads : busy[t] \notin disposed

LEMMA CopiesEndedStep ==
  LifetimeInv /\ CopiesEnded /\ [Next]_vars /\ [CopiesEndFirst]_vars => CopiesEnded'
<1> SUFFICES ASSUME LifetimeInv, CopiesEnded, [Next]_vars, [CopiesEndFirst]_vars
             PROVE  CopiesEnded'
  OBVIOUS
<1> USE SetFacts DEF LifetimeInv, OwnershipInv, TypeInv, CopiesAtRest
<1>0. \A x : Owned(x) /\ made \subseteq made' => Owned(x)'
  BY DEF Owned, Shareable, Unsafe
<1>1. ASSUME UNCHANGED <<instance, pending>>, made \subseteq made', stage' \in {"open", "pushing"}
      PROVE  CopiesEnded'
  BY <1>0, <1>1 DEF CopiesEnded
<1>2. ASSUME UNCHANGED <<instance, made, stage>>, \A c \in Copies : pending[c] = 0 => pending'[c] = 0
      PROVE  CopiesEnded'
  BY <1>0, <1>2 DEF CopiesEnded
<1>3. ASSUME PushReturns PROVE CopiesEnded'
  <2>1. \A c \in Copies : instance'[c] = instance[c]
    BY <1>3 DEF PushReturns, TypeOK, BusySound
  <2>2. stage' = "open" /\ made' = made
    BY <1>3 DEF PushReturns
  <2>. QED  BY <1>0, <2>1, <2>2 DEF CopiesEnded
<1>4. ASSUME NEW c \in Copies, NEW i \in Islands, GetIslandCopy(i, c) PROVE CopiesEnded'
  <2>1. Owned(instance[i]) /\ stage' = "open" /\ made' = made
    BY <1>4 DEF GetIslandCopy, Ownership
  <2>2. \A d \in Copies : instance'[d] = IF d = c THEN instance[i] ELSE instance[d]
    BY <1>4 DEF GetIslandCopy, TypeOK
  <2>. QED  BY <1>0, <2>1, <2>2 DEF CopiesEnded
<1>5. ASSUME NEW c \in Copies, DisposeCopy(c) PROVE CopiesEnded'
  <2>1. \A d \in Copies : instance'[d] = IF d = c THEN None ELSE instance[d]
    BY <1>5 DEF DisposeCopy, TypeOK
  <2>2. UNCHANGED <<pending, made, stage>>
    BY <1>5 DEF DisposeCopy, evolution
  <2>. QED  BY <1>0, <2>1, <2>2 DEF CopiesEnded
<1>6. ASSUME NEW c \in Copies, EvolveCopy(c) PROVE CopiesEnded'
  <2>1. pending'[c] # pending[c] /\ UNCHANGED <<instance, made, stage>>
    BY <1>6 DEF EvolveCopy, TypeOK, islands
  <2>2. stage = "open"
    BY <1>6, <2>1 DEF CopiesEndFirst, vars, evolution
  <2>. QED  BY <1>0, <2>1, <2>2 DEF CopiesEnded
<1>7. ASSUME Dispose PROVE CopiesEnded'
  <2>1. UNCHANGED <<instance, pending, made>> /\ stage' # stage
    BY <1>7 DEF Dispose, islands, evolution
  <2>2. CopiesAtRest
    BY <1>7, <2>1 DEF CopiesEndFirst, vars
  <2>. QED  BY <1>0, <2>1, <2>2 DEF CopiesEnded
<1>8. ASSUME Disposal \/ DisposeAgain PROVE CopiesEnded'
  <2>1. UNCHANGED <<instance, pending, made>> /\ stage \in {"deleting", "closing", "closed"}
    BY <1>8 DEF Disposal, NativeDeleted, CloseClone, CloseThrows, ClosingEnds, DisposeAgain,
                islands, evolution
  <2>. QED  BY <1>0, <2>1 DEF CopiesEnded
<1>9. ASSUME NEW r \in Runners, Native(r) PROVE CopiesEnded'
  <2>1. pending[r] # 0
    BY <1>9 DEF Native, StartEvolution, MigrationFails, EndEvolution, Runnable, TypeOK, BusySound
  <2>2. \A c \in Copies : pending[c] = 0 => pending'[c] = 0
    BY <1>9, <2>1 DEF Native, StartEvolution, MigrationFails, EndEvolution, TypeOK
  <2>. QED  BY <1>2, <1>9, <2>2 DEF Native, StartEvolution, MigrationFails, EndEvolution, islands
<1>10. ASSUME Evolve PROVE CopiesEnded'
  <2>1. \A c \in Copies : pending'[c] = pending[c]
    BY <1>10 DEF Evolve, Present
  <2>. QED  BY <1>2, <1>10, <2>1 DEF Evolve, islands
<1>11. ASSUME NEW p \in Problems, PushBack(p) PROVE CopiesEnded'
  BY <1>1, <1>11 DEF PushBack, islands, evolution
<1>12. ASSUME PushThrows \/ SetTopology \/ SetUnconnected \/ WaitCheck PROVE CopiesEnded'
  BY <1>1, <1>12 DEF PushThrows, SetTopology, SetUnconnected, WaitCheck, islands, evolution
<1>13. ASSUME (\E p \in Problems : CallerDisposes(p))
              \/ (\E t \in Pushers : EvaluateInitial(t) \/ InitialEvaluated(t))
              \/ UNCHANGED vars
       PROVE  CopiesEnded'
  BY <1>2, <1>13 DEF CallerDisposes, EvaluateInitial, InitialEvaluated, vars, islands, evolution
<1>. QED
  BY <1>3, <1>4, <1>5, <1>6, <1>7, <1>8, <1>9, <1>10, <1>11, <1>12, <1>13 DEF Next

(* How long a copy of an island may be used, which nothing says: if its evolutions *)
(* end before the archipelago is disposed, no disposed instance is ever called.    *)
THEOREM CopiesSafeIfEnded ==
    Spec /\ [][CopiesEndFirst]_vars => []NothingDisposedIsCalled
<1>1. Init => CopiesEnded
  BY SetFacts DEF Init, CopiesEnded
<1>2. LifetimeInv /\ CopiesEnded /\ NoUseAfterDispose => NothingDisposedIsCalled
  <2> SUFFICES ASSUME LifetimeInv, CopiesEnded, NoUseAfterDispose,
                      NEW t \in Threads, busy[t] \in disposed
               PROVE  FALSE
    BY DEF NothingDisposedIsCalled
  <2> USE SetFacts DEF LifetimeInv, OwnershipInv, TypeInv
  <2>1. t \in Copies
    BY DEF NoUseAfterDispose, OwnThreads
  <2>2. busy[t] # None
    BY DEF TypeOK
  <2>3. busy[t] = instance[t] /\ pending[t] # 0 /\ Owned(busy[t])
    BY <2>1, <2>2 DEF BusySound, CopiesEnded
  <2>4. stage \in {"open", "pushing", "deleting"}
    BY <2>1, <2>3 DEF CopiesEnded, CopiesAtRest, TypeOK
  <2>. QED  BY <2>3, <2>4 DEF Lifetime, Owned, Shareable, TypeOK
<1>. QED
  BY <1>1, <1>2, CopiesEndedStep, NoUseAfterDisposeHolds, LifetimeInit, LifetimeStep, PTL DEF Spec
=============================================================================
