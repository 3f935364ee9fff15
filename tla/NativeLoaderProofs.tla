-------------------------- MODULE NativeLoaderProofs --------------------------
(***************************************************************************)
(* LoadedOnceFromFirst and AllThatLinkIsLinked for any number of threads,     *)
(* class path roots and libraries, whatever they import; and the passes over  *)
(* the siblings end.  What is loaded is always in the least closed set, since  *)
(* its imports were loaded before it; and when a pass ends in which nothing    *)
(* linked, what is loaded is closed.                                         *)
(***************************************************************************)
EXTENDS NativeLoader, FiniteSetTheorems, SequenceTheorems, TLAPS

Bundling == {"extract", "preload", "load"}
Inside == {"directory", "path"} \cup Bundling
JarSteps == {"idle", "waiting", "returned", "failed"} \cup Inside

RootsBelow(n) == UNION {setup.roots[k] : k \in {i \in DOMAIN setup.roots : i < n}}

InRoots == RootsBelow(Len(setup.roots) + 1)

(* What one extraction gives, and the siblings in it.                         *)
Bundle == IF InRoots = {} /\ setup.resource THEN {Wrapper} ELSE InRoots

Companions == Bundle \ {Wrapper}

JarTyped ==
    /\ setup \in JarSetupType
    /\ jarPc \in [JarThreads -> JarSteps]
    /\ jarLock \in JarThreads \cup {NoJarThread}
    /\ jarLoaded \in BOOLEAN
    /\ root \in Nat \ {0}
    /\ at \in Nat \ {0}
    /\ progress \in BOOLEAN
    /\ pending \in Seq(Companions)

(* Whoever is inside load() has the monitor, found nothing loaded, and has      *)
(* ruled out the places before the one it looks in.                            *)
Monitor ==
    /\ \A t \in JarThreads :
          /\ jarPc[t] \in Inside <=> jarLock = t
          /\ jarPc[t] \in Inside => ~jarLoaded
          /\ jarPc[t] \in Inside \ {"directory"} => setup.directory = "unset"
          /\ jarPc[t] \in Bundling => ~setup.onPath
          /\ jarPc[t] = "returned" => jarLoaded
    /\ loads = IF jarLoaded THEN <<FirstPlace>> ELSE <<>>

Extraction ==
    \A t \in JarThreads :
        /\ jarPc[t] = "extract" => /\ root <= Len(setup.roots) + 1
                                   /\ extracted = RootsBelow(root)
        /\ jarPc[t] \in {"preload", "load"} => extracted = Bundle

IsPending(f) == \E k \in 1..Len(pending) : pending[k] = f

(* What could link is loaded or still listed, and a pass that has loaded        *)
(* nothing so far has passed over what cannot link.                            *)
Passes ==
    /\ linked \subseteq Linkable(Companions)
    /\ ~setup.windows => pending = <<>>
    /\ \A t \in JarThreads : jarPc[t] = "preload" => at <= Len(pending) + 1
    /\ \A t \in JarThreads : setup.windows =>
          /\ jarPc[t] = "preload" =>
                /\ \A f \in Companions \ linked : IsPending(f)
                /\ ~progress => \A k \in 1..Len(pending) : k < at => ~Links(pending[k])
          /\ jarPc[t] = "load" => \A f \in Companions \ linked : ~Links(f)

JarInv == JarTyped /\ Monitor /\ Extraction /\ Passes
-----------------------------------------------------------------------------
(* What links into loadable libraries is loadable.                             *)
LEMMA LinksIntoLinkable ==
    ASSUME NEW S, NEW f \in S, setup.imports[f] \subseteq Linkable(S)
    PROVE  f \in Linkable(S)
<1>1. ASSUME NEW T \in SUBSET S, ClosedUnderLinking(S, T) PROVE f \in T
  <2>1. Linkable(S) \subseteq T
    BY <1>1 DEF Linkable
  <2>. QED  BY <1>1, <2>1 DEF ClosedUnderLinking
<1>. QED  BY <1>1 DEF Linkable

LEMMA LinkableIsLeast ==
    ASSUME NEW S, NEW T \in SUBSET S, ClosedUnderLinking(S, T)
    PROVE  Linkable(S) \subseteq T
BY DEF Linkable

(* Removing element i moves the later ones forward.                            *)
LEMMA Removal ==
    ASSUME NEW S, NEW s \in Seq(S), NEW i \in 1..Len(s)
    PROVE  /\ RemoveAt(s, i) \in Seq(S)
           /\ Len(RemoveAt(s, i)) = Len(s) - 1
           /\ \A k \in 1..(Len(s) - 1) :
                 RemoveAt(s, i)[k] = IF k < i THEN s[k] ELSE s[k + 1]
<1>. DEFINE before == SubSeq(s, 1, i - 1)
            after == SubSeq(s, i + 1, Len(s))
<1>1. Len(s) \in Nat /\ \A k \in 1..Len(s) : s[k] \in S
  OBVIOUS
<1>2. /\ before \in Seq(S) /\ Len(before) = i - 1
      /\ \A k \in 1..(i - 1) : before[k] = s[k]
  BY <1>1, SubSeqProperties, Z3
<1>3. /\ after \in Seq(S) /\ Len(after) = Len(s) - i
      /\ \A k \in 1..(Len(s) - i) : after[k] = s[i + k]
  BY <1>1, SubSeqProperties, Z3
<1>4. RemoveAt(s, i) = before \o after
  BY DEF RemoveAt
<1>. HIDE DEF before, after
<1>5. /\ before \o after \in Seq(S)
      /\ Len(before \o after) = Len(before) + Len(after)
      /\ \A k \in 1..(Len(before) + Len(after)) : (before \o after)[k] =
            IF k <= Len(before) THEN before[k] ELSE after[k - Len(before)]
  BY <1>2, <1>3, ConcatProperties, Zenon
<1>6. Len(before) + Len(after) = Len(s) - 1
  BY <1>1, <1>2, <1>3
<1>7. ASSUME NEW k \in 1..(Len(s) - 1)
      PROVE  (before \o after)[k] = IF k < i THEN s[k] ELSE s[k + 1]
  <2>1. (before \o after)[k] = IF k <= i - 1 THEN before[k] ELSE after[k - (i - 1)]
    BY <1>2, <1>5, <1>6
  <2>2. CASE k < i
    BY <1>1, <1>2, <2>1, <2>2
  <2>3. CASE ~(k < i)
    <3>1. k - (i - 1) \in 1..(Len(s) - i) /\ i + (k - (i - 1)) = k + 1
      BY <1>1, <2>3
    <3>. QED  BY <1>1, <1>3, <2>1, <2>3, <3>1
  <2>. QED  BY <2>2, <2>3
<1>. QED  BY <1>4, <1>5, <1>6, <1>7

(* Every listing of a finite set has each of its elements.                     *)
LEMMA Listing ==
    ASSUME NEW S, IsFiniteSet(S), NEW q \in SetToSeqs(S)
    PROVE  q \in Seq(S) /\ \A f \in S : \E k \in 1..Len(q) : q[k] = f
<1>1. Cardinality(S) \in Nat
  BY FS_CardinalityType
<1>2. /\ q \in [1..Cardinality(S) -> S]
      /\ \A i, j \in 1..Cardinality(S) : i # j => q[i] # q[j]
  BY DEF SetToSeqs
<1>3. q \in Seq(S) /\ Len(q) = Cardinality(S)
  BY <1>1, <1>2
<1>4. q \in Injection(1..Cardinality(S), S)
  BY <1>2 DEF Injection, IsInjective
<1>5. Cardinality(1..Cardinality(S)) = Cardinality(S)
  BY <1>1, FS_Interval
<1>6. q \in Surjection(1..Cardinality(S), S)
  BY <1>4, <1>5, FS_Injection, Zenon
<1>. QED  BY <1>3, <1>6 DEF Surjection

LEMMA BundleTyped ==
    ASSUME setup \in JarSetupType
    PROVE  /\ Len(setup.roots) \in Nat
           /\ DOMAIN setup.roots = 1..Len(setup.roots)
           /\ Bundle \subseteq Files
           /\ IsFiniteSet(Companions)
<1>1. setup.roots \in Seq(SUBSET Files)
  BY DEF JarSetupType
<1>2. Len(setup.roots) \in Nat /\ DOMAIN setup.roots = 1..Len(setup.roots)
  BY <1>1
<1>3. \A k \in DOMAIN setup.roots : setup.roots[k] \subseteq Files
  BY <1>1, <1>2
<1>4. Bundle \subseteq Files
  BY <1>3 DEF Bundle, InRoots, RootsBelow, Files
<1>5. Companions \in SUBSET Siblings
  BY <1>4 DEF Companions, Files
<1>6. IsFiniteSet(Companions)
  BY <1>5, JarAssumption, FS_Subset
<1>. QED  BY <1>2, <1>4, <1>6

(* What depends on the environment alone does not change.                      *)
LEMMA SetupFixed ==
    ASSUME setup' = setup
    PROVE  /\ Bundle' = Bundle
           /\ Companions' = Companions
           /\ Linkable(Companions)' = Linkable(Companions)
           /\ FirstPlace' = FirstPlace
BY DEF Bundle, Companions, InRoots, RootsBelow, Linkable, ClosedUnderLinking, FirstPlace
-----------------------------------------------------------------------------
LEMMA JarInitial == JarInit => JarInv
<1>. SUFFICES ASSUME JarInit PROVE JarInv
  OBVIOUS
<1>1. setup \in JarSetupType /\ NoJarThread \notin JarThreads
  BY JarAssumption DEF JarInit
<1>2. JarTyped
  <2>1. pending = <<>> /\ pending \in Seq(Companions)
    BY DEF JarInit
  <2>2. jarPc \in [JarThreads -> JarSteps]
    BY DEF JarInit, JarSteps
  <2>3. root \in Nat \ {0} /\ at \in Nat \ {0}
    BY DEF JarInit
  <2>4. jarLoaded \in BOOLEAN /\ progress \in BOOLEAN /\ jarLock = NoJarThread
    BY DEF JarInit
  <2>. QED  BY <1>1, <2>1, <2>2, <2>3, <2>4, Zenon DEF JarTyped
<1>3. Monitor
  BY <1>1 DEF JarInit, Monitor, Inside, Bundling
<1>4. Extraction /\ Passes
  BY DEF JarInit, Extraction, Passes
<1>. QED  BY <1>2, <1>3, <1>4 DEF JarInv

(* One thread at most is inside load().                                        *)
LEMMA OneInside ==
    ASSUME Monitor, NEW t \in JarThreads, NEW u \in JarThreads,
           jarPc[t] \in Inside, jarPc[u] \in Inside
    PROVE  t = u
BY DEF Monitor

(* A step of t outside the bundle that moves it to a place that is not there.   *)
LEMMA OutsideBundle ==
    ASSUME JarInv, NEW t \in JarThreads, NEW step,
           jarPc' = [jarPc EXCEPT ![t] = step],
           step \notin Bundling, UNCHANGED <<setup, bundleVars>>
    PROVE  Extraction' /\ Passes'
<1>1. \A u \in JarThreads : jarPc'[u] \in Bundling => jarPc'[u] = jarPc[u]
  BY DEF JarInv, JarTyped
<1>2. Extraction'
  BY <1>1, SetupFixed DEF JarInv, Extraction, Bundling, bundleVars, RootsBelow
<1>3. Passes'
  BY <1>1, SetupFixed DEF JarInv, Passes, Bundling, bundleVars, IsPending, Links
<1>. QED  BY <1>2, <1>3

LEMMA EntryKeeps ==
    ASSUME JarInv, NEW t \in JarThreads, JarCall(t) \/ JarEnter(t)
    PROVE  JarInv'
<1>1. PICK step \in {"waiting", "returned", "directory"} :
          jarPc' = [jarPc EXCEPT ![t] = step]
  BY DEF JarCall, JarEnter, Leaves
<1>2. UNCHANGED <<setup, jarLoaded, loads, bundleVars>>
  BY DEF JarCall, JarEnter
<1>3. Companions' = Companions /\ FirstPlace' = FirstPlace
  BY <1>2, SetupFixed
<1>4. JarTyped'
  <2>1. jarLock' \in JarThreads \cup {NoJarThread}
    BY DEF JarInv, JarTyped, JarCall, JarEnter, Leaves
  <2>. QED  BY <1>1, <1>2, <1>3, <2>1 DEF JarInv, JarTyped, JarSteps, Inside, bundleVars
<1>5. Monitor'
  <2>1. CASE JarCall(t)
    <3>1. jarPc[t] \notin Inside /\ jarPc' = [jarPc EXCEPT ![t] = "waiting"] /\ jarLock' = jarLock
      BY <2>1 DEF JarCall, Inside, Bundling
    <3>. QED  BY <1>2, <1>3, <3>1 DEF JarInv, JarTyped, Monitor, Inside, Bundling
  <2>2. CASE JarEnter(t)
    <3>1. jarPc[t] = "waiting" /\ jarLock = NoJarThread /\ NoJarThread \notin JarThreads
      BY <2>2, JarAssumption DEF JarEnter
    <3>2. \A u \in JarThreads : jarPc[u] \notin Inside
      BY <3>1 DEF JarInv, Monitor
    <3>3. IF jarLoaded
            THEN jarPc' = [jarPc EXCEPT ![t] = "returned"] /\ jarLock' = NoJarThread
            ELSE jarPc' = [jarPc EXCEPT ![t] = "directory"] /\ jarLock' = t
      BY <2>2 DEF JarEnter, Leaves
    <3>. QED  BY <1>2, <1>3, <3>1, <3>2, <3>3
              DEF JarInv, JarTyped, Monitor, Inside, Bundling
  <2>. QED  BY <2>1, <2>2
<1>6. Extraction' /\ Passes'
  BY <1>1, <1>2, OutsideBundle DEF Bundling
<1>. QED  BY <1>4, <1>5, <1>6 DEF JarInv

(* Leaving load(): from the first place there is, or having found nothing.       *)
LEMMA LeavingKeeps ==
    ASSUME JarInv, NEW t \in JarThreads, jarPc[t] \in Inside, setup' = setup,
           \/ LoadedFrom(t, FirstPlace)
           \/ Leaves(t, "failed") /\ UNCHANGED <<jarLoaded, loads>>
    PROVE  Monitor' /\ jarPc' \in [JarThreads -> JarSteps]
           /\ jarLock' \in JarThreads \cup {NoJarThread} /\ jarLoaded' \in BOOLEAN
<1>1. FirstPlace' = FirstPlace
  BY SetupFixed
<1>2. NoJarThread \notin JarThreads /\ jarLoaded = FALSE /\ jarLock = t /\ loads = <<>>
  BY JarAssumption DEF JarInv, JarTyped, Monitor
<1>3. \A u \in JarThreads \ {t} : jarPc[u] \notin Inside
  BY <1>2 DEF JarInv, Monitor
<1>4. PICK how \in {"returned", "failed"} :
         /\ jarPc' = [jarPc EXCEPT ![t] = how]
         /\ jarLock' = NoJarThread
         /\ how = "returned" => jarLoaded' = TRUE
         /\ loads' = IF jarLoaded' THEN <<FirstPlace>> ELSE <<>>
         /\ jarLoaded' \in BOOLEAN
  <2>1. CASE LoadedFrom(t, FirstPlace)
    BY <1>2, <2>1 DEF LoadedFrom, Leaves
  <2>2. CASE Leaves(t, "failed") /\ UNCHANGED <<jarLoaded, loads>>
    BY <1>2, <2>2 DEF Leaves
  <2>. QED  BY <2>1, <2>2
<1>5. \A u \in JarThreads : jarPc'[u] \notin Inside /\ jarLock' # u
  BY <1>2, <1>3, <1>4 DEF JarInv, JarTyped, Inside, Bundling
<1>6. \A u \in JarThreads : jarPc'[u] = "returned" => jarLoaded'
  BY <1>2, <1>4 DEF JarInv, JarTyped, Monitor
<1>7. Monitor'
  BY <1>1, <1>4, <1>5, <1>6 DEF Monitor, Bundling, Inside
<1>. QED  BY <1>4, <1>7 DEF JarInv, JarTyped, JarSteps

LEMMA LoadFromDirectoryKeeps ==
    ASSUME JarInv, NEW t \in JarThreads, LoadFromDirectory(t)
    PROVE  JarInv'
<1>1. setup.directory \in {"unset", "good", "bad"}
  BY DEF JarInv, JarTyped, JarSetupType
<1>2. jarPc[t] = "directory" /\ jarPc[t] \in Inside /\ UNCHANGED <<setup, bundleVars>>
  BY <1>1 DEF LoadFromDirectory, JarGoto, Leaves, Inside
<1>3. Companions' = Companions /\ FirstPlace' = FirstPlace
  BY <1>2, SetupFixed
<1>4. PICK step \in {"path", "returned", "failed"} : jarPc' = [jarPc EXCEPT ![t] = step]
  BY <1>1 DEF LoadFromDirectory, JarGoto, LoadedFrom, Leaves
<1>5. Extraction' /\ Passes'
  BY <1>2, <1>4, OutsideBundle DEF Bundling
<1>6. Monitor' /\ JarTyped'
  <2>1. CASE setup.directory = "unset"
    <3>1. /\ jarPc' = [jarPc EXCEPT ![t] = "path"]
          /\ UNCHANGED <<setup, jarLock, jarLoaded, loads>>
      BY <2>1 DEF LoadFromDirectory, JarGoto
    <3>2. Monitor'
      BY <1>2, <1>3, <2>1, <3>1 DEF JarInv, JarTyped, Monitor, Inside, Bundling
    <3>. QED  BY <1>2, <1>3, <3>1, <3>2 DEF JarInv, JarTyped, JarSteps, Inside, bundleVars
  <2>2. CASE setup.directory # "unset"
    <3>1. \/ LoadedFrom(t, FirstPlace)
          \/ Leaves(t, "failed") /\ UNCHANGED <<jarLoaded, loads>>
      BY <1>1, <2>2 DEF LoadFromDirectory, FirstPlace
    <3>. QED  BY <1>2, <1>3, <3>1, LeavingKeeps DEF JarInv, JarTyped, bundleVars
  <2>. QED  BY <2>1, <2>2
<1>. QED  BY <1>5, <1>6 DEF JarInv

LEMMA LoadFromPathKeeps ==
    ASSUME JarInv, NEW t \in JarThreads, LoadFromPath(t)
    PROVE  JarInv'
<1>1. /\ jarPc[t] = "path" /\ jarPc[t] \in Inside /\ setup' = setup
      /\ setup.directory = "unset" /\ setup.onPath \in BOOLEAN
      /\ Len(setup.roots) \in Nat
  BY BundleTyped DEF LoadFromPath, JarGoto, Inside, JarInv, JarTyped, Monitor, JarSetupType
<1>2. Companions' = Companions /\ FirstPlace' = FirstPlace
  BY <1>1, SetupFixed
<1>3. CASE setup.onPath
  <2>1. LoadedFrom(t, FirstPlace) /\ UNCHANGED bundleVars
    BY <1>1, <1>3 DEF LoadFromPath, FirstPlace
  <2>2. jarPc' = [jarPc EXCEPT ![t] = "returned"]
    BY <2>1 DEF LoadedFrom, Leaves
  <2>3. Extraction' /\ Passes'
    BY <1>1, <2>1, <2>2, OutsideBundle DEF Bundling
  <2>. QED  BY <1>1, <1>2, <2>1, <2>3, LeavingKeeps DEF JarInv, JarTyped, bundleVars
<1>4. CASE ~setup.onPath
  <2>1. /\ jarPc' = [jarPc EXCEPT ![t] = "extract"]
        /\ extracted' = {} /\ root' = 1
        /\ UNCHANGED <<setup, jarLock, jarLoaded, loads, pending, at, progress, linked>>
    BY <1>4 DEF LoadFromPath, JarGoto
  <2>2. JarTyped'
    BY <1>2, <2>1 DEF JarInv, JarTyped, JarSteps, Inside, Bundling
  <2>3. Monitor'
    BY <1>1, <1>2, <1>4, <2>1 DEF JarInv, JarTyped, Monitor, Inside, Bundling
  <2>4. \A u \in JarThreads : jarPc'[u] \in {"preload", "load"} => FALSE
    BY <1>1, <2>1, OneInside DEF JarInv, JarTyped, Inside, Bundling
  <2>5. Extraction'
    <3>1. RootsBelow(1) = {}
      BY BundleTyped DEF RootsBelow, JarInv, JarTyped
    <3>. QED  BY <1>1, <2>1, <2>4, <3>1 DEF Extraction, RootsBelow
  <2>6. Passes'
    BY <1>1, <2>1, <2>4, SetupFixed DEF JarInv, Passes
  <2>. QED  BY <2>2, <2>3, <2>5, <2>6 DEF JarInv
<1>. QED  BY <1>1, <1>3, <1>4

LEMMA ExtractRootKeeps ==
    ASSUME JarInv, NEW t \in JarThreads, ExtractRoot(t)
    PROVE  JarInv'
<1>1. /\ jarPc[t] = "extract" /\ root <= Len(setup.roots) /\ root \in Nat \ {0}
      /\ extracted' = extracted \cup setup.roots[root] /\ root' = root + 1
      /\ UNCHANGED <<setup, jarPc, jarLock, jarLoaded, loads, pending, at, progress, linked>>
      /\ extracted = RootsBelow(root)
      /\ Len(setup.roots) \in Nat /\ DOMAIN setup.roots = 1..Len(setup.roots)
  BY BundleTyped DEF ExtractRoot, JarInv, JarTyped, Extraction
<1>2. Companions' = Companions /\ FirstPlace' = FirstPlace
  BY <1>1, SetupFixed
<1>3. JarTyped' /\ Monitor'
  BY <1>1, <1>2 DEF JarInv, JarTyped, Monitor
<1>4. \A u \in JarThreads : jarPc[u] \in {"preload", "load"} => FALSE
  BY <1>1, OneInside DEF JarInv, JarTyped, Inside, Bundling
<1>5. Extraction'
  <2>1. \A e : e \in RootsBelow(root + 1) <=> e \in RootsBelow(root) \cup setup.roots[root]
    <3>1. \A k \in 1..Len(setup.roots) : k < root + 1 <=> k < root \/ k = root
      BY <1>1
    <3>. QED  BY <1>1, <3>1 DEF RootsBelow
  <2>2. extracted' = RootsBelow(root)' /\ root' <= Len(setup.roots) + 1
    BY <1>1, <2>1 DEF RootsBelow
  <2>. QED  BY <1>1, <1>4, <2>2 DEF Extraction
<1>6. Passes'
  BY <1>1, <1>4, SetupFixed DEF JarInv, Passes
<1>. QED  BY <1>3, <1>5, <1>6 DEF JarInv

LEMMA ExtractedKeeps ==
    ASSUME JarInv, NEW t \in JarThreads, Extracted(t)
    PROVE  JarInv'
<1>1. /\ jarPc[t] = "extract" /\ jarPc[t] \in Inside
      /\ root > Len(setup.roots) /\ root \in Nat /\ Len(setup.roots) \in Nat
      /\ root <= Len(setup.roots) + 1 /\ extracted = RootsBelow(root)
      /\ UNCHANGED <<root, linked, setup>>
  BY BundleTyped DEF Extracted, JarGoto, JarInv, JarTyped, Extraction, Inside, Bundling
<1>2. Bundle' = Bundle /\ Companions' = Companions /\ FirstPlace' = FirstPlace
      /\ Linkable(Companions)' = Linkable(Companions)
  BY <1>1, SetupFixed
<1>3. root = Len(setup.roots) + 1
  BY <1>1
<1>4. Bundle = IF extracted = {} /\ setup.resource THEN {Wrapper} ELSE extracted
  BY <1>1, <1>3 DEF Bundle, InRoots
<1>5. /\ extracted' = Bundle
      /\ IF Wrapper \notin Bundle
           THEN /\ Leaves(t, "failed")
                /\ UNCHANGED <<setup, jarLoaded, loads, jarCalls, pending, at, progress>>
           ELSE /\ JarGoto(t, "preload")
                /\ pending' \in IF setup.windows THEN SetToSeqs(Companions) ELSE {<<>>}
                /\ at' = 1 /\ progress' = FALSE
  BY <1>4 DEF Extracted, Companions
<1>6. \A u \in JarThreads : jarPc'[u] \in Bundling => u = t /\ jarPc'[u] = "preload"
                                                   /\ Wrapper \in Bundle
  BY <1>1, <1>5, OneInside DEF Leaves, JarGoto, JarInv, JarTyped, Inside, Bundling
<1>7. Extraction'
  BY <1>2, <1>5, <1>6 DEF Extraction, Bundling
<1>8. CASE Wrapper \notin Bundle
  <2>1. JarTyped' /\ Monitor'
    BY <1>1, <1>2, <1>5, <1>8, LeavingKeeps DEF JarInv, JarTyped
  <2>2. Passes'
    BY <1>1, <1>2, <1>5, <1>6, <1>8 DEF JarInv, Passes, Bundling
  <2>. QED  BY <1>7, <2>1, <2>2 DEF JarInv
<1>9. CASE Wrapper \in Bundle
  <2>1. /\ jarPc' = [jarPc EXCEPT ![t] = "preload"]
        /\ UNCHANGED <<setup, jarLock, jarLoaded, loads>>
    BY <1>5, <1>9 DEF JarGoto
  <2>2. Monitor'
    BY <1>1, <1>2, <2>1 DEF JarInv, JarTyped, Monitor, Inside, Bundling
  <2>3. pending' \in Seq(Companions)
        /\ (setup.windows => \A f \in Companions : \E k \in 1..Len(pending') : pending'[k] = f)
    <3>1. CASE setup.windows
      BY <1>5, <1>9, <3>1, BundleTyped, Listing DEF JarInv, JarTyped
    <3>2. CASE ~setup.windows
      <4>1. pending' = <<>>
        BY <1>5, <1>9, <3>2
      <4>. QED  BY <3>2, <4>1
    <3>. QED  BY <3>1, <3>2
  <2>4. at' = 1 /\ progress' = FALSE /\ (~setup.windows => pending' = <<>>)
        /\ Len(pending') \in Nat
    BY <1>5, <1>9, <2>3
  <2>5. JarTyped'
    <3>1. at' \in Nat \ {0} /\ root' \in Nat \ {0}
      BY <1>1, <2>4 DEF JarInv, JarTyped
    <3>2. progress' \in BOOLEAN
      BY <2>4
    <3>3. jarPc' \in [JarThreads -> JarSteps]
      BY <2>1 DEF JarInv, JarTyped, JarSteps, Inside, Bundling
    <3>. QED  BY <1>1, <1>2, <2>1, <2>3, <3>1, <3>2, <3>3 DEF JarInv, JarTyped
  <2>6. Passes'
    BY <1>1, <1>2, <1>6, <2>3, <2>4 DEF JarInv, Passes, IsPending, Bundling
  <2>. QED  BY <1>7, <2>2, <2>5, <2>6 DEF JarInv
<1>. QED  BY <1>8, <1>9

LEMMA PreloadNextKeeps ==
    ASSUME JarInv, NEW t \in JarThreads, PreloadNext(t)
    PROVE  JarInv'
<1>1. /\ jarPc[t] = "preload" /\ jarPc[t] \in Inside
      /\ at <= Len(pending) /\ at \in 1..Len(pending) /\ Len(pending) \in Nat
      /\ pending \in Seq(Companions) /\ pending[at] \in Companions
      /\ UNCHANGED <<setup, jarPc, jarLock, jarLoaded, loads, extracted, root, jarCalls>>
  BY DEF PreloadNext, JarInv, JarTyped, Inside, Bundling
<1>2. Bundle' = Bundle /\ Companions' = Companions /\ FirstPlace' = FirstPlace
      /\ Linkable(Companions)' = Linkable(Companions)
  BY <1>1, SetupFixed
<1>3. setup.windows
  BY <1>1 DEF JarInv, Passes
<1>4. \A u \in JarThreads : jarPc[u] \in Bundling => u = t
  BY <1>1, OneInside DEF JarInv, Inside
<1>5. Monitor' /\ Extraction'
  BY <1>1, <1>2, SetupFixed DEF JarInv, Monitor, Extraction, RootsBelow
<1>6. CASE Links(pending[at])
  <2>1. /\ linked' = linked \cup {pending[at]}
        /\ pending' = RemoveAt(pending, at) /\ progress' = TRUE /\ at' = at
    BY <1>6 DEF PreloadNext
  <2>2. /\ pending' \in Seq(Companions) /\ Len(pending') = Len(pending) - 1
        /\ \A k \in 1..(Len(pending) - 1) :
              pending'[k] = IF k < at THEN pending[k] ELSE pending[k + 1]
    BY <1>1, <2>1, Removal
  <2>3. JarTyped'
    BY <1>1, <1>2, <2>1, <2>2 DEF JarInv, JarTyped
  <2>4. linked' \subseteq Linkable(Companions)
    <3>1. setup.imports[pending[at]] \subseteq Linkable(Companions)
      BY <1>3, <1>6 DEF Links, JarInv, Passes
    <3>2. pending[at] \in Linkable(Companions)
      BY <1>1, <3>1, LinksIntoLinkable
    <3>. QED  BY <2>1, <3>2 DEF JarInv, Passes
  <2>5. ASSUME NEW f \in Companions \ linked' PROVE IsPending(f)'
    <3>1. f \in Companions \ linked /\ f # pending[at]
      BY <2>1, <2>5
    <3>2. PICK k \in 1..Len(pending) : pending[k] = f
      BY <1>1, <1>3, <3>1 DEF JarInv, Passes, IsPending
    <3>3. k # at
      BY <3>1, <3>2
    <3>4. CASE k < at
      <4>1. k \in 1..(Len(pending) - 1) /\ pending'[k] = f
        BY <1>1, <2>2, <3>2, <3>4
      <4>. QED  BY <2>2, <4>1 DEF IsPending
    <3>5. CASE ~(k < at)
      <4>1. k - 1 \in 1..(Len(pending) - 1) /\ ~(k - 1 < at) /\ (k - 1) + 1 = k
        BY <1>1, <3>2, <3>3, <3>5
      <4>2. pending'[k - 1] = f
        BY <2>2, <3>2, <4>1
      <4>. QED  BY <2>2, <4>1, <4>2 DEF IsPending
    <3>. QED  BY <3>4, <3>5
  <2>6. at' <= Len(pending') + 1
    BY <1>1, <2>1, <2>2
  <2>7. Passes'
    BY <1>1, <1>2, <1>3, <1>4, <2>1, <2>4, <2>5, <2>6 DEF Passes, Bundling
  <2>. QED  BY <1>5, <2>3, <2>7 DEF JarInv
<1>7. CASE ~Links(pending[at])
  <2>1. at' = at + 1 /\ UNCHANGED <<linked, pending, progress>>
    BY <1>7 DEF PreloadNext
  <2>2. JarTyped'
    BY <1>1, <1>2, <2>1 DEF JarInv, JarTyped
  <2>3. \A k \in 1..Len(pending) : k < at + 1 <=> k < at \/ k = at
    BY <1>1
  <2>4. at' <= Len(pending') + 1
    BY <1>1, <2>1
  <2>5. \A f \in Companions \ linked : IsPending(f)'
    BY <1>1, <1>3, <2>1 DEF JarInv, Passes, IsPending
  <2>6. ~progress' => \A k \in 1..Len(pending') : k < at' => ~Links(pending[k])'
    BY <1>1, <1>3, <1>7, <2>1, <2>3 DEF JarInv, Passes, Links
  <2>7. Passes'
    BY <1>1, <1>2, <1>3, <1>4, <2>1, <2>4, <2>5, <2>6 DEF JarInv, Passes, Bundling
  <2>. QED  BY <1>5, <2>2, <2>7 DEF JarInv
<1>. QED  BY <1>6, <1>7

LEMMA PassEndsKeeps ==
    ASSUME JarInv, NEW t \in JarThreads, PassEnds(t)
    PROVE  JarInv'
<1>1. /\ jarPc[t] = "preload" /\ jarPc[t] \in Inside
      /\ at > Len(pending) /\ at \in Nat /\ Len(pending) \in Nat
      /\ UNCHANGED <<setup, jarLock, jarLoaded, loads, extracted, root, pending, linked>>
  BY DEF PassEnds, JarGoto, JarInv, JarTyped, Inside, Bundling
<1>2. Bundle' = Bundle /\ Companions' = Companions /\ FirstPlace' = FirstPlace
      /\ Linkable(Companions)' = Linkable(Companions)
  BY <1>1, SetupFixed
<1>3. \A u \in JarThreads : jarPc[u] \in Bundling => u = t
  BY <1>1, OneInside DEF JarInv, Inside
<1>4. CASE progress /\ pending # <<>>
  <2>1. at' = 1 /\ progress' = FALSE /\ jarPc' = jarPc
    BY <1>4 DEF PassEnds
  <2>2. JarTyped'
    <3>1. at' \in Nat \ {0}
      BY <2>1
    <3>2. progress' \in BOOLEAN
      BY <2>1
    <3>. QED  BY <1>1, <1>2, <2>1, <3>1, <3>2 DEF JarInv, JarTyped
  <2>3. Monitor' /\ Extraction'
    BY <1>1, <1>2, <2>1, SetupFixed DEF JarInv, Monitor, Extraction, RootsBelow
  <2>4. at' <= Len(pending') + 1 /\ \A k \in 1..Len(pending') : ~(k < at')
    BY <1>1, <2>1
  <2>5. Passes'
    BY <1>1, <1>2, <1>3, <2>1, <2>4 DEF JarInv, Passes, IsPending, Bundling
  <2>. QED  BY <2>2, <2>3, <2>5 DEF JarInv
<1>5. CASE ~(progress /\ pending # <<>>)
  <2>1. jarPc' = [jarPc EXCEPT ![t] = "load"] /\ UNCHANGED <<at, progress>>
    BY <1>5 DEF PassEnds, JarGoto
  <2>2. JarTyped' /\ Monitor'
    BY <1>1, <1>2, <2>1 DEF JarInv, JarTyped, JarSteps, Monitor, Inside, Bundling
  <2>3. \A u \in JarThreads : jarPc'[u] \in Bundling => u = t /\ jarPc'[u] = "load"
    BY <1>3, <2>1 DEF JarInv, JarTyped, Bundling
  <2>4. Extraction'
    BY <1>1, <1>2, <2>3 DEF JarInv, Extraction, Bundling
  <2>5. ASSUME setup.windows, NEW f \in Companions \ linked PROVE ~Links(f)
    <3>1. PICK k \in 1..Len(pending) : pending[k] = f
      BY <1>1, <2>5 DEF JarInv, Passes, IsPending
    <3>2. pending # <<>> /\ k < at
      BY <1>1, <3>1
    <3>. QED  BY <1>1, <1>5, <2>5, <3>1, <3>2 DEF JarInv, Passes
  <2>6. Passes'
    BY <1>1, <1>2, <2>3, <2>5 DEF JarInv, Passes, Links, Bundling
  <2>. QED  BY <2>2, <2>4, <2>6 DEF JarInv
<1>. QED  BY <1>4, <1>5

LEMMA ExtractFailsKeeps ==
    ASSUME JarInv, NEW t \in JarThreads, ExtractFails(t)
    PROVE  JarInv'
<1>1. /\ jarPc[t] \in Inside
      /\ UNCHANGED <<setup, bundleVars>>
      /\ Leaves(t, "failed") /\ UNCHANGED <<jarLoaded, loads>>
  BY DEF ExtractFails, Inside, Bundling
<1>2. Companions' = Companions
  BY <1>1, SetupFixed
<1>3. JarTyped' /\ Monitor'
  BY <1>1, <1>2, LeavingKeeps DEF JarInv, JarTyped, bundleVars
<1>4. Extraction' /\ Passes'
  BY <1>1, OutsideBundle DEF Leaves, Bundling
<1>. QED  BY <1>3, <1>4 DEF JarInv

LEMMA LoadBundledKeeps ==
    ASSUME JarInv, NEW t \in JarThreads, LoadBundled(t)
    PROVE  JarInv'
<1>1. /\ jarPc[t] = "load" /\ jarPc[t] \in Inside
      /\ UNCHANGED <<setup, bundleVars>>
      /\ FirstPlace = "bundle"
  BY DEF LoadBundled, JarInv, Monitor, FirstPlace, Inside, Bundling
<1>2. \/ LoadedFrom(t, FirstPlace)
      \/ Leaves(t, "failed") /\ UNCHANGED <<jarLoaded, loads>>
  BY <1>1 DEF LoadBundled
<1>3. Companions' = Companions
  BY <1>1, SetupFixed
<1>4. JarTyped' /\ Monitor'
  BY <1>1, <1>2, <1>3, LeavingKeeps DEF JarInv, JarTyped, bundleVars
<1>5. PICK how \in {"returned", "failed"} : jarPc' = [jarPc EXCEPT ![t] = how]
  BY <1>2 DEF LoadedFrom, Leaves
<1>6. Extraction' /\ Passes'
  BY <1>1, <1>5, OutsideBundle DEF Bundling
<1>. QED  BY <1>4, <1>6 DEF JarInv

LEMMA JarKeeps == JarInv /\ [JarNext]_jarVars => JarInv'
<1>. SUFFICES ASSUME JarInv, [JarNext]_jarVars PROVE JarInv'
  OBVIOUS
<1>1. CASE UNCHANGED jarVars
  <2>1. Bundle' = Bundle /\ Companions' = Companions /\ FirstPlace' = FirstPlace
        /\ Linkable(Companions)' = Linkable(Companions)
    BY <1>1, SetupFixed DEF jarVars
  <2>2. JarTyped' /\ Monitor'
    BY <1>1, <2>1 DEF JarInv, JarTyped, Monitor, jarVars
  <2>3. Extraction'
    BY <1>1, <2>1 DEF JarInv, Extraction, RootsBelow, jarVars
  <2>4. Passes'
    BY <1>1, <2>1 DEF JarInv, Passes, IsPending, Links, jarVars
  <2>. QED  BY <2>2, <2>3, <2>4 DEF JarInv
<1>2. ASSUME NEW t \in JarThreads, JarCall(t) \/ JarStep(t) PROVE JarInv'
  BY <1>2, EntryKeeps, LoadFromDirectoryKeeps, LoadFromPathKeeps, ExtractRootKeeps,
     ExtractFailsKeeps, ExtractedKeeps, PreloadNextKeeps, PassEndsKeeps, LoadBundledKeeps
     DEF JarStep
<1>. QED  BY <1>1, <1>2 DEF JarNext

(* The inductive invariant holds.                                              *)
THEOREM LoaderInvariant == JarSpec => []JarInv
<1>. QED  BY JarInitial, JarKeeps, PTL DEF JarSpec

(* NativeLoader.load(): the wrapper is loaded at most once in a process, by one  *)
(* thread, and from the first place the setup has.                             *)
THEOREM WrapperIsLoadedOnce == JarSpec => []LoadedOnceFromFirst
<1>1. JarInv => LoadedOnceFromFirst
  <2>. SUFFICES ASSUME JarInv PROVE LoadedOnceFromFirst
    OBVIOUS
  <2>1. loads = IF jarLoaded THEN <<FirstPlace>> ELSE <<>>
    BY DEF JarInv, Monitor
  <2>2. loads \in {<<>>, <<FirstPlace>>}
    BY <2>1
  <2>3. jarLoaded <=> loads # <<>>
    BY <2>1
  <2>4. \A t \in JarThreads : jarPc[t] = "returned" => jarLoaded
    BY DEF JarInv, Monitor
  <2>. QED  BY <2>2, <2>3, <2>4 DEF LoadedOnceFromFirst
<1>. QED  BY <1>1, LoaderInvariant, PTL

(* preloadSiblingDlls: when the passes end, what is loaded is what can be        *)
(* linked, whatever the order of the directory.                                *)
THEOREM SiblingsAreLinked == JarSpec => []AllThatLinkIsLinked
<1>1. JarInv => AllThatLinkIsLinked
  <2>. SUFFICES ASSUME JarInv, NEW t \in JarThreads, jarPc[t] = "load", setup.windows
                PROVE  linked = Linkable(extracted \ {Wrapper})
    BY DEF AllThatLinkIsLinked
  <2>1. extracted \ {Wrapper} = Companions
    BY DEF JarInv, Extraction, Companions
  <2>2. linked \subseteq Linkable(Companions)
    BY DEF JarInv, Passes
  <2>3. linked \in SUBSET Companions
    BY <2>2 DEF Linkable
  <2>4. ClosedUnderLinking(Companions, linked)
    BY DEF JarInv, Passes, ClosedUnderLinking, Links
  <2>5. Linkable(Companions) \subseteq linked
    BY <2>3, <2>4, LinkableIsLeast
  <2>. QED  BY <2>1, <2>2, <2>5
<1>. QED  BY <1>1, LoaderInvariant, PTL
-----------------------------------------------------------------------------
GetsOn ==
    /\ at' <= Len(pending') + 1
    /\ \/ Len(pending') < Len(pending)
       \/ pending' = pending /\ progress /\ ~progress'
       \/ pending' = pending /\ progress' = progress /\ at < at'

(* preloadSiblingDlls ends: a step of the search leaves fewer siblings, or is the  *)
(* start of another pass after one that loaded something, or moves the iterator   *)
(* on, which never leaves the list.  Nobody else touches the search meanwhile.    *)
SearchGetsOn ==
    [][\A t \in JarThreads :
          jarPc[t] = "preload" /\ jarPc'[t] = "preload" => GetsOn]_bundleVars

(* The search for siblings that link comes nearer to its end with every step.     *)
THEOREM SearchForSiblingsEnds == JarSpec => SearchGetsOn
<1>1. ASSUME JarInv, JarInv', [JarNext]_jarVars, bundleVars' # bundleVars,
             NEW t \in JarThreads, jarPc[t] = "preload", jarPc'[t] = "preload"
      PROVE  GetsOn
  <2>1. jarPc[t] \in Inside /\ at \in Nat /\ Len(pending) \in Nat
        /\ pending \in Seq(Companions) /\ at' <= Len(pending') + 1
    BY <1>1 DEF JarInv, JarTyped, Passes, Inside, Bundling
  <2>2. PICK u \in JarThreads : JarCall(u) \/ JarStep(u)
    BY <1>1 DEF JarNext, jarVars, bundleVars
  <2>3. ~JarCall(u) /\ ~JarEnter(u) /\ ~LoadFromDirectory(u) /\ ~ExtractFails(u)
        /\ ~LoadBundled(u)
    BY <1>1 DEF JarCall, JarEnter, LoadFromDirectory, ExtractFails, LoadBundled, bundleVars
  <2>4. jarPc[u] \in Inside
    BY <2>2, <2>3 DEF JarStep, LoadFromPath, ExtractRoot, Extracted, PreloadNext, PassEnds,
                      Inside, Bundling
  <2>5. u = t
    BY <1>1, <2>1, <2>4, OneInside DEF JarInv
  <2>6. PreloadNext(t) \/ PassEnds(t)
    BY <1>1, <2>2, <2>3, <2>5 DEF JarStep, LoadFromPath, ExtractRoot, Extracted
  <2>7. CASE PreloadNext(t)
    <3>1. at \in 1..Len(pending)
      BY <1>1, <2>1, <2>7 DEF PreloadNext, JarInv, JarTyped
    <3>2. CASE Links(pending[at])
      <4>1. pending' = RemoveAt(pending, at)
        BY <2>7, <3>2 DEF PreloadNext
      <4>2. Len(pending') = Len(pending) - 1
        BY <2>1, <3>1, <4>1, Removal
      <4>. QED  BY <2>1, <4>2 DEF GetsOn
    <3>3. CASE ~Links(pending[at])
      BY <2>1, <2>7, <3>3 DEF PreloadNext, GetsOn
    <3>. QED  BY <3>2, <3>3
  <2>8. CASE PassEnds(t)
    <3>1. progress /\ pending # <<>>
      BY <1>1, <2>8 DEF PassEnds, JarGoto, JarInv, JarTyped
    <3>. QED  BY <2>1, <2>8, <3>1 DEF PassEnds, GetsOn
  <2>. QED  BY <2>6, <2>7, <2>8
<1>2. JarInv /\ JarInv' /\ [JarNext]_jarVars =>
        [\A t \in JarThreads : jarPc[t] = "preload" /\ jarPc'[t] = "preload" => GetsOn]_bundleVars
  BY <1>1
<1>. QED  BY <1>2, LoaderInvariant, PTL DEF JarSpec, SearchGetsOn
=============================================================================
