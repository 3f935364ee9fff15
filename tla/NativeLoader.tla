----------------------------- MODULE NativeLoader -----------------------------
(***************************************************************************)
(* NativeLoader.load(): the wrapper library is loaded once per process, from *)
(* the directory the user names, or else from java.library.path, or else     *)
(* from the files bundled on the class path, which are extracted together;   *)
(* on Windows the libraries the wrapper imports are loaded before it, in an   *)
(* order nobody knows.  What is where, and which library imports which, is    *)
(* the environment (JarSetups).                                              *)
(***************************************************************************)
EXTENDS Integers, Sequences, SequencesExt

CONSTANTS JarThreads,   \* the threads that call load()
          NoJarThread,
          Wrapper,      \* the file of the wrapper
          Siblings,     \* the libraries that may be bundled with it
          NotBundled,   \* an import no bundled file provides
          JarSetups,    \* the environments a process can start in
          JarMaxCalls   \* bound: calls of load()

Files == Siblings \cup {Wrapper}

JarSetupType ==
    [directory : {"unset", "good", "bad"},      \* PAGMO4J_NATIVE_DIR
     onPath    : BOOLEAN,                       \* loadLibrary finds the wrapper
     roots     : Seq(SUBSET Files),             \* what each class path root has
     resource  : BOOLEAN,                       \* getResourceAsStream finds it
     windows   : BOOLEAN,
     imports   : [Files -> SUBSET (Siblings \cup {NotBundled})]]

ASSUME JarAssumption ==
    /\ NoJarThread \notin JarThreads
    /\ Wrapper \notin Siblings /\ NotBundled \notin Siblings
    /\ IsFiniteSet(Siblings)
    /\ JarSetups \subseteq JarSetupType
    /\ JarMaxCalls \in Nat

VARIABLES setup,        \* the environment of this process
          jarPc,        \* each thread's place in load()
          jarLock,      \* the monitor of load()
          jarLoaded,    \* the flag
          loads,        \* history: where the wrapper was loaded from, in order
          extracted,    \* the files in the temp directory of this call
          root,         \* the class path root extracted next
          pending,      \* siblings not loaded yet, in the directory's order
          at,           \* the iterator's place in pending
          progress,     \* the pass has loaded something
          linked,       \* the siblings this process has loaded
          jarCalls

jarVars == <<setup, jarPc, jarLock, jarLoaded, loads, extracted, root, pending, at,
             progress, linked, jarCalls>>
bundleVars == <<extracted, root, pending, at, progress, linked>>

JarInit ==
    /\ setup \in JarSetups
    /\ jarPc = [t \in JarThreads |-> "idle"]
    /\ jarLock = NoJarThread
    /\ jarLoaded = FALSE
    /\ loads = <<>>
    /\ extracted = {} /\ root = 1
    /\ pending = <<>> /\ at = 1 /\ progress = FALSE /\ linked = {}
    /\ jarCalls = 0

Leaves(t, how) == /\ jarPc' = [jarPc EXCEPT ![t] = how]
                  /\ jarLock' = NoJarThread

LoadedFrom(t, place) ==
    /\ loads' = Append(loads, place)
    /\ jarLoaded' = TRUE
    /\ Leaves(t, "returned")

JarGoto(t, step) == /\ jarPc' = [jarPc EXCEPT ![t] = step]
                    /\ UNCHANGED <<setup, jarLock, jarLoaded, loads, jarCalls>>

(* load() is synchronized.                                                    *)
JarCall(t) ==
    /\ jarPc[t] \in {"idle", "returned", "failed"}
    /\ jarCalls < JarMaxCalls
    /\ jarCalls' = jarCalls + 1
    /\ jarPc' = [jarPc EXCEPT ![t] = "waiting"]
    /\ UNCHANGED <<setup, jarLock, jarLoaded, loads, bundleVars>>

JarEnter(t) ==
    /\ jarPc[t] = "waiting" /\ jarLock = NoJarThread
    /\ IF jarLoaded
         THEN Leaves(t, "returned")
         ELSE /\ jarLock' = t
              /\ jarPc' = [jarPc EXCEPT ![t] = "directory"]
    /\ UNCHANGED <<setup, jarLoaded, loads, bundleVars, jarCalls>>

(* Mutant: a directory that cannot be loaded from is only reported.           *)
MutLoadFromDirectory(t) ==
    /\ jarPc[t] = "directory"
    /\ IF setup.directory = "good"
         THEN LoadedFrom(t, "directory") /\ UNCHANGED <<setup, jarCalls>>
         ELSE JarGoto(t, "path")
    /\ UNCHANGED bundleVars

(* A directory the user names is the only place looked in.                    *)
LoadFromDirectory(t) ==
    /\ jarPc[t] = "directory"
    /\ CASE setup.directory = "unset" -> JarGoto(t, "path")
         [] setup.directory = "good"  -> LoadedFrom(t, "directory") /\ UNCHANGED <<setup, jarCalls>>
         [] setup.directory = "bad"   -> /\ Leaves(t, "failed")
                                         /\ UNCHANGED <<setup, jarLoaded, loads, jarCalls>>
    /\ UNCHANGED bundleVars

LoadFromPath(t) ==
    /\ jarPc[t] = "path"
    /\ IF setup.onPath
         THEN LoadedFrom(t, "path") /\ UNCHANGED <<setup, jarCalls, bundleVars>>
         ELSE /\ JarGoto(t, "extract")      \* into a fresh temp directory
              /\ extracted' = {} /\ root' = 1
              /\ UNCHANGED <<pending, at, progress, linked>>
-----------------------------------------------------------------------------
(* extractClosure: all roots, so that the companion's files land beside the   *)
(* wrapper; a root that is no readable archive has nothing.                   *)
ExtractRoot(t) ==
    /\ jarPc[t] = "extract" /\ root <= Len(setup.roots)
    /\ extracted' = extracted \cup setup.roots[root]
    /\ root' = root + 1
    /\ UNCHANGED <<setup, jarPc, jarLock, jarLoaded, loads, pending, at, progress, linked,
                   jarCalls>>

(* The platform has no bundle, or a file cannot be written.                   *)
ExtractFails(t) ==
    /\ jarPc[t] = "extract"
    /\ Leaves(t, "failed")
    /\ UNCHANGED <<setup, jarLoaded, loads, jarCalls, bundleVars>>

(* Nothing found by enumeration: the wrapper alone, as a resource.  The list    *)
(* of siblings comes in whatever order the directory gives them.               *)
Extracted(t) ==
    /\ jarPc[t] = "extract" /\ root > Len(setup.roots)
    /\ LET files == IF extracted = {} /\ setup.resource THEN {Wrapper} ELSE extracted
       IN  /\ extracted' = files
           /\ IF Wrapper \notin files
                THEN /\ Leaves(t, "failed")
                     /\ UNCHANGED <<setup, jarLoaded, loads, jarCalls, pending, at, progress>>
                ELSE /\ JarGoto(t, "preload")
                     /\ pending' \in IF setup.windows
                                       THEN SetToSeqs(files \ {Wrapper}) ELSE {<<>>}
                     /\ at' = 1 /\ progress' = FALSE
    /\ UNCHANGED <<root, linked>>

(* Windows resolves imports to modules of the process, the other systems to    *)
(* files beside the importing one.                                            *)
Links(f) == setup.imports[f] \subseteq IF setup.windows THEN linked ELSE extracted

PreloadNext(t) ==
    /\ jarPc[t] = "preload" /\ at <= Len(pending)
    /\ IF Links(pending[at])
         THEN /\ linked' = linked \cup {pending[at]}
              /\ pending' = RemoveAt(pending, at)
              /\ progress' = TRUE
              /\ UNCHANGED at
         ELSE at' = at + 1 /\ UNCHANGED <<linked, pending, progress>>
    /\ UNCHANGED <<setup, jarPc, jarLock, jarLoaded, loads, extracted, root, jarCalls>>

MutPassEnds(t) ==       \* mutant: one pass only
    /\ jarPc[t] = "preload" /\ at > Len(pending)
    /\ JarGoto(t, "load")
    /\ UNCHANGED bundleVars

(* Another pass as long as the last one loaded something.                     *)
PassEnds(t) ==
    /\ jarPc[t] = "preload" /\ at > Len(pending)
    /\ IF progress /\ pending # <<>>
         THEN /\ at' = 1 /\ progress' = FALSE
              /\ UNCHANGED <<setup, jarPc, jarLock, jarLoaded, loads, jarCalls>>
         ELSE JarGoto(t, "load") /\ UNCHANGED <<at, progress>>
    /\ UNCHANGED <<extracted, root, pending, linked>>

LoadBundled(t) ==
    /\ jarPc[t] = "load"
    /\ IF Links(Wrapper)
         THEN LoadedFrom(t, "bundle") /\ UNCHANGED <<setup, jarCalls>>
         ELSE /\ Leaves(t, "failed")
              /\ UNCHANGED <<setup, jarLoaded, loads, jarCalls>>
    /\ UNCHANGED bundleVars

JarStep(t) == \/ JarEnter(t) \/ LoadFromDirectory(t) \/ LoadFromPath(t)
              \/ ExtractRoot(t) \/ ExtractFails(t) \/ Extracted(t)
              \/ PreloadNext(t) \/ PassEnds(t) \/ LoadBundled(t)

JarNext == \E t \in JarThreads : JarCall(t) \/ JarStep(t)

JarSpec == JarInit /\ [][JarNext]_jarVars
-----------------------------------------------------------------------------
(* Properties *)

FirstPlace == IF setup.directory # "unset" THEN "directory"
              ELSE IF setup.onPath THEN "path" ELSE "bundle"

(* However many threads call load() and however often it failed before, the     *)
(* wrapper is loaded at most once, and from the first of the three places the    *)
(* setup has: a directory the user named is never silently passed over.          *)
LoadedOnceFromFirst ==
    /\ loads \in {<<>>, <<FirstPlace>>}
    /\ jarLoaded <=> loads # <<>>
    /\ \A t \in JarThreads : jarPc[t] = "returned" => jarLoaded

(* The siblings that can be linked at all: the least set that has every one      *)
(* whose imports it has.                                                       *)
ClosedUnderLinking(S, T) == \A f \in S : setup.imports[f] \subseteq T => f \in T

Linkable(S) == {f \in S : \A T \in SUBSET S : ClosedUnderLinking(S, T) => f \in T}

(* On Windows the passes over the siblings load every one whose imports can be    *)
(* satisfied, in whatever order the directory lists them, so that an extracted    *)
(* wrapper fails to load only if the bundle lacks something it imports.           *)
AllThatLinkIsLinked ==
    \A t \in JarThreads :
        jarPc[t] = "load" /\ setup.windows => linked = Linkable(extracted \ {Wrapper})
=============================================================================
