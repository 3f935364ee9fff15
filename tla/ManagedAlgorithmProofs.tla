--------------------------- MODULE ManagedAlgorithmProofs ---------------------------
(***************************************************************************)
(* The two managed algorithms.  The grid search: EachPointOnce and BestOfGrid  *)
(* for every number of dimensions and every number of steps.  The odometer     *)
(* walks the grid in lexicographic order: the points evaluated so far are       *)
(* those below the index, and advancing adds the index itself to them.  The     *)
(* least dimension in which two points differ is found with the                *)
(* well-foundedness of the natural numbers.  Then what an algorithm adapter     *)
(* that concurrent evolutions share still guarantees, for any number of         *)
(* evolutions and failures.                                                    *)
(***************************************************************************)
EXTENDS GridSearch, SharedAlgorithm, WellFoundedInduction, TLAPS

LexLess(p, q) == \E d \in Dims : p[d] < q[d] /\ \A e \in Dims : e < d => p[e] = q[e]

Below(q) == {p \in Grid : LexLess(p, q)}

GridTyped ==
    /\ call \in GridCalls
    /\ gridPc \in {"start", "sample", "advance", "returned", "failed"}
    /\ steps \in [Dims -> Nat]
    /\ gridIndex \in Grid
    /\ bestObjective \in Objectives \cup {Infinite}
    /\ gridPop \in [1..call.size -> Grid \cup {NoPoint}]

Walk ==
    /\ gridPc = "start" => Visited = {}
    /\ gridPc # "start" => call.nx > 0 \/ Visited = {}
    /\ gridPc = "sample" => call.nx > 0 /\ Visited = Below(gridIndex)
    /\ gridPc = "advance" => call.nx > 0 /\ Visited = Below(gridIndex) \cup {gridIndex}
    /\ gridPc = "returned" => Visited = Grid
    /\ gridPc = "failed" => Visited \subseteq Grid

Best ==
    /\ bestX = NoPoint <=> bestObjective = Infinite
    /\ bestObjective # Infinite => bestX \in Visited /\ answer[bestX] = bestObjective
    /\ \A p \in Visited : answer[p] \in Objectives =>
          bestObjective # Infinite /\ bestObjective <= answer[p]

Population ==
    /\ gridPc = "returned" => bestX # NoPoint /\ \A i \in DOMAIN gridPop : gridPop[i] = bestX
    /\ gridPc # "returned" => \A i \in DOMAIN gridPop : gridPop[i] = NoPoint
    /\ gridPc = "failed" /\ Visited # {} /\ Visited = Grid => bestX = NoPoint

GridInv == GridTyped /\ Walk /\ Best /\ Population
-----------------------------------------------------------------------------
(* Every non-empty set of natural numbers has a least element, and one that is  *)
(* bounded has a greatest.                                                     *)
LEMMA Least ==
    ASSUME NEW T, T \subseteq Nat, T # {}
    PROVE  \E m \in T : \A k \in T : m <= k
<1>. DEFINE R == {ss \in Nat \X Nat : ss[1] < ss[2]}
<1>1. IsWellFoundedOn(R, Nat)
  BY NatLessThanWellFounded DEF OpToRel
<1>2. \A y, x \in Nat : y < x => <<y, x>> \in R
  OBVIOUS
<1>. HIDE DEF R
<1>3. PICK x \in T : \A y \in T : <<y, x>> \notin R
  BY <1>1, WFMin, Zenon
<1>4. ASSUME NEW k \in T PROVE x <= k
  <2>1. x \in Nat /\ k \in Nat
    OBVIOUS
  <2>2. ~(k < x)
    BY <1>2, <1>3, <2>1, Zenon
  <2>. QED  BY <2>1, <2>2
<1>. QED  BY <1>4, Zenon

LEMMA Greatest ==
    ASSUME NEW n \in Nat, NEW T, T \subseteq 1..n, T # {}
    PROVE  \E m \in T : \A k \in T : k <= m
<1>. DEFINE U == {j \in Nat : n - j \in T}
<1>1. \A k \in T : n - k \in U
  OBVIOUS
<1>2. U # {}
  BY <1>1
<1>3. PICK m \in U : \A k \in U : m <= k
  BY <1>2, Least
<1>4. n - m \in T /\ m \in Nat
  OBVIOUS
<1>5. \A k \in T : k <= n - m
  BY <1>1, <1>3, <1>4
<1>. QED  BY <1>4, <1>5

LEMMA PointsBelow ==
    ASSUME NEW D, NEW s \in [D -> Nat], NEW p
    PROVE  p \in {q \in [D -> UNION {0..s[d] : d \in D}] : \A d \in D : q[d] <= s[d]}
           <=> p \in [D -> Nat] /\ \A d \in D : p[d] <= s[d]
<1>1. \A d \in D : s[d] \in Nat
  OBVIOUS
<1>2. UNION {0..s[d] : d \in D} \subseteq Nat
  OBVIOUS
<1>3. ASSUME p \in [D -> Nat], \A d \in D : p[d] <= s[d]
      PROVE  p \in [D -> UNION {0..s[d] : d \in D}]
  <2>1. \A d \in D : p[d] \in 0..s[d]
    BY <1>1, <1>3
  <2>. QED  BY <1>3, <2>1
<1>. QED  BY <1>2, <1>3

LEMMA GridPoints ==
    ASSUME steps \in [Dims -> Nat]
    PROVE  \A p : p \in Grid <=> p \in [Dims -> Nat] /\ \A d \in Dims : p[d] <= steps[d]
BY PointsBelow DEF Grid

LEMMA CallFacts ==
    ASSUME call \in GridCalls
    PROVE  call.nx \in Nat /\ call.size \in Nat /\ call.steps \in Seq(Nat \ {0})
BY GridAssumption DEF GridAssumption, GridCallType

(* A point that is nowhere beyond another is the same or below it.             *)
LEMMA Dominated ==
    ASSUME call \in GridCalls, NEW p \in [Dims -> Nat], NEW q \in [Dims -> Nat],
           \A d \in Dims : p[d] <= q[d]
    PROVE  p = q \/ LexLess(p, q)
<1>. SUFFICES ASSUME p # q PROVE LexLess(p, q)
  OBVIOUS
<1>. DEFINE T == {d \in Dims : p[d] # q[d]}
<1>1. T \subseteq Nat /\ T # {}
  BY CallFacts DEF Dims
<1>2. PICK d \in T : \A e \in T : d <= e
  BY <1>1, Least
<1>3. p[d] < q[d] /\ d \in Dims /\ d \in Nat
  BY CallFacts DEF Dims
<1>4. \A e \in Dims : e < d => p[e] = q[e]
  <2>1. Dims \subseteq Nat
    BY CallFacts DEF Dims
  <2>. QED  BY <1>2, <1>3, <2>1
<1>. QED  BY <1>3, <1>4 DEF LexLess

LEMMA NotBelowItself ==
    ASSUME NEW q \in [Dims -> Nat]
    PROVE  ~LexLess(q, q)
BY DEF LexLess

(* What is below the point the odometer goes to.                               *)
LEMMA Successor ==
    ASSUME call \in GridCalls, steps \in [Dims -> Nat],
           NEW q \in Grid, NEW d \in Dims, q[d] < steps[d],
           \A e \in Dims : e > d => q[e] >= steps[e],
           NEW r, r = [e \in Dims |-> IF e < d THEN q[e] ELSE IF e = d THEN q[e] + 1 ELSE 0]
    PROVE  r \in Grid /\ Below(r) = Below(q) \cup {q}
<1>0. Dims \subseteq Nat /\ d \in Nat
  BY CallFacts DEF Dims
<1>1. q \in [Dims -> Nat] /\ \A e \in Dims : q[e] <= steps[e]
  BY GridPoints
<1>2. r \in [Dims -> Nat] /\ \A e \in Dims : r[e] <= steps[e]
  BY <1>0, <1>1
<1>3. r \in Grid
  BY <1>2, GridPoints
<1>4. r[d] = q[d] + 1 /\ \A e \in Dims : e < d => r[e] = q[e]
  BY <1>0
<1>5. \A e \in Dims : e > d => r[e] = 0
  BY <1>0
<1>6. LexLess(q, r)
  BY <1>0, <1>1, <1>4 DEF LexLess
<1>7. ASSUME NEW p \in Grid, LexLess(p, q) PROVE LexLess(p, r)
  <2>1. PICK c \in Dims : p[c] < q[c] /\ \A e \in Dims : e < c => p[e] = q[e]
    BY <1>7 DEF LexLess
  <2>2. p \in [Dims -> Nat]
    BY GridPoints
  <2>3. CASE c < d
    <3>1. p[c] < r[c]
      BY <1>4, <2>1, <2>3
    <3>2. \A e \in Dims : e < c => p[e] = r[e]
      BY <1>0, <1>4, <2>1, <2>3
    <3>. QED  BY <3>1, <3>2 DEF LexLess
  <2>4. CASE ~(c < d)
    <3>1. p[d] < r[d]
      <4>1. p[d] <= q[d]
        <5>1. c = d \/ d < c
          BY <1>0, <2>4
        <5>. QED  BY <1>1, <2>1, <2>2, <5>1
      <4>. QED  BY <1>1, <1>4, <2>2, <4>1
    <3>2. \A e \in Dims : e < d => p[e] = r[e]
      BY <1>0, <1>4, <2>1, <2>4
    <3>. QED  BY <3>1, <3>2 DEF LexLess
  <2>. QED  BY <2>3, <2>4
<1>8. ASSUME NEW p \in Grid, LexLess(p, r) PROVE p = q \/ LexLess(p, q)
  <2>1. PICK c \in Dims : p[c] < r[c] /\ \A e \in Dims : e < c => p[e] = r[e]
    BY <1>8 DEF LexLess
  <2>2. p \in [Dims -> Nat] /\ \A e \in Dims : p[e] <= steps[e]
    BY GridPoints
  <2>3. c <= d
    <3>1. ~(p[c] < 0)
      BY <2>2
    <3>. QED  BY <1>0, <1>5, <2>1, <3>1
  <2>4. CASE c < d
    <3>1. p[c] < q[c]
      BY <1>4, <2>1, <2>4
    <3>2. \A e \in Dims : e < c => p[e] = q[e]
      BY <1>0, <1>4, <2>1, <2>4
    <3>. QED  BY <3>1, <3>2 DEF LexLess
  <2>5. CASE c = d
    <3>1. \A e \in Dims : e < d => p[e] = q[e]
      BY <1>4, <2>1, <2>5
    <3>2. p[d] <= q[d]
      BY <1>1, <1>4, <2>1, <2>2, <2>5
    <3>3. \A e \in Dims : e > d => p[e] <= q[e]
      <4>1. ASSUME NEW e \in Dims, e > d PROVE p[e] <= q[e]
        <5>1. q[e] >= steps[e] /\ p[e] <= steps[e]
          BY <2>2, <4>1
        <5>2. q[e] \in Nat /\ p[e] \in Nat /\ steps[e] \in Nat
          BY <1>1, <2>2
        <5>. QED  BY <5>1, <5>2
      <4>. QED  BY <4>1
    <3>4. \A e \in Dims : p[e] <= q[e]
      <4>1. ASSUME NEW e \in Dims PROVE p[e] <= q[e]
        <5>1. e < d \/ e = d \/ e > d
          BY <1>0
        <5>2. e < d => p[e] <= q[e]
          BY <1>1, <3>1
        <5>. QED  BY <3>2, <3>3, <5>1, <5>2
      <4>. QED  BY <4>1
    <3>. QED  BY <1>1, <2>2, <3>4, Dominated
  <2>. QED  BY <1>0, <2>3, <2>4, <2>5
<1>9. Below(r) = Below(q) \cup {q}
  BY <1>6, <1>7, <1>8 DEF Below
<1>. QED  BY <1>3, <1>9

(* An odometer that cannot advance is at the last point.                       *)
LEMMA AtTheEnd ==
    ASSUME call \in GridCalls, steps \in [Dims -> Nat], gridIndex \in Grid,
           ~\E d \in Dims : CanAdvance(d)
    PROVE  Grid = Below(gridIndex) \cup {gridIndex}
<1>. DEFINE T == {d \in Dims : gridIndex[d] < steps[d]}
<1>0. Dims \subseteq Nat /\ call.nx \in Nat
  BY CallFacts DEF Dims
<1>1. gridIndex \in [Dims -> Nat] /\ \A d \in Dims : gridIndex[d] <= steps[d]
  BY GridPoints
<1>2. T = {}
  <2>. SUFFICES ASSUME T # {} PROVE FALSE
    OBVIOUS
  <2>1. T \subseteq 1..call.nx
    BY DEF Dims
  <2>2. PICK m \in T : \A k \in T : k <= m
    BY <1>0, <2>1, Greatest
  <2>3. \A e \in Dims : e > m => e \notin T
    BY <1>0, <2>2
  <2>4. \A e \in Dims : e > m => gridIndex[e] >= steps[e]
    BY <1>1, <2>3
  <2>. QED  BY <2>2, <2>4 DEF CanAdvance
<1>3. ASSUME NEW p \in Grid PROVE p = gridIndex \/ LexLess(p, gridIndex)
  <2>1. p \in [Dims -> Nat] /\ \A d \in Dims : p[d] <= steps[d]
    BY GridPoints
  <2>2. \A d \in Dims : p[d] <= gridIndex[d]
    <3>1. ASSUME NEW d \in Dims PROVE p[d] <= gridIndex[d]
      <4>1. ~(gridIndex[d] < steps[d])
        BY <1>2
      <4>2. p[d] \in Nat /\ gridIndex[d] \in Nat /\ steps[d] \in Nat /\ p[d] <= steps[d]
        BY <1>1, <2>1
      <4>. QED  BY <4>1, <4>2
    <3>. QED  BY <3>1
  <2>. QED  BY <1>1, <2>1, <2>2, Dominated
<1>. QED  BY <1>3 DEF Below
-----------------------------------------------------------------------------
LEMMA GridInitial == GridInit => GridInv
<1>. SUFFICES ASSUME GridInit PROVE GridInv
  OBVIOUS
<1>1. steps \in [Dims -> Nat] /\ gridIndex \in [Dims -> Nat]
      /\ \A d \in Dims : gridIndex[d] <= steps[d]
  BY DEF GridInit
<1>2. gridIndex \in Grid
  BY <1>1, GridPoints
<1>3. GridTyped
  BY <1>1, <1>2 DEF GridInit, GridTyped
<1>. QED  BY <1>3 DEF GridInit, GridInv, Walk, Best, Population, Visited

LEMMA StartKeeps == GridInv /\ GridStart => GridInv'
<1>. SUFFICES ASSUME GridInv, GridStart PROVE GridInv'
  OBVIOUS
<1>0. call.nx \in Nat /\ call.steps \in Seq(Nat \ {0}) /\ call' = call /\ Dims' = Dims
      /\ Visited' = Visited /\ Visited = {}
  BY CallFacts DEF GridInv, GridTyped, GridStart, Dims, Visited, Walk
<1>1. CASE gridPc' = "sample"
  <2>1. /\ call.nx > 0 /\ Resolvable
        /\ steps' = [d \in Dims |-> IF Len(call.steps) = 1 THEN call.steps[1] ELSE call.steps[d]]
        /\ gridIndex' = [d \in Dims |-> 0]
    BY <1>1 DEF GridStart
  <2>2. steps' \in [Dims -> Nat]
    BY <1>0, <2>1 DEF Resolvable, Dims
  <2>3. gridIndex' \in [Dims -> Nat] /\ \A d \in Dims : gridIndex'[d] <= steps'[d]
    BY <2>1, <2>2
  <2>4. \A p : p \in Grid' <=> p \in [Dims -> Nat] /\ \A d \in Dims : p[d] <= steps'[d]
    BY <1>0, <2>2, PointsBelow DEF Grid
  <2>5. gridIndex' \in Grid' /\ Below(gridIndex)' = {}
    <3>1. \A p \in Grid' : \A d \in Dims : ~(p[d] < gridIndex'[d])
      BY <2>1, <2>4
    <3>. QED  BY <1>0, <2>3, <2>4, <3>1 DEF Below, LexLess
  <2>6. gridPop' \in [1..call.size -> Grid' \cup {NoPoint}]
    BY DEF GridInv, GridTyped, Population, GridStart
  <2>. QED  BY <1>0, <1>1, <2>1, <2>2, <2>5, <2>6
            DEF GridInv, GridTyped, Walk, Best, Population, GridStart
<1>2. CASE gridPc' = "failed"
  <2>1. UNCHANGED <<call, steps, gridIndex, answer, bestX, bestObjective, gridPop>>
    BY <1>2 DEF GridStart
  <2>2. Grid' = Grid /\ gridPc = "start"
    BY <1>0, <2>1 DEF Grid, GridStart
  <2>. QED  BY <1>0, <1>2, <2>1, <2>2 DEF GridInv, GridTyped, Walk, Best, Population
<1>. QED  BY <1>1, <1>2 DEF GridStart

LEMMA SampleKeeps == GridInv /\ Sample => GridInv'
<1>. SUFFICES ASSUME GridInv, Sample PROVE GridInv'
  OBVIOUS
<1>0. /\ Dims' = Dims /\ Grid' = Grid /\ gridIndex' = gridIndex /\ call' = call
      /\ gridPc' = "advance" /\ gridPc = "sample" /\ gridPop' = gridPop /\ steps' = steps
      /\ Below(gridIndex)' = Below(gridIndex) /\ call.nx \in Nat /\ call.nx > 0
  BY CallFacts DEF Sample, Dims, Grid, Below, LexLess, GridInv, GridTyped, Walk
<1>1. PICK a \in Answers :
        /\ answer' = [p \in Visited \cup {gridIndex} |-> IF p = gridIndex THEN a ELSE answer[p]]
        /\ IF Better(a)
             THEN bestX' = gridIndex /\ bestObjective' = a
             ELSE UNCHANGED <<bestX, bestObjective>>
  BY DEF Sample
<1>2. Visited' = Visited \cup {gridIndex} /\ gridIndex \notin Visited
  <2>1. Visited' = Visited \cup {gridIndex}
    BY <1>1 DEF Visited
  <2>2. Visited = Below(gridIndex) /\ gridIndex \in [Dims -> Nat]
    BY <1>0, GridPoints DEF GridInv, GridTyped, Walk
  <2>. QED  BY <2>1, <2>2, NotBelowItself DEF Below
<1>3. /\ \A p \in Visited : answer'[p] = answer[p]
      /\ answer'[gridIndex] = a
  BY <1>1, <1>2
<1>4. gridIndex # NoPoint
  <2>1. DOMAIN gridIndex = Dims /\ 1 \in Dims
    BY <1>0, GridPoints DEF GridInv, GridTyped, Dims
  <2>. QED  BY <2>1 DEF NoPoint
<1>5. Objectives \subseteq Int /\ Infinite \notin Objectives /\ Infeasible \notin Objectives
  BY GridAssumption DEF GridAssumption
<1>6. GridTyped'
  BY <1>0, <1>1 DEF GridInv, GridTyped, Better
<1>7. Walk'
  BY <1>0, <1>2 DEF GridInv, Walk
<1>8. Best'
  <2>1. CASE Better(a)
    <3>1. bestX' = gridIndex /\ bestObjective' = a /\ a \in Objectives
      BY <1>1, <2>1 DEF Better
    <3>2. \A p \in Visited : answer[p] \in Objectives => a <= answer[p]
      <4>1. ASSUME NEW p \in Visited, answer[p] \in Objectives PROVE a <= answer[p]
        <5>1. bestObjective \in Objectives /\ bestObjective <= answer[p]
          BY <4>1 DEF GridInv, Best, GridTyped
        <5>2. a < bestObjective
          BY <1>5, <2>1, <5>1 DEF Better
        <5>3. a \in Int /\ bestObjective \in Int /\ answer[p] \in Int
          BY <1>5, <3>1, <4>1, <5>1
        <5>. QED  BY <5>1, <5>2, <5>3
      <4>. QED  BY <4>1
    <3>3. \A p \in Visited' : answer'[p] \in Objectives => a <= answer'[p]
      <4>1. a <= a
        BY <1>5, <3>1
      <4>2. ASSUME NEW p \in Visited', answer'[p] \in Objectives PROVE a <= answer'[p]
        <5>1. p \in Visited \/ p = gridIndex
          BY <1>2
        <5>. QED  BY <1>3, <3>2, <4>1, <4>2, <5>1
      <4>. QED  BY <4>2
    <3>4. a # Infinite /\ gridIndex \in Visited'
      BY <1>2, <1>5, <3>1
    <3>. QED  BY <1>3, <1>4, <3>1, <3>3, <3>4 DEF Best
  <2>2. CASE ~Better(a)
    <3>1. bestX' = bestX /\ bestObjective' = bestObjective
      BY <1>1, <2>2
    <3>2. a \in Objectives => bestObjective # Infinite /\ bestObjective <= a
      BY <1>5, <2>2 DEF Better, GridInv, GridTyped
    <3>3. \A p \in Visited' : answer'[p] \in Objectives =>
             bestObjective # Infinite /\ bestObjective <= answer'[p]
      BY <1>2, <1>3, <3>2 DEF GridInv, Best
    <3>. QED  BY <1>2, <1>3, <3>1, <3>3 DEF GridInv, Best
  <2>. QED  BY <2>1, <2>2
<1>9. Population'
  BY <1>0 DEF GridInv, Population
<1>. QED  BY <1>6, <1>7, <1>8, <1>9 DEF GridInv

LEMMA ThrowsKeeps == GridInv /\ ProblemThrows => GridInv'
<1>. SUFFICES ASSUME GridInv, ProblemThrows PROVE GridInv'
  OBVIOUS
<1>0. /\ Dims' = Dims /\ Grid' = Grid /\ Visited' = Visited /\ gridPc' = "failed"
      /\ UNCHANGED <<call, steps, gridIndex, answer, bestX, bestObjective, gridPop>>
      /\ Visited = Below(gridIndex) /\ gridPc = "sample" /\ call.nx > 0
      /\ gridIndex \in Grid
  BY DEF ProblemThrows, Dims, Grid, Visited, GridInv, GridTyped, Walk
<1>1. Visited # Grid /\ Visited \subseteq Grid
  <2>1. gridIndex \in [Dims -> Nat]
    BY <1>0, GridPoints DEF GridInv, GridTyped
  <2>. QED  BY <1>0, <2>1, NotBelowItself DEF Below
<1>. QED  BY <1>0, <1>1 DEF GridInv, GridTyped, Walk, Best, Population

LEMMA AdvanceKeeps == GridInv /\ Advance => GridInv'
<1>. SUFFICES ASSUME GridInv, Advance PROVE GridInv'
  OBVIOUS
<1>0. /\ Dims' = Dims /\ Grid' = Grid /\ Visited' = Visited /\ gridPc' = "sample"
      /\ UNCHANGED <<call, steps, answer, bestX, bestObjective, gridPop>>
      /\ \A q : Below(q)' = Below(q)
      /\ Visited = Below(gridIndex) \cup {gridIndex} /\ gridPc = "advance" /\ call.nx > 0
  BY DEF Advance, Dims, Grid, Visited, Below, LexLess, GridInv, Walk
<1>1. PICK d \in Dims :
        /\ CanAdvance(d)
        /\ gridIndex' = [e \in Dims |-> IF e < d THEN gridIndex[e]
                                        ELSE IF e = d THEN gridIndex[e] + 1 ELSE 0]
  BY DEF Advance
<1>2. gridIndex' \in Grid /\ Below(gridIndex') = Below(gridIndex) \cup {gridIndex}
  BY <1>1, Successor DEF CanAdvance, GridInv, GridTyped
<1>3. Below(gridIndex)' = Below(gridIndex')
  BY <1>0 DEF Below, LexLess
<1>. QED  BY <1>0, <1>2, <1>3 DEF GridInv, GridTyped, Walk, Best, Population

LEMMA FinishKeeps == GridInv /\ Finish => GridInv'
<1>. SUFFICES ASSUME GridInv, Finish PROVE GridInv'
  OBVIOUS
<1>0. /\ Dims' = Dims /\ Grid' = Grid /\ Visited' = Visited
      /\ UNCHANGED <<call, steps, gridIndex, answer, bestX, bestObjective>>
      /\ Visited = Below(gridIndex) \cup {gridIndex} /\ gridPc = "advance" /\ call.nx > 0
  BY DEF Finish, Dims, Grid, Visited, GridInv, Walk
<1>1. Visited = Grid
  BY <1>0, AtTheEnd DEF Finish, GridInv, GridTyped
<1>2. CASE bestX = NoPoint
  <2>1. gridPc' = "failed" /\ gridPop' = gridPop
    BY <1>2 DEF Finish
  <2>. QED  BY <1>0, <1>1, <1>2, <2>1 DEF GridInv, GridTyped, Walk, Best, Population
<1>3. CASE bestX # NoPoint
  <2>1. gridPc' = "returned" /\ gridPop' = [i \in DOMAIN gridPop |-> bestX]
    BY <1>3 DEF Finish
  <2>2. bestX \in Grid
    BY <1>1, <1>3 DEF GridInv, Best
  <2>3. gridPop' \in [1..call.size -> Grid \cup {NoPoint}]
    BY <2>1, <2>2 DEF GridInv, GridTyped
  <2>. QED  BY <1>0, <1>1, <1>3, <2>1, <2>3 DEF GridInv, GridTyped, Walk, Best, Population
<1>. QED  BY <1>2, <1>3

(* The odometer walks the grid in lexicographic order.                         *)
THEOREM GridInvariant == GridSpec => []GridInv
<1>1. GridInv /\ UNCHANGED gridVars => GridInv'
  BY DEF GridInv, GridTyped, Walk, Best, Population, gridVars, Below, LexLess, Grid, Dims, Visited
<1>2. GridInv /\ [GridNext]_gridVars => GridInv'
  BY <1>1, StartKeeps, SampleKeeps, ThrowsKeeps, AdvanceKeeps, FinishKeeps DEF GridNext
<1>. QED  BY GridInitial, <1>2, PTL DEF GridSpec

(* Each grid point is evaluated once and none is left out (EachPointOnce).      *)
THEOREM GridVisitsEachPointOnce == GridSpec => []EachPointOnce
<1>1. GridInv => EachPointOnce
  <2>. SUFFICES ASSUME GridInv PROVE EachPointOnce
    OBVIOUS
  <2>1. gridIndex \in Grid /\ gridIndex \in [Dims -> Nat]
    BY GridPoints DEF GridInv, GridTyped
  <2>2. gridIndex \notin Below(gridIndex)
    BY <2>1, NotBelowItself DEF Below
  <2>. QED  BY <2>1, <2>2 DEF GridInv, GridTyped, Walk, EachPointOnce, Below
<1>. QED  BY GridInvariant, <1>1, PTL

(* The population becomes the best feasible point, or stays (BestOfGrid).        *)
THEOREM GridReturnsTheBest == GridSpec => []BestOfGrid
<1>1. GridInv => BestOfGrid
  BY DEF GridInv, GridTyped, Walk, Best, Population, BestOfGrid
<1>. QED  BY GridInvariant, <1>1, PTL
-----------------------------------------------------------------------------
(* A shared algorithm adapter. *)

(* A deferred exception of an evolution has a thread that will still clear it. *)
ClearedLater ==
    deferred \notin described \cup {NoFailure} =>
        \E t \in Evolutions : pc[t] \in {"consume", "clear"}

Uncaught(t) == pc[t] \in {"caught", "described"}

(* With Java's adapter an exception is in one place: just thrown, deferred,    *)
(* captured by one thread, or reported by one thread.                         *)
OnePlace ==
    /\ \A t \in Evolutions : Uncaught(t) =>
           /\ caught[t] \in thrown
           /\ caught[t] # deferred
           /\ \A u \in Evolutions : /\ u # t /\ Uncaught(u) => caught[u] # caught[t]
                                    /\ captured[u] # caught[t]
                                    /\ caught[t] \notin reports[u]
    /\ deferred # NoFailure =>
           /\ deferred \in thrown
           /\ \A u \in Evolutions : captured[u] # deferred /\ deferred \notin reports[u]
    /\ \A t \in Evolutions : captured[t] # NoFailure =>
           /\ captured[t] \in thrown
           /\ \A u \in Evolutions : /\ u # t => captured[u] # captured[t]
                                    /\ captured[t] \notin reports[u]
    /\ \A t \in Evolutions : reports[t] \subseteq thrown
    /\ JavaReportsOnce

(* With Java's adapter, once an evolution failed, something is on its way to an *)
(* island or has reached one.                                                 *)
OnItsWay ==
    /\ \A t \in Evolutions : captured[t] # NoFailure => pc[t] = "throw_if"
    /\ thrown \ described # {} =>
           \E t \in Evolutions : \/ pc[t] = "caught"
                                 \/ pc[t] = "consume" /\ deferred # NoFailure
                                 \/ captured[t] # NoFailure
                                 \/ reports[t] # {}

(* A thread holds the exception it caught, and only .NET works in two steps.    *)
StepsInv ==
    \A t \in Evolutions : /\ Uncaught(t) => caught[t] \in Failures
                          /\ pc[t] = "described" => caught[t] \in described
                          /\ pc[t] \in {"assign", "clear"} => CSharp

IInv == /\ TypeOK /\ StepsInv /\ ClearedLater
        /\ ~CSharp => OnePlace /\ OnItsWay
-----------------------------------------------------------------------------
LEMMA InitInv == Init => IInv
<1> SUFFICES ASSUME Init PROVE IInv
  OBVIOUS
<1>1. TypeOK /\ StepsInv
  BY SharedAssumption DEF Init, TypeOK, Steps, StepsInv, Uncaught
<1>2. ClearedLater /\ OnePlace /\ OnItsWay
  BY DEF Init, ClearedLater, OnePlace, OnItsWay, Uncaught, JavaReportsOnce
<1> QED
  BY <1>1, <1>2 DEF IInv

(* Starting an evolution keeps the invariant. *)
LEMMA EvolveInv ==
    ASSUME NEW t \in Evolutions, IInv, Evolve(t)
    PROVE  IInv'
<1> USE SharedAssumption DEF IInv, TypeOK, Evolve, Goto
<1>1. TypeOK'
  BY DEF Steps
<1>2. StepsInv'
  BY <1>1 DEF StepsInv, Uncaught, CSharp
<1>3. ClearedLater'
  BY <1>1 DEF ClearedLater, StepsInv
<1>4. (OnePlace' /\ OnItsWay') \/ CSharp'
  <2> SUFFICES ASSUME ~CSharp PROVE OnePlace' /\ OnItsWay'
    BY DEF CSharp
  <2>1. OnePlace'
    BY <1>1 DEF OnePlace, Uncaught, JavaReportsOnce, CSharp, StepsInv
  <2>2. OnItsWay'
    BY <1>1 DEF OnItsWay, OnePlace, Uncaught, StepsInv
  <2> QED
    BY <2>1, <2>2
<1> QED
  BY <1>1, <1>2, <1>3, <1>4

(* A successful one keeps the invariant. *)
LEMMA EvolvedInv ==
    ASSUME NEW t \in Evolutions, IInv, Evolved(t)
    PROVE  IInv'
<1> USE SharedAssumption DEF IInv, TypeOK, Evolved, Goto
<1>1. TypeOK'
  BY DEF Steps
<1>2. StepsInv'
  BY <1>1 DEF StepsInv, Uncaught, CSharp
<1>3. ClearedLater'
  BY <1>1 DEF ClearedLater, StepsInv
<1>4. (OnePlace' /\ OnItsWay') \/ CSharp'
  <2> SUFFICES ASSUME ~CSharp PROVE OnePlace' /\ OnItsWay'
    BY DEF CSharp
  <2>1. OnePlace'
    BY <1>1 DEF OnePlace, Uncaught, JavaReportsOnce, CSharp, StepsInv
  <2>2. OnItsWay'
    BY <1>1 DEF OnItsWay, OnePlace, Uncaught, StepsInv
  <2> QED
    BY <2>1, <2>2
<1> QED
  BY <1>1, <1>2, <1>3, <1>4

(* A new exception keeps the invariant. *)
LEMMA EvolveThrowsInv ==
    ASSUME NEW t \in Evolutions, IInv, EvolveThrows(t)
    PROVE  IInv'
<1> USE SharedAssumption DEF IInv, TypeOK, EvolveThrows, Goto
<1>1. TypeOK'
  BY DEF Steps
<1>2. StepsInv'
  BY <1>1 DEF StepsInv, Uncaught, CSharp
<1>3. ClearedLater'
  BY <1>1 DEF ClearedLater, StepsInv
<1>4. (OnePlace' /\ OnItsWay') \/ CSharp'
  <2> SUFFICES ASSUME ~CSharp PROVE OnePlace' /\ OnItsWay'
    BY DEF CSharp
  <2>1. OnePlace'
    BY <1>1 DEF OnePlace, Uncaught, JavaReportsOnce, CSharp, StepsInv
  <2>2. OnItsWay'
    BY <1>1 DEF OnItsWay, OnePlace, Uncaught, StepsInv
  <2> QED
    BY <2>1, <2>2
<1> QED
  BY <1>1, <1>2, <1>3, <1>4

(* Reading the field keeps the invariant. *)
LEMMA ReadDeferredInv ==
    ASSUME NEW t \in Evolutions, IInv, ReadDeferred(t)
    PROVE  IInv'
<1> USE SharedAssumption DEF IInv, TypeOK, ReadDeferred, Goto
<1>1. TypeOK'
  BY DEF Steps
<1>2. StepsInv'
  BY <1>1 DEF StepsInv, Uncaught, CSharp
<1>3. ClearedLater'
  BY <1>1 DEF ClearedLater, StepsInv
<1>4. (OnePlace' /\ OnItsWay') \/ CSharp'
  BY DEF CSharp
<1> QED
  BY <1>1, <1>2, <1>3, <1>4

(* Assigning it keeps the invariant. *)
LEMMA AssignDeferredInv ==
    ASSUME NEW t \in Evolutions, IInv, AssignDeferred(t)
    PROVE  IInv'
<1> USE SharedAssumption DEF IInv, TypeOK, AssignDeferred, Goto
<1>1. TypeOK'
  BY DEF Steps
<1>2. StepsInv'
  BY <1>1 DEF StepsInv, Uncaught, CSharp
<1>3. ClearedLater'
  BY <1>1 DEF ClearedLater, StepsInv
<1>4. (OnePlace' /\ OnItsWay') \/ CSharp'
  BY DEF StepsInv, CSharp
<1> QED
  BY <1>1, <1>2, <1>3, <1>4

(* compareAndSet keeps the invariant. *)
LEMMA CompareAndSetInv ==
    ASSUME NEW t \in Evolutions, IInv, CompareAndSet(t)
    PROVE  IInv'
<1> USE SharedAssumption DEF IInv, TypeOK, CompareAndSet, Goto, KeepFirst
<1>1. TypeOK'
  BY DEF Steps
<1>2. StepsInv'
  BY <1>1 DEF StepsInv, Uncaught, CSharp
<1>3. ClearedLater'
  BY <1>1 DEF ClearedLater, StepsInv
<1>4. (OnePlace' /\ OnItsWay') \/ CSharp'
  <2> SUFFICES ASSUME ~CSharp PROVE OnePlace' /\ OnItsWay'
    BY DEF CSharp
  <2>1. OnePlace'
    BY <1>1 DEF OnePlace, Uncaught, JavaReportsOnce, CSharp, StepsInv
  <2>2. OnItsWay'
    BY <1>1 DEF OnItsWay, OnePlace, Uncaught, StepsInv
  <2> QED
    BY <2>1, <2>2
<1> QED
  BY <1>1, <1>2, <1>3, <1>4

(* A failing description keeps the invariant. *)
LEMMA DescriptionThrowsInv ==
    ASSUME NEW t \in Evolutions, IInv, DescriptionThrows(t)
    PROVE  IInv'
<1> USE SharedAssumption DEF IInv, TypeOK, DescriptionThrows, Goto
<1>1. TypeOK'
  BY DEF Steps
<1>2. StepsInv'
  BY <1>1 DEF StepsInv, Uncaught, CSharp
<1>3. ClearedLater'
  BY <1>1 DEF ClearedLater, StepsInv
<1>4. (OnePlace' /\ OnItsWay') \/ CSharp'
  <2> SUFFICES ASSUME ~CSharp PROVE OnePlace' /\ OnItsWay'
    BY DEF CSharp
  <2>1. OnePlace'
    BY <1>1 DEF OnePlace, Uncaught, JavaReportsOnce, CSharp, StepsInv
  <2>2. OnItsWay'
    BY <1>1 DEF OnItsWay, OnePlace, Uncaught, StepsInv
  <2> QED
    BY <2>1, <2>2
<1> QED
  BY <1>1, <1>2, <1>3, <1>4

(* Deferring it keeps the invariant. *)
LEMMA DeferDescriptionInv ==
    ASSUME NEW t \in Evolutions, IInv, DeferDescription(t)
    PROVE  IInv'
<1> USE SharedAssumption DEF IInv, TypeOK, DeferDescription, Goto, KeepFirst
<1>1. TypeOK'
  BY DEF Steps
<1>2. StepsInv'
  BY <1>1 DEF StepsInv, Uncaught, CSharp
<1>3. ClearedLater'
  BY <1>1 DEF ClearedLater, StepsInv
<1>4. (OnePlace' /\ OnItsWay') \/ CSharp'
  <2> SUFFICES ASSUME ~CSharp PROVE OnePlace' /\ OnItsWay'
    BY DEF CSharp
  <2>1. OnePlace'
    BY <1>1 DEF OnePlace, Uncaught, JavaReportsOnce, CSharp, StepsInv
  <2>2. OnItsWay'
    BY <1>1 DEF OnItsWay, OnePlace, Uncaught, StepsInv
  <2> QED
    BY <2>1, <2>2
<1> QED
  BY <1>1, <1>2, <1>3, <1>4

(* Capturing keeps the invariant. *)
LEMMA ReadForConsumeInv ==
    ASSUME NEW t \in Evolutions, IInv, ReadForConsume(t)
    PROVE  IInv'
<1> USE SharedAssumption DEF IInv, TypeOK, ReadForConsume, Goto
<1>1. TypeOK'
  BY DEF Steps
<1>2. StepsInv'
  BY <1>1 DEF StepsInv, Uncaught, CSharp
<1>3. ClearedLater'
  BY <1>1 DEF ClearedLater, StepsInv
<1>4. (OnePlace' /\ OnItsWay') \/ CSharp'
  BY DEF CSharp
<1> QED
  BY <1>1, <1>2, <1>3, <1>4

(* Clearing keeps the invariant. *)
LEMMA ClearForConsumeInv ==
    ASSUME NEW t \in Evolutions, IInv, ClearForConsume(t)
    PROVE  IInv'
<1> USE SharedAssumption DEF IInv, TypeOK, ClearForConsume, Goto, Cleared
<1>1. TypeOK'
  BY DEF Steps
<1>2. StepsInv'
  BY <1>1 DEF StepsInv, Uncaught, CSharp
<1>3. ClearedLater'
  BY <1>1 DEF ClearedLater, StepsInv
<1>4. (OnePlace' /\ OnItsWay') \/ CSharp'
  BY DEF StepsInv, CSharp
<1> QED
  BY <1>1, <1>2, <1>3, <1>4

(* getAndSet keeps the invariant. *)
LEMMA GetAndSetInv ==
    ASSUME NEW t \in Evolutions, IInv, GetAndSet(t)
    PROVE  IInv'
<1> USE SharedAssumption DEF IInv, TypeOK, GetAndSet, Goto, Cleared
<1>1. TypeOK'
  BY DEF Steps
<1>2. StepsInv'
  BY <1>1 DEF StepsInv, Uncaught, CSharp
<1>3. ClearedLater'
  BY <1>1 DEF ClearedLater, StepsInv
<1>4. (OnePlace' /\ OnItsWay') \/ CSharp'
  <2> SUFFICES ASSUME ~CSharp PROVE OnePlace' /\ OnItsWay'
    BY DEF CSharp
  <2>1. OnePlace'
    BY <1>1 DEF OnePlace, Uncaught, JavaReportsOnce, CSharp, StepsInv
  <2>2. OnItsWay'
    BY <1>1 DEF OnItsWay, OnePlace, Uncaught, StepsInv
  <2> QED
    BY <2>1, <2>2
<1> QED
  BY <1>1, <1>2, <1>3, <1>4

(* Reporting keeps the invariant. *)
LEMMA ThrowIfDeferredInv ==
    ASSUME NEW t \in Evolutions, IInv, ThrowIfDeferred(t)
    PROVE  IInv'
<1> USE SharedAssumption DEF IInv, TypeOK, ThrowIfDeferred, Goto, Reported
<1>1. TypeOK'
  BY DEF Steps
<1>2. StepsInv'
  BY <1>1 DEF StepsInv, Uncaught, CSharp
<1>3. ClearedLater'
  BY <1>1 DEF ClearedLater, StepsInv
<1>4. (OnePlace' /\ OnItsWay') \/ CSharp'
  <2> SUFFICES ASSUME ~CSharp PROVE OnePlace' /\ OnItsWay'
    BY DEF CSharp
  <2>1. OnePlace'
    BY <1>1 DEF OnePlace, Uncaught, JavaReportsOnce, CSharp, StepsInv
  <2>2. OnItsWay'
    BY <1>1 DEF OnItsWay, OnePlace, Uncaught, StepsInv
  <2> QED
    BY <2>1, <2>2
<1> QED
  BY <1>1, <1>2, <1>3, <1>4

LEMMA StepInv == IInv /\ [Next]_vars => IInv'
<1> SUFFICES ASSUME IInv, [Next]_vars PROVE IInv'
  OBVIOUS
<1>1. CASE Next
  BY <1>1, EvolveInv, EvolvedInv, EvolveThrowsInv, ReadDeferredInv,
     AssignDeferredInv, CompareAndSetInv, DescriptionThrowsInv, DeferDescriptionInv,
     ReadForConsumeInv, ClearForConsumeInv,
     GetAndSetInv, ThrowIfDeferredInv DEF Next, Step
<1>2. CASE UNCHANGED vars
  BY <1>2 DEF IInv, vars, TypeOK, StepsInv, ClearedLater, OnePlace, OnItsWay,
              Uncaught, CSharp, JavaReportsOnce
<1> QED
  BY <1>1, <1>2

(* The strengthened invariant holds of every reachable state.                 *)
THEOREM Invariance == Spec => []IInv
BY InitInv, StepInv, PTL DEF Spec

(* Every variable has its type, for any number of evolutions and failures.     *)
THEOREM TypeCorrect == Spec => []TypeOK
BY Invariance, PTL DEF IInv

(* No exception of an evolution outlives those it was thrown during, although   *)
(* two of the adapters' operations are not atomic in .NET.                     *)
THEOREM NothingStaleHolds == Spec => []NothingStale
<1>1. IInv => NothingStale
  BY DEF IInv, ClearedLater, NothingStale, Idle
<1> QED
  BY <1>1, Invariance, PTL

(* In Java no exception is thrown to two islands.                             *)
THEOREM JavaReportsOnceHolds == Spec => []JavaReportsOnce
<1>1. IInv => JavaReportsOnce
  BY DEF IInv, OnePlace, JavaReportsOnce
<1> QED
  BY <1>1, Invariance, PTL

(* In Java a round of evolutions in which one failed throws to some island.    *)
THEOREM JavaFailureReportedHolds == Spec => []JavaFailureReported
<1>1. IInv => JavaFailureReported
  <2> SUFFICES ASSUME IInv, ~CSharp, FailedRound
               PROVE  \E t \in Evolutions : reports[t] # {}
    BY DEF JavaFailureReported
  <2> QED
    BY DEF IInv, OnItsWay, FailedRound, Idle
<1> QED
  BY <1>1, Invariance, PTL
-----------------------------------------------------------------------------
(* No evolution through the adapter begins before the last one has ended.       *)
InTurn == \A t \in Evolutions : Evolve(t) => Idle

(* While evolutions take turns, .NET's two steps belong to one thread, and what  *)
(* it threw, kept or took is on its way to its island, or has reached one.       *)
Alone ==
    CSharp =>
        /\ \A t, u \in Evolutions : pc[t] # "idle" /\ pc[u] # "idle" => t = u
        /\ described = {}
        /\ thrown # {} =>
               \E t \in Evolutions : \/ pc[t] \in {"caught", "assign"} /\ caught[t] # NoFailure
                                     \/ pc[t] = "consume" /\ deferred # NoFailure
                                     \/ pc[t] \in {"clear", "throw_if"} /\ captured[t] # NoFailure
                                     \/ reports[t] # {}

LEMMA AloneStep == TypeOK /\ Alone /\ [Next]_vars /\ [InTurn]_vars => Alone'
<1> SUFFICES ASSUME TypeOK, Alone, [Next]_vars, [InTurn]_vars, CSharp'
             PROVE  Alone'
  BY DEF Alone
<1>1. CASE UNCHANGED vars
  BY <1>1 DEF Alone, vars, CSharp
<1>2. ASSUME NEW t \in Evolutions, Step(t), ~UNCHANGED vars
      PROVE  Alone'
  <2> USE SharedAssumption DEF TypeOK, Goto
  <2>1. CSharp
    BY <1>2 DEF CSharp, Step, Evolve, Evolved, EvolveThrows, ReadDeferred, AssignDeferred,
                CompareAndSet, DescriptionThrows, DeferDescription, ReadForConsume,
                ClearForConsume, GetAndSet, ThrowIfDeferred
  <2>2. CASE Evolve(t)
    BY <1>2, <2>1, <2>2 DEF InTurn, Idle, Evolve, Alone, Steps
  <2>3. CASE Evolved(t)
    BY <2>1, <2>3 DEF Evolved, Alone, Steps
  <2>4. CASE EvolveThrows(t)
    BY <2>1, <2>4 DEF EvolveThrows, Alone, Steps
  <2>5. CASE ReadDeferred(t)
    BY <2>1, <2>5 DEF ReadDeferred, Alone, Steps
  <2>6. CASE AssignDeferred(t)
    BY <2>1, <2>6 DEF AssignDeferred, Alone, Steps
  <2>7. CASE ReadForConsume(t)
    BY <2>1, <2>7 DEF ReadForConsume, Alone, Steps
  <2>8. CASE ClearForConsume(t)
    BY <2>1, <2>8 DEF ClearForConsume, Alone, Steps
  <2>9. CASE ThrowIfDeferred(t)
    BY <2>1, <2>9 DEF ThrowIfDeferred, Reported, Alone, Steps
  <2>10. CASE DeferDescription(t)
    BY <2>1, <2>10 DEF DeferDescription, Alone, Steps
  <2>. QED
    BY <1>2, <2>1, <2>2, <2>3, <2>4, <2>5, <2>6, <2>7, <2>8, <2>9, <2>10
       DEF Step, CompareAndSet, DescriptionThrows, GetAndSet
<1>. QED  BY <1>1, <1>2 DEF Next

(* consume_deferred_exception keeps its word, in .NET too, as long as the        *)
(* evolutions through one adapter take turns: a round with a failure throws one.  *)
THEOREM FailureReportedInTurn == Spec /\ [][InTurn]_vars => []FailureReported
<1>1. Init => Alone
  BY DEF Init, Alone
<1>2. TypeOK /\ Alone /\ [Next]_vars /\ [InTurn]_vars => Alone'
  BY AloneStep
<1>3. Alone /\ JavaFailureReported => FailureReported
  BY DEF Alone, JavaFailureReported, FailureReported, FailedRound, Idle
<1>. QED  BY <1>1, <1>2, <1>3, TypeCorrect, JavaFailureReportedHolds, PTL DEF Spec
=============================================================================
