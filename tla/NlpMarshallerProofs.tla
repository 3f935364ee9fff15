------------------------- MODULE NlpMarshallerProofs -------------------------
(***************************************************************************)
(* HessianPlaced and GradientPlaced for every problem, and the marshaller's  *)
(* assertions about its patterns.  The walk of eval_h along a component's     *)
(* pattern and the merged one is right because both are sorted: an entry      *)
(* before the cursor has been met at an earlier slot, one at or after it has  *)
(* not, so a slot whose number is not the cursor's belongs to no entry.  The  *)
(* first derivatives are right because the rows of the objective come first   *)
(* in the pattern, whose length is where both callbacks split the values.      *)
(***************************************************************************)
EXTENDS NlpMarshaller, FiniteSetTheorems, TLAPS

Hsp(j) == nlpProblem.hsp[j]
Steps == {"construct", "merge", "ready", "sparse", "dense", "evaluated"}

(* What slot i holds once the components 0..n have been added.                *)
Terms(i, n) == {Product(j, lagSp[i]) : j \in {c \in 0..n : lagSp[i] \in Entries(Hsp(c))}}

Typed ==
    /\ nlpProblem \in NlpProblems
    /\ nlpPc \in Steps
    /\ component \in 0..nlpProblem.nc
    /\ slot \in Nat \ {0}
    /\ cursor \in Nat \ {0}
    /\ lagSp \in Seq(Nat)
    /\ Sorted(lagSp)

(* The merged pattern has every entry of every component merged so far.        *)
Merged ==
    /\ nlpPc = "construct" => lagSp = <<>> /\ component = 0
    /\ nlpPc = "merge" =>
          /\ nlpProblem.hess = "sparse"
          /\ \A e : e \in Entries(lagSp)
                    <=> \E j \in 0..(component - 1) : e \in Entries(Hsp(j))
    /\ nlpPc \notin {"construct", "merge"} =>
          IF nlpProblem.hess = "sparse"
            THEN \A e : e \in Entries(lagSp)
                        <=> \E j \in 0..nlpProblem.nc : e \in Entries(Hsp(j))
            ELSE lagSp = DenseHessian(nlpProblem.nx)

(* The entries before the cursor are those that earlier slots held.            *)
CursorRight ==
    \A k \in DOMAIN Hsp(component) :
        k < cursor <=> \E i \in DOMAIN lagSp : i < slot /\ lagSp[i] = Hsp(component)[k]

Filled ==
    /\ nlpPc \in {"sparse", "dense", "evaluated"} =>
          /\ nlpProblem.hess # "none"
          /\ hValues = [i \in DOMAIN lagSp |-> hValues[i]]
    /\ nlpPc = "sparse" =>
          /\ nlpProblem.hess = "sparse"
          /\ slot <= Len(lagSp) + 1
          /\ CursorRight
          /\ \A i \in DOMAIN lagSp :
                /\ i < slot => hValues[i] = Terms(i, component)
                /\ i >= slot /\ component > 0 => hValues[i] = Terms(i, component - 1)
    /\ nlpPc = "dense" =>
          /\ nlpProblem.hess = "dense"
          /\ component > 0 =>
                \A i \in DOMAIN lagSp : hValues[i] = Terms(i, component - 1)
    /\ nlpPc = "evaluated" =>
          \A i \in DOMAIN lagSp : hValues[i] = Terms(i, nlpProblem.nc)

NlpInv == Typed /\ Merged /\ Filled
-----------------------------------------------------------------------------
LEMMA ProblemFacts ==
    ASSUME NEW p \in NlpProblems
    PROVE  /\ p.nx \in Nat \ {0} /\ p.nc \in Nat
           /\ p.hess \in {"none", "dense", "sparse"}
           /\ \A j \in 0..p.nc : p.hsp[j] \in Seq(Nat) /\ Sorted(p.hsp[j])
           /\ p.hess = "dense" => \A j \in 0..p.nc : p.hsp[j] = DenseHessian(p.nx)
BY NlpAssumption DEF NlpAssumption

LEMMA DenseSorted ==
    ASSUME NEW n \in Nat
    PROVE  DenseHessian(n) \in Seq(Nat) /\ Sorted(DenseHessian(n))
<1> DEFINE len == (n * (n + 1)) \div 2
           D == [k \in 1..len |-> k]
<1>1. len \in Nat
  <2>1. n * (n + 1) \in Nat
    OBVIOUS
  <2>2. ASSUME NEW m \in Nat PROVE m \div 2 \in Nat
    OBVIOUS
  <2>. QED  BY <2>1, <2>2
<1>. HIDE DEF len
<1>2. D \in Seq(Nat) /\ Sorted(D)
  BY <1>1 DEF Sorted
<1>3. DenseHessian(n) = D
  BY DEF DenseHessian, len
<1>. QED  BY <1>2, <1>3

(* Adding one component to a slot.                                            *)
LEMMA TermsStep ==
    ASSUME Typed, NEW i \in DOMAIN lagSp, NEW n \in Nat
    PROVE  Terms(i, n) = IF lagSp[i] \in Entries(Hsp(n))
                           THEN Terms(i, n - 1) \cup {Product(n, lagSp[i])}
                           ELSE Terms(i, n - 1)
<1>1. 0..n = (0..(n - 1)) \cup {n}
  OBVIOUS
<1>. QED  BY <1>1, Zenon DEF Terms

LEMMA TermsNone ==
    ASSUME NEW i PROVE Terms(i, 0 - 1) = {}
BY DEF Terms

(* A slot that is not the cursor's belongs to no entry of the component.       *)
LEMMA SkippedIsForeign ==
    ASSUME NlpInv, nlpPc = "sparse", slot \in DOMAIN lagSp, ~EntryHere
    PROVE  lagSp[slot] \notin Entries(Hsp(component))
<1>. DEFINE h == Hsp(component)
<1>1. h \in Seq(Nat) /\ Sorted(h) /\ lagSp \in Seq(Nat) /\ Sorted(lagSp)
      /\ cursor \in Nat /\ slot \in Nat
  BY ProblemFacts DEF NlpInv, Typed, Hsp
<1>2. CursorRight
  BY DEF NlpInv, Filled
<1>3. SUFFICES ASSUME NEW k \in DOMAIN h, h[k] = lagSp[slot] PROVE FALSE
  BY DEF Entries
<1>4. k # cursor
  BY <1>3 DEF EntryHere, Hsp
<1>5. CASE k < cursor
  <2>1. PICK i \in DOMAIN lagSp : i < slot /\ lagSp[i] = h[k]
    BY <1>2, <1>5 DEF CursorRight
  <2>2. lagSp[i] < lagSp[slot]
    BY <1>1, <2>1 DEF Sorted
  <2>. QED  BY <1>1, <1>3, <2>1, <2>2
<1>6. CASE k > cursor
  <2>1. cursor \in DOMAIN h
    BY <1>1, <1>6 DEF NlpInv, Typed
  <2>2. h[cursor] < h[k]
    BY <1>1, <1>6, <2>1 DEF Sorted
  <2>3. PICK i \in DOMAIN lagSp : lagSp[i] = h[cursor]
    <3>1. h[cursor] \in Entries(Hsp(component)) /\ component \in 0..nlpProblem.nc
      BY <2>1 DEF NlpInv, Typed, Entries
    <3>2. \A e : e \in Entries(lagSp) <=> \E j \in 0..nlpProblem.nc : e \in Entries(Hsp(j))
      BY DEF NlpInv, Merged, Filled
    <3>3. h[cursor] \in Entries(lagSp)
      BY <3>1, <3>2, Zenon
    <3>. QED  BY <3>3 DEF Entries
  <2>4. i < slot
    <3>1. lagSp[i] < lagSp[slot]
      BY <1>3, <2>2, <2>3
    <3>2. i # slot /\ ~(slot < i)
      BY <1>1, <3>1 DEF Sorted
    <3>. QED  BY <1>1, <3>2
  <2>5. cursor < cursor
    BY <1>2, <2>1, <2>3, <2>4 DEF CursorRight
  <2>. QED  BY <1>1, <2>5
<1>7. k \in Nat
  BY <1>1
<1>. QED  BY <1>1, <1>4, <1>5, <1>6, <1>7
-----------------------------------------------------------------------------
LEMMA NlpInitial == NlpInit => NlpInv
<1>. SUFFICES ASSUME NlpInit PROVE NlpInv
  OBVIOUS
<1>1. Typed
  BY ProblemFacts DEF NlpInit, Typed, Steps, Sorted
<1>. QED  BY <1>1 DEF NlpInit, NlpInv, Merged, Filled

LEMMA ConstructKeeps == NlpInv /\ NlpConstruct => NlpInv'
<1>. SUFFICES ASSUME NlpInv, NlpConstruct PROVE NlpInv'
  OBVIOUS
<1>1. nlpProblem \in NlpProblems /\ nlpProblem.nx \in Nat /\ nlpProblem.hess \in {"none", "dense", "sparse"}
  BY ProblemFacts DEF NlpInv, Typed
<1>2. Typed'
  BY <1>1, DenseSorted DEF NlpInv, Typed, NlpConstruct, Steps
<1>3. Merged'
  <2>1. lagSp = <<>> /\ component = 0
    BY DEF NlpInv, Merged, NlpConstruct
  <2>2. Entries(<<>>) = {}
    BY DEF Entries
  <2>. QED  BY <1>1, <2>1, <2>2 DEF Merged, NlpConstruct
<1>4. Filled'
  BY DEF Filled, NlpConstruct
<1>. QED  BY <1>2, <1>3, <1>4 DEF NlpInv

LEMMA MergeKeeps == NlpInv /\ NlpMerge => NlpInv'
<1>. SUFFICES ASSUME NlpInv, NlpMerge PROVE NlpInv'
  OBVIOUS
<1>1. /\ nlpProblem \in NlpProblems /\ nlpProblem.nc \in Nat /\ component \in 0..nlpProblem.nc
      /\ Hsp(component) \in Seq(Nat) /\ lagSp \in Seq(Nat) /\ nlpProblem.hess = "sparse"
  BY ProblemFacts DEF NlpInv, Typed, Hsp, Merged, NlpMerge
<1>2. PICK n \in 0..(Len(lagSp) + Len(Hsp(component))) :
        \E u \in [1..n -> Entries(lagSp) \cup Entries(Hsp(component))] :
           IsUnion(u, lagSp, Hsp(component)) /\ lagSp' = u
  BY DEF NlpMerge, Hsp
<1>3. /\ lagSp' \in [1..n -> Entries(lagSp) \cup Entries(Hsp(component))]
      /\ IsUnion(lagSp', lagSp, Hsp(component))
  BY <1>2
<1>4. Entries(lagSp) \cup Entries(Hsp(component)) \subseteq Nat
  BY <1>1 DEF Entries
<1>5. lagSp' \in Seq(Nat) /\ Sorted(lagSp')
  <2>1. n \in Nat
    BY <1>1
  <2>2. lagSp' \in [1..n -> Nat]
    BY <1>3, <1>4
  <2>. QED  BY <1>3, <2>1, <2>2 DEF IsUnion
<1>6. component' \in 0..nlpProblem.nc
  BY <1>1 DEF NlpMerge
<1>7. Typed'
  BY <1>5, <1>6 DEF NlpInv, Typed, NlpMerge, Steps
<1>8. \A e : e \in Entries(lagSp') <=> \E j \in 0..component : e \in Entries(Hsp(j))
  <2>1. \A e : e \in Entries(lagSp) <=> \E j \in 0..(component - 1) : e \in Entries(Hsp(j))
    BY DEF NlpInv, Merged, NlpMerge
  <2>2. Entries(lagSp') = Entries(lagSp) \cup Entries(Hsp(component))
    BY <1>3 DEF IsUnion
  <2>3. 0..component = (0..(component - 1)) \cup {component}
    BY <1>1
  <2>. QED  BY <2>1, <2>2, <2>3
<1>9. Merged'
  <2>1. CASE component < nlpProblem.nc
    <3>1. component' - 1 = component /\ nlpPc' = "merge" /\ nlpProblem' = nlpProblem
      BY <1>1, <2>1 DEF NlpMerge
    <3>2. \A e : e \in Entries(lagSp') <=> \E j \in 0..(component' - 1) : e \in Entries(Hsp(j))'
      BY <1>8, <3>1 DEF Hsp
    <3>. QED  BY <1>1, <3>1, <3>2 DEF Merged
  <2>2. CASE ~(component < nlpProblem.nc)
    <3>1. component = nlpProblem.nc
      BY <1>1, <2>2
    <3>. QED  BY <1>1, <1>8, <2>2, <3>1 DEF NlpMerge, Merged, Hsp
  <2>. QED  BY <2>1, <2>2
<1>10. Filled'
  BY DEF Filled, NlpMerge
<1>. QED  BY <1>7, <1>9, <1>10 DEF NlpInv

LEMMA EvalHKeeps == NlpInv /\ NlpEvalH => NlpInv'
<1>. SUFFICES ASSUME NlpInv, NlpEvalH PROVE NlpInv'
  OBVIOUS
<1>1. /\ nlpProblem \in NlpProblems /\ nlpProblem.nc \in Nat /\ lagSp \in Seq(Nat)
      /\ nlpProblem.hess \in {"dense", "sparse"}
      /\ nlpProblem.hsp[0] \in Seq(Nat)
  BY ProblemFacts DEF NlpInv, Typed, NlpEvalH
<1>2. Typed'
  BY <1>1 DEF NlpInv, Typed, NlpEvalH, Steps
<1>3. Merged'
  BY <1>1 DEF NlpInv, Merged, NlpEvalH, Hsp
<1>4. Filled'
  BY <1>1 DEF Filled, NlpEvalH, CursorRight, Hsp
<1>. QED  BY <1>2, <1>3, <1>4 DEF NlpInv

LEMMA PlaceEntryKeeps == NlpInv /\ NlpPlaceEntry => NlpInv'
<1>. SUFFICES ASSUME NlpInv, NlpPlaceEntry PROVE NlpInv'
  OBVIOUS
<1>. DEFINE h == Hsp(component)
<1>1. /\ nlpProblem \in NlpProblems /\ component \in Nat
      /\ lagSp \in Seq(Nat) /\ slot \in Nat /\ slot \in DOMAIN lagSp
      /\ cursor \in Nat /\ cursor \in DOMAIN h /\ h[cursor] = lagSp[slot]
      /\ h \in Seq(Nat) /\ Sorted(h) /\ Sorted(lagSp)
  BY ProblemFacts DEF NlpInv, Typed, NlpPlaceEntry, EntryHere, Hsp
<1>2. Typed'
  BY DEF NlpInv, Typed, NlpPlaceEntry
<1>3. Merged'
  BY DEF NlpInv, Merged, NlpPlaceEntry, Hsp
<1>4. /\ CursorRight
      /\ hValues = [i \in DOMAIN lagSp |-> hValues[i]]
      /\ \A i \in DOMAIN lagSp :
            /\ i < slot => hValues[i] = Terms(i, component)
            /\ i >= slot /\ component > 0 => hValues[i] = Terms(i, component - 1)
  BY DEF NlpInv, Filled, NlpPlaceEntry
<1>5. CursorRight'
  <2>1. SUFFICES ASSUME NEW k \in DOMAIN h
                 PROVE  k < cursor + 1 <=> \E i \in DOMAIN lagSp : i < slot + 1 /\ lagSp[i] = h[k]
    BY DEF CursorRight, NlpPlaceEntry, Hsp
  <2>2. k \in Nat
    BY <1>1
  <2>3. ASSUME k < cursor + 1 PROVE \E i \in DOMAIN lagSp : i < slot + 1 /\ lagSp[i] = h[k]
    <3>1. CASE k = cursor
      BY <1>1, <3>1
    <3>2. CASE k < cursor
      BY <1>1, <1>4, <3>2 DEF CursorRight
    <3>. QED  BY <1>1, <2>2, <2>3, <3>1, <3>2
  <2>4. ASSUME NEW i \in DOMAIN lagSp, i < slot + 1, lagSp[i] = h[k] PROVE k < cursor + 1
    <3>1. CASE i = slot
      BY <1>1, <2>2, <2>4, <3>1 DEF Sorted
    <3>2. CASE i < slot
      <4>1. k < cursor
        BY <1>4, <2>4, <3>2, Zenon DEF CursorRight
      <4>. QED  BY <1>1, <2>2, <4>1
    <3>. QED  BY <1>1, <2>4, <3>1, <3>2
  <2>. QED  BY <2>3, <2>4
<1>6. Terms(slot, component) = Terms(slot, component - 1) \cup {Product(component, lagSp[slot])}
  BY <1>1, TermsStep DEF NlpInv, Entries
<1>7. ASSUME NEW i \in DOMAIN lagSp
      PROVE  /\ i < slot + 1 => hValues'[i] = Terms(i, component)
             /\ i >= slot + 1 /\ component > 0 => hValues'[i] = Terms(i, component - 1)
  <2>1. CASE i = slot
    <3>1. hValues'[slot] = IF component = 0 THEN {Product(component, lagSp[slot])}
                           ELSE hValues[slot] \cup {Product(component, lagSp[slot])}
      BY <1>1, <1>4 DEF NlpPlaceEntry, Hsp
    <3>2. CASE component = 0
      BY <1>1, <1>6, <2>1, <3>1, <3>2, TermsNone
    <3>3. CASE component > 0
      <4>1. slot >= slot /\ ~(slot >= slot + 1) /\ component # 0
        BY <1>1, <3>3
      <4>2. hValues[slot] = Terms(slot, component - 1)
        BY <1>1, <1>4, <3>3, <4>1
      <4>. QED  BY <1>6, <2>1, <3>1, <4>1, <4>2
    <3>. QED  BY <1>1, <3>2, <3>3
  <2>2. CASE i # slot
    <3>1. hValues'[i] = hValues[i]
      BY <1>4, <2>2 DEF NlpPlaceEntry
    <3>. QED  BY <1>1, <1>4, <2>2, <3>1
  <2>. QED  BY <2>1, <2>2
<1>8. /\ lagSp' = lagSp /\ component' = component /\ slot' = slot + 1 /\ nlpPc' = "sparse"
      /\ nlpProblem' = nlpProblem /\ nlpProblem.hess = "sparse"
      /\ hValues' = [i \in DOMAIN lagSp' |-> hValues'[i]]
      /\ slot' <= Len(lagSp') + 1
  <2>1. /\ lagSp' = lagSp /\ component' = component /\ slot' = slot + 1 /\ nlpPc' = "sparse"
        /\ nlpProblem' = nlpProblem /\ nlpProblem.hess = "sparse"
    BY DEF NlpPlaceEntry, NlpInv, Filled
  <2>2. hValues' = [i \in DOMAIN lagSp |-> hValues'[i]]
    BY <1>4 DEF NlpPlaceEntry
  <2>3. slot + 1 <= Len(lagSp) + 1
    BY <1>1
  <2>. QED  BY <2>1, <2>2, <2>3
<1>9. \A i, n : Terms(i, n)' = Terms(i, n)
  BY <1>8 DEF Terms, Hsp
<1>10. Filled'
  BY <1>5, <1>7, <1>8, <1>9 DEF Filled, Terms, Hsp
<1>. QED  BY <1>2, <1>3, <1>10 DEF NlpInv

LEMMA SkipSlotKeeps == NlpInv /\ NlpSkipSlot => NlpInv'
<1>. SUFFICES ASSUME NlpInv, NlpSkipSlot PROVE NlpInv'
  OBVIOUS
<1>. DEFINE h == Hsp(component)
<1>1. /\ nlpProblem \in NlpProblems /\ component \in Nat
      /\ lagSp \in Seq(Nat) /\ slot \in Nat /\ slot \in DOMAIN lagSp /\ cursor \in Nat
      /\ h \in Seq(Nat)
  BY ProblemFacts DEF NlpInv, Typed, NlpSkipSlot, Hsp
<1>2. Typed'
  BY DEF NlpInv, Typed, NlpSkipSlot
<1>3. Merged'
  BY DEF NlpInv, Merged, NlpSkipSlot, Hsp
<1>4. /\ CursorRight
      /\ hValues = [i \in DOMAIN lagSp |-> hValues[i]]
      /\ \A i \in DOMAIN lagSp :
            /\ i < slot => hValues[i] = Terms(i, component)
            /\ i >= slot /\ component > 0 => hValues[i] = Terms(i, component - 1)
  BY DEF NlpInv, Filled, NlpSkipSlot
<1>5. lagSp[slot] \notin Entries(h)
  BY SkippedIsForeign DEF NlpSkipSlot
<1>6. CursorRight'
  <2>1. SUFFICES ASSUME NEW k \in DOMAIN h
                 PROVE  k < cursor <=> \E i \in DOMAIN lagSp : i < slot + 1 /\ lagSp[i] = h[k]
    BY DEF CursorRight, NlpSkipSlot, Hsp
  <2>2. lagSp[slot] # h[k]
    BY <1>5 DEF Entries
  <2>3. \A i \in DOMAIN lagSp : i < slot + 1 <=> i < slot \/ i = slot
    <3>1. DOMAIN lagSp \subseteq Nat
      BY <1>1
    <3>. QED  BY <1>1, <3>1
  <2>4. k < cursor <=> \E i \in DOMAIN lagSp : i < slot /\ lagSp[i] = h[k]
    BY <1>4 DEF CursorRight
  <2>. QED  BY <2>2, <2>3, <2>4, Zenon
<1>7. Terms(slot, component) = Terms(slot, component - 1)
  BY <1>1, <1>5, TermsStep DEF NlpInv
<1>8. ASSUME NEW i \in DOMAIN lagSp
      PROVE  /\ i < slot + 1 => hValues'[i] = Terms(i, component)
             /\ i >= slot + 1 /\ component > 0 => hValues'[i] = Terms(i, component - 1)
  <2>1. CASE i = slot
    <3>1. hValues'[slot] = IF component = 0 THEN {} ELSE hValues[slot]
      BY <1>1, <1>4 DEF NlpSkipSlot
    <3>2. CASE component = 0
      BY <1>1, <1>7, <2>1, <3>1, <3>2, TermsNone
    <3>3. CASE component > 0
      BY <1>1, <1>4, <1>7, <2>1, <3>1, <3>3
    <3>. QED  BY <1>1, <3>2, <3>3
  <2>2. CASE i # slot
    <3>1. hValues'[i] = hValues[i]
      BY <1>4, <2>2 DEF NlpSkipSlot
    <3>. QED  BY <1>1, <1>4, <2>2, <3>1
  <2>. QED  BY <2>1, <2>2
<1>9. /\ lagSp' = lagSp /\ component' = component /\ slot' = slot + 1 /\ nlpPc' = "sparse"
      /\ nlpProblem' = nlpProblem /\ nlpProblem.hess = "sparse"
      /\ hValues' = [i \in DOMAIN lagSp' |-> hValues'[i]]
      /\ slot' <= Len(lagSp') + 1
  <2>1. /\ lagSp' = lagSp /\ component' = component /\ slot' = slot + 1 /\ nlpPc' = "sparse"
        /\ nlpProblem' = nlpProblem /\ nlpProblem.hess = "sparse"
    BY DEF NlpSkipSlot, NlpInv, Filled
  <2>2. hValues' = [i \in DOMAIN lagSp |-> hValues'[i]]
    BY <1>4 DEF NlpSkipSlot
  <2>3. slot + 1 <= Len(lagSp) + 1
    BY <1>1
  <2>. QED  BY <2>1, <2>2, <2>3
<1>10. Filled'
  BY <1>6, <1>8, <1>9 DEF Filled, Terms, Hsp
<1>. QED  BY <1>2, <1>3, <1>10 DEF NlpInv

LEMMA NextComponentKeeps == NlpInv /\ NlpNextComponent => NlpInv'
<1>. SUFFICES ASSUME NlpInv, NlpNextComponent PROVE NlpInv'
  OBVIOUS
<1>1. /\ nlpProblem \in NlpProblems /\ nlpProblem.nc \in Nat /\ component \in 0..nlpProblem.nc
      /\ lagSp \in Seq(Nat) /\ slot \in Nat \ {0} /\ slot <= Len(lagSp) + 1
      /\ slot \notin DOMAIN lagSp
      /\ \A j \in 0..nlpProblem.nc : Hsp(j) \in Seq(Nat)
  BY ProblemFacts DEF NlpInv, Typed, NlpNextComponent, Hsp, Filled
<1>2. Typed'
  BY <1>1 DEF NlpInv, Typed, NlpNextComponent, Steps
<1>3. Merged'
  BY DEF NlpInv, Merged, NlpNextComponent, Hsp, Filled
<1>4. \A i \in DOMAIN lagSp : hValues[i] = Terms(i, component)
  <2>1. \A i \in DOMAIN lagSp : i < slot
    BY <1>1
  <2>. QED  BY <2>1 DEF NlpInv, Filled, NlpNextComponent
<1>5. /\ lagSp' = lagSp /\ slot' = 1 /\ cursor' = 1 /\ hValues' = hValues
      /\ nlpProblem' = nlpProblem /\ nlpProblem.hess = "sparse"
      /\ hValues = [i \in DOMAIN lagSp |-> hValues[i]]
  BY DEF NlpInv, Filled, NlpNextComponent
<1>6. CASE component < nlpProblem.nc
  <2>1. component' = component + 1 /\ nlpPc' = "sparse"
    BY <1>6 DEF NlpNextComponent
  <2>2. CursorRight'
    BY <1>1, <1>5, <1>6, <2>1 DEF CursorRight, Hsp
  <2>3. component' - 1 = component
    BY <1>1, <2>1
  <2>4. Filled'
    BY <1>1, <1>4, <1>5, <2>1, <2>2, <2>3 DEF Filled, Terms, Hsp
  <2>. QED  BY <1>2, <1>3, <2>4 DEF NlpInv
<1>7. CASE ~(component < nlpProblem.nc)
  <2>1. component = nlpProblem.nc /\ nlpPc' = "evaluated"
    BY <1>1, <1>7 DEF NlpNextComponent
  <2>2. Filled'
    BY <1>4, <1>5, <2>1 DEF Filled, Terms, Hsp
  <2>. QED  BY <1>2, <1>3, <2>2 DEF NlpInv
<1>. QED  BY <1>6, <1>7

LEMMA DensePassKeeps == NlpInv /\ NlpDensePass => NlpInv'
<1>. SUFFICES ASSUME NlpInv, NlpDensePass PROVE NlpInv'
  OBVIOUS
<1>1. /\ nlpProblem \in NlpProblems /\ nlpProblem.nc \in Nat /\ component \in 0..nlpProblem.nc
      /\ nlpProblem.hess = "dense" /\ lagSp \in Seq(Nat)
      /\ Hsp(component) = lagSp
  BY ProblemFacts DEF NlpInv, Typed, NlpDensePass, Hsp, Filled, Merged
<1>2. Typed'
  BY <1>1 DEF NlpInv, Typed, NlpDensePass, Steps
<1>3. Merged'
  BY DEF NlpInv, Merged, NlpDensePass, Hsp, Filled
<1>4. ASSUME NEW i \in DOMAIN lagSp PROVE hValues'[i] = Terms(i, component)
  <2>1. hValues'[i] = IF component = 0 THEN {Product(component, lagSp[i])}
                      ELSE hValues[i] \cup {Product(component, lagSp[i])}
    BY <1>1 DEF NlpDensePass, Hsp
  <2>2. Terms(i, component) = Terms(i, component - 1) \cup {Product(component, lagSp[i])}
    BY <1>1, TermsStep DEF NlpInv, Entries
  <2>3. CASE component = 0
    BY <2>1, <2>2, <2>3, TermsNone
  <2>4. CASE component > 0
    BY <2>1, <2>2, <2>4 DEF NlpInv, Filled, NlpDensePass
  <2>. QED  BY <1>1, <2>3, <2>4
<1>5. /\ lagSp' = lagSp /\ nlpProblem' = nlpProblem
      /\ hValues' = [i \in DOMAIN lagSp' |-> hValues'[i]]
  BY DEF NlpDensePass
<1>6. CASE component < nlpProblem.nc
  <2>1. component' - 1 = component /\ nlpPc' = "dense"
    BY <1>1, <1>6 DEF NlpDensePass
  <2>2. Filled'
    BY <1>1, <1>4, <1>5, <2>1 DEF Filled, Terms, Hsp
  <2>. QED  BY <1>2, <1>3, <2>2 DEF NlpInv
<1>7. CASE ~(component < nlpProblem.nc)
  <2>1. component = nlpProblem.nc /\ nlpPc' = "evaluated"
    BY <1>1, <1>7 DEF NlpDensePass
  <2>2. Filled'
    BY <1>1, <1>4, <1>5, <2>1 DEF Filled, Terms, Hsp
  <2>. QED  BY <1>2, <1>3, <2>2 DEF NlpInv
<1>. QED  BY <1>6, <1>7

LEMMA ReturnKeeps == NlpInv /\ NlpReturn => NlpInv'
<1>. SUFFICES ASSUME NlpInv, NlpReturn PROVE NlpInv'
  OBVIOUS
<1>1. 0 \in 0..nlpProblem.nc
  BY ProblemFacts DEF NlpInv, Typed
<1>. QED  BY <1>1 DEF NlpInv, Typed, Merged, Filled, NlpReturn, Steps, Hsp

LEMMA FirstDerivativesKeep == NlpInv /\ (NlpEvalGradF \/ NlpEvalJacG) => NlpInv'
BY DEF NlpInv, Typed, Merged, Filled, CursorRight, Terms, NlpEvalGradF, NlpEvalJacG, Hsp

(* The invariant of the walk holds in every state.                             *)
THEOREM MarshallerInvariant == NlpSpec => []NlpInv
<1>1. NlpInv /\ UNCHANGED nlpVars => NlpInv'
  BY DEF NlpInv, Typed, Merged, Filled, nlpVars, CursorRight, Terms, Hsp
<1>2. NlpInv /\ [NlpNext]_nlpVars => NlpInv'
  BY <1>1, ConstructKeeps, MergeKeeps, EvalHKeeps, PlaceEntryKeeps, SkipSlotKeeps,
     NextComponentKeeps, DensePassKeeps, ReturnKeeps, FirstDerivativesKeep DEF NlpNext
<1>. QED  BY NlpInitial, <1>2, PTL DEF NlpSpec

(* Whatever the sparsity patterns of a problem, eval_h returns the Hessian of   *)
(* the Lagrangian in the merged pattern (HessianPlaced).                       *)
THEOREM HessianIsPlaced == NlpSpec => []HessianPlaced
<1>1. NlpInv => HessianPlaced
  <2>. SUFFICES ASSUME NlpInv, nlpPc = "evaluated" PROVE HessianPlaced
    BY DEF HessianPlaced
  <2>1. DOMAIN hValues = DOMAIN lagSp
    BY DEF NlpInv, Filled
  <2>2. \A i \in DOMAIN lagSp : hValues[i] = Terms(i, nlpProblem.nc)
    BY DEF NlpInv, Filled
  <2>3. \A j \in 0..nlpProblem.nc : Entries(nlpProblem.hsp[j]) \subseteq Entries(lagSp)
    <3>1. nlpProblem.hess \in {"dense", "sparse"} /\ nlpProblem \in NlpProblems
      BY ProblemFacts DEF NlpInv, Typed, Filled
    <3>2. CASE nlpProblem.hess = "sparse"
      BY <3>2 DEF NlpInv, Merged, Hsp
    <3>3. CASE nlpProblem.hess = "dense"
      BY <3>1, <3>3, ProblemFacts DEF NlpInv, Merged
    <3>. QED  BY <3>1, <3>2, <3>3
  <2>. QED  BY <2>1, <2>2, <2>3 DEF HessianPlaced, Terms, Hsp
<1>. QED  BY MarshallerInvariant, <1>1, PTL
-----------------------------------------------------------------------------
(* The first derivatives.  The rows of the objective come first in the pattern *)
(* because it is sorted, and their number is where both callbacks split the    *)
(* values pagmo returns.                                                      *)

Derivatives(p) == (0..p.nc) \X (0..(p.nx - 1))

LEMMA GradientFacts ==
    ASSUME NEW p \in NlpProblems
    PROVE  /\ p.nx \in Nat \ {0} /\ p.nc \in Nat /\ p.userGradient \in BOOLEAN
           /\ p.gsp \in Seq(Derivatives(p))
           /\ ~p.userGradient => p.gsp = DenseGradient(p.nx, p.nc)
BY NlpAssumption DEF NlpAssumption, Derivatives

(* The rows before the constraints' are those of the objective.                *)
LEMMA ObjectiveRows ==
    ASSUME NEW p \in NlpProblems, NEW n \in ConstraintRows(p.gsp),
           NEW k \in 1..Len(p.gsp)
    PROVE  /\ p.gsp[k] = <<p.gsp[k][1], p.gsp[k][2]>>
           /\ p.gsp[k][1] \in 0..p.nc /\ p.gsp[k][2] \in 0..(p.nx - 1)
           /\ k <= n <=> p.gsp[k][1] = 0
<1>1. p.gsp[k] \in Derivatives(p)
  BY GradientFacts
<1>2. /\ p.gsp[k] = <<p.gsp[k][1], p.gsp[k][2]>>
      /\ p.gsp[k][1] \in 0..p.nc /\ p.gsp[k][2] \in 0..(p.nx - 1)
  BY <1>1, GradientFacts DEF Derivatives
<1>3. k <= n <=> Before(p.gsp[k], <<1, 0>>)
  BY DEF ConstraintRows
<1>4. p.nc \in Nat /\ p.nx \in Nat
  BY GradientFacts
<1>. QED  BY <1>2, <1>3, <1>4 DEF Before

(* Rows and columns of a dense gradient.                                       *)
LEMMA Quotient ==
    ASSUME NEW d \in Nat \ {0}, NEW i \in Nat
    PROVE  /\ i < d => i \div d = 0 /\ i % d = i
           /\ i >= d => i \div d > 0
<1>1. i = d * (i \div d) + (i % d) /\ i % d \in 0..(d - 1) /\ i \div d \in Int
  OBVIOUS
<1>. QED  BY <1>1

LEMMA DenseSplit ==
    ASSUME NEW p \in NlpProblems, ~p.userGradient, NEW n \in ConstraintRows(p.gsp)
    PROVE  /\ n = p.nx
           /\ p.nx <= Len(p.gsp)
           /\ \A c \in 0..(p.nx - 1) : p.gsp[c + 1] = <<0, c>>
<1> DEFINE len == p.nx * (p.nc + 1)
<1>1. p.nx \in Nat \ {0} /\ p.nc \in Nat
  BY GradientFacts
<1>2. len \in Nat /\ p.nx <= len
  BY <1>1
<1>3. p.gsp = [k \in 1..len |-> <<(k - 1) \div p.nx, (k - 1) % p.nx>>]
  BY GradientFacts DEF DenseGradient
<1>. HIDE DEF len
<1>4. Len(p.gsp) = len
  BY <1>2, <1>3
<1>5. ASSUME NEW k \in 1..len PROVE p.gsp[k][1] = 0 <=> k <= p.nx
  <2>1. p.gsp[k][1] = (k - 1) \div p.nx
    BY <1>3
  <2>2. k - 1 \in Nat /\ (k - 1 < p.nx <=> k <= p.nx)
    BY <1>1, <1>2
  <2>3. (k - 1) \div p.nx = 0 <=> k - 1 < p.nx
    BY <1>1, <2>2, Quotient
  <2>. QED  BY <2>1, <2>2, <2>3
<1>6. \A k \in 1..len : k <= n <=> k <= p.nx
  BY <1>4, <1>5, ObjectiveRows
<1>7. n \in 0..len
  BY <1>4 DEF ConstraintRows
<1>8. n = p.nx
  BY <1>1, <1>2, <1>6, <1>7
<1>9. ASSUME NEW c \in 0..(p.nx - 1) PROVE p.gsp[c + 1] = <<0, c>>
  <2>1. c \in Nat /\ c < p.nx /\ c + 1 \in 1..len /\ (c + 1) - 1 = c
    BY <1>1, <1>2
  <2>2. p.gsp[c + 1] = <<c \div p.nx, c % p.nx>>
    BY <1>3, <2>1
  <2>3. c \div p.nx = 0 /\ c % p.nx = c
    BY <1>1, <2>1, Quotient
  <2>. QED  BY <2>2, <2>3
<1>. QED  BY <1>2, <1>4, <1>8, <1>9

(* The two patterns the constructor keeps.                                     *)
Split(n) ==
    /\ objSp = IF nlpProblem.userGradient THEN SubSeq(nlpProblem.gsp, 1, n) ELSE <<>>
    /\ jacSp = [k \in 1..(Len(nlpProblem.gsp) - n) |->
                   <<nlpProblem.gsp[n + k][1] - 1, nlpProblem.gsp[n + k][2]>>]

GradientPart ==
    gValues # <<>> => \A c \in DOMAIN gValues : gValues[c] = Entries(Gradient) \cap {<<0, c>>}

JacobianPart ==
    jValues # <<>> =>
        /\ DOMAIN jValues = DOMAIN jacSp
        /\ \A k \in DOMAIN jacSp : jValues[k] = <<jacSp[k][1] + 1, jacSp[k][2]>>

GradientInv ==
    /\ nlpProblem \in NlpProblems
    /\ nlpPc = "construct" => gValues = <<>> /\ jValues = <<>>
    /\ nlpPc # "construct" => \E n \in ConstraintRows(nlpProblem.gsp) : Split(n)
    /\ GradientPart
    /\ JacobianPart

(* eval_grad_f gives each variable the objective's derivative, or zero.        *)
LEMMA EvalGradFKeeps == GradientInv /\ NlpEvalGradF => GradientInv'
<1>. SUFFICES ASSUME GradientInv, NlpEvalGradF PROVE GradientInv'
  OBVIOUS
<1> DEFINE g == nlpProblem.gsp
           nx == nlpProblem.nx
<1>1. PICK n \in ConstraintRows(g) : Split(n)
  BY DEF GradientInv, NlpEvalGradF
<1>2. UNCHANGED <<nlpProblem, nlpPc, objSp, jacSp, jValues>> /\ nlpPc = "ready"
  BY DEF NlpEvalGradF
<1>3. nlpProblem \in NlpProblems
  BY DEF GradientInv
<1>4. nx \in Nat \ {0} /\ g \in Seq(Derivatives(nlpProblem)) /\ n \in 0..Len(g)
  BY <1>1, <1>3, GradientFacts DEF ConstraintRows
<1>5. ASSUME NEW c \in 0..(nx - 1)
      PROVE  gValues'[c] = Entries(g) \cap {<<0, c>>}
  <2>1. CASE nlpProblem.userGradient
    <3>1. objSp = SubSeq(g, 1, n)
      BY <1>1, <2>1 DEF Split
    <3>2. Len(objSp) = n /\ DOMAIN objSp = 1..n /\ \A i \in 1..n : objSp[i] = g[i]
      BY <1>4, <3>1
    <3>3. gValues'[c] = {g[k] : k \in {i \in DOMAIN objSp : objSp[i][2] = c}}
      BY <2>1 DEF NlpEvalGradF, Gradient
    <3>4. gValues'[c] = {g[k] : k \in {i \in 1..n : g[i][2] = c}}
      BY <3>2, <3>3
    <3>5. \A i \in 1..n : g[i][2] = c <=> g[i] = <<0, c>>
      BY <1>1, <1>3, <1>4, ObjectiveRows
    <3>6. \A i \in 1..Len(g) : g[i] = <<0, c>> => i \in 1..n
      BY <1>1, <1>3, <1>4, ObjectiveRows
    <3>7. \A e : e \in gValues'[c] <=> \E i \in 1..n : g[i] = <<0, c>> /\ e = g[i]
      BY <3>4, <3>5
    <3>8. \A e : e \in Entries(g) <=> \E i \in 1..Len(g) : e = g[i]
      BY <1>4 DEF Entries
    <3>9. 1..n \subseteq 1..Len(g)
      BY <1>4
    <3>10. \A e : e \in gValues'[c] <=> e \in Entries(g) /\ e = <<0, c>>
      BY <3>6, <3>7, <3>8, <3>9
    <3>. QED  BY <3>10
  <2>2. CASE ~nlpProblem.userGradient
    <3>1. g[c + 1] = <<0, c>> /\ c + 1 \in 1..Len(g)
      BY <1>1, <1>3, <1>4, <2>2, DenseSplit
    <3>2. gValues'[c] = {g[c + 1]}
      BY <2>2 DEF NlpEvalGradF, Gradient
    <3>3. <<0, c>> \in Entries(g)
      BY <1>4, <3>1 DEF Entries
    <3>. QED  BY <3>1, <3>2, <3>3
  <2>. QED  BY <2>1, <2>2
<1>6. DOMAIN gValues' = 0..(nx - 1)
  BY DEF NlpEvalGradF
<1>7. GradientPart'
  BY <1>2, <1>5, <1>6 DEF GradientPart, Gradient
<1>8. Split(n)'
  BY <1>1, <1>2 DEF Split
<1>9. JacobianPart'
  BY <1>2 DEF JacobianPart, GradientInv
<1>. QED  BY <1>1, <1>2, <1>3, <1>7, <1>8, <1>9 DEF GradientInv

(* eval_jac_g drops as many values as the objective has rows.                  *)
LEMMA EvalJacGKeeps == GradientInv /\ NlpEvalJacG => GradientInv'
<1>. SUFFICES ASSUME GradientInv, NlpEvalJacG PROVE GradientInv'
  OBVIOUS
<1> DEFINE g == nlpProblem.gsp
<1>1. PICK n \in ConstraintRows(g) : Split(n)
  BY DEF GradientInv, NlpEvalJacG
<1>2. UNCHANGED <<nlpProblem, nlpPc, objSp, jacSp, gValues>> /\ nlpPc = "ready"
  BY DEF NlpEvalJacG
<1>3. nlpProblem \in NlpProblems
  BY DEF GradientInv
<1>4. g \in Seq(Derivatives(nlpProblem)) /\ n \in 0..Len(g)
  BY <1>1, <1>3, GradientFacts DEF ConstraintRows
<1>5. (IF nlpProblem.userGradient THEN Len(objSp) ELSE nlpProblem.nx) = n
  <2>1. CASE nlpProblem.userGradient
    BY <1>1, <1>4, <2>1 DEF Split
  <2>2. CASE ~nlpProblem.userGradient
    BY <1>1, <1>3, <2>2, DenseSplit
  <2>. QED  BY <2>1, <2>2
<1>6. jValues' = SubSeq(g, n + 1, Len(g))
  BY <1>5 DEF NlpEvalJacG, Gradient
<1>7. /\ DOMAIN jValues' = 1..(Len(g) - n)
      /\ \A k \in 1..(Len(g) - n) : jValues'[k] = g[n + k]
  BY <1>4, <1>6
<1>8. /\ DOMAIN jacSp = 1..(Len(g) - n)
      /\ \A k \in 1..(Len(g) - n) : jacSp[k] = <<g[n + k][1] - 1, g[n + k][2]>>
  BY <1>1 DEF Split
<1>9. ASSUME NEW k \in 1..(Len(g) - n)
      PROVE  jValues'[k] = <<jacSp[k][1] + 1, jacSp[k][2]>>
  <2>1. n + k \in 1..Len(g) /\ Len(g) \in Nat /\ n \in Nat
    BY <1>4
  <2>2. g[n + k] = <<g[n + k][1], g[n + k][2]>> /\ g[n + k][1] \in Int
    BY <1>1, <1>3, <2>1, ObjectiveRows
  <2>. QED  BY <1>7, <1>8, <2>2
<1>10. JacobianPart'
  BY <1>2, <1>7, <1>8, <1>9 DEF JacobianPart
<1>11. Split(n)'
  BY <1>1, <1>2 DEF Split
<1>12. GradientPart'
  BY <1>2 DEF GradientPart, Gradient, GradientInv
<1>. QED  BY <1>1, <1>2, <1>3, <1>10, <1>11, <1>12 DEF GradientInv

(* The constructor splits the pattern, and nothing else moves the split.       *)
LEMMA SplitKeeps ==
    GradientInv /\ (\/ NlpConstruct \/ NlpMerge \/ NlpEvalH \/ NlpPlaceEntry \/ NlpSkipSlot
                    \/ NlpNextComponent \/ NlpDensePass \/ NlpReturn \/ UNCHANGED nlpVars)
    => GradientInv'
<1>. SUFFICES ASSUME GradientInv,
                     \/ NlpConstruct \/ NlpMerge \/ NlpEvalH \/ NlpPlaceEntry \/ NlpSkipSlot
                     \/ NlpNextComponent \/ NlpDensePass \/ NlpReturn \/ UNCHANGED nlpVars
              PROVE  GradientInv'
  OBVIOUS
<1>1. CASE NlpConstruct
  <2>1. PICK n \in ConstraintRows(nlpProblem.gsp) : Split(n)'
    BY <1>1 DEF NlpConstruct, Split
  <2>2. /\ UNCHANGED <<nlpProblem, gValues, jValues>> /\ nlpPc' # "construct"
        /\ gValues = <<>> /\ jValues = <<>>
    BY <1>1 DEF NlpConstruct, GradientInv
  <2>. QED  BY <2>1, <2>2 DEF GradientInv, GradientPart, JacobianPart
<1>2. CASE UNCHANGED nlpVars
  BY <1>2 DEF nlpVars, GradientInv, GradientPart, JacobianPart, Split, Gradient
<1>3. CASE \/ NlpMerge \/ NlpEvalH \/ NlpPlaceEntry \/ NlpSkipSlot
           \/ NlpNextComponent \/ NlpDensePass \/ NlpReturn
  <2>1. /\ UNCHANGED <<nlpProblem, objSp, jacSp, gValues, jValues>>
        /\ nlpPc # "construct" /\ nlpPc' # "construct"
    BY <1>3 DEF NlpMerge, NlpEvalH, NlpPlaceEntry, NlpSkipSlot, NlpNextComponent,
       NlpDensePass, NlpReturn
  <2>. QED  BY <2>1 DEF GradientInv, GradientPart, JacobianPart, Split, Gradient
<1>. QED  BY <1>1, <1>2, <1>3

(* Every derivative of a constraint is in the Jacobian's pattern.              *)
LEMMA SplitCovers ==
    ASSUME nlpProblem \in NlpProblems, NEW n \in ConstraintRows(nlpProblem.gsp), Split(n),
           NEW p \in Entries(nlpProblem.gsp), p[1] # 0
    PROVE  <<p[1] - 1, p[2]>> \in Entries(jacSp)
<1> DEFINE g == nlpProblem.gsp
<1>1. g \in Seq(Derivatives(nlpProblem)) /\ n \in 0..Len(g)
  BY GradientFacts DEF ConstraintRows
<1>2. PICK k \in 1..Len(g) : p = g[k]
  BY <1>1 DEF Entries
<1>3. ~(k <= n)
  BY <1>2, ObjectiveRows
<1>4. k - n \in 1..(Len(g) - n) /\ n + (k - n) = k
  BY <1>1, <1>3
<1>5. jacSp[k - n] = <<p[1] - 1, p[2]>> /\ k - n \in DOMAIN jacSp
  BY <1>2, <1>4 DEF Split
<1>. QED  BY <1>5 DEF Entries

LEMMA GradientInvariant == NlpSpec => []GradientInv
<1>1. NlpInit => GradientInv
  BY DEF NlpInit, GradientInv, GradientPart, JacobianPart
<1>2. GradientInv /\ [NlpNext]_nlpVars => GradientInv'
  BY EvalGradFKeeps, EvalJacGKeeps, SplitKeeps DEF NlpNext
<1>. QED  BY <1>1, <1>2, PTL DEF NlpSpec

(* Whatever the sparsity of the gradients, stated or dense, eval_grad_f and     *)
(* eval_jac_g put the derivatives where the solver expects them                *)
(* (GradientPlaced).                                                          *)
THEOREM GradientIsPlaced == NlpSpec => []GradientPlaced
<1>1. GradientInv => GradientPlaced
  <2>. SUFFICES ASSUME GradientInv, nlpPc = "ready" PROVE GradientPlaced
    BY DEF GradientPlaced
  <2>1. PICK n \in ConstraintRows(nlpProblem.gsp) : Split(n)
    BY DEF GradientInv
  <2>2. \A p \in Entries(Gradient) : p[1] # 0 => <<p[1] - 1, p[2]>> \in Entries(jacSp)
    BY <2>1, SplitCovers DEF Gradient, GradientInv
  <2>. QED  BY <2>2 DEF GradientPlaced, GradientInv, GradientPart, JacobianPart
<1>. QED  BY <1>1, GradientInvariant, PTL
-----------------------------------------------------------------------------
(* The assertions.                                                            *)

(* What nlp_marshaller asserts of its patterns, as far as it is not about what   *)
(* the solver and the problem pass: the rows kept for the objective are the     *)
(* objective's, and gradient() returns a value for each; no component's Hessian  *)
(* has more entries than the merged pattern, and a dense one has as many.       *)
PatternsFit ==
    nlpPc \notin {"construct", "merge"} =>
        /\ \A k \in DOMAIN objSp : objSp[k][1] = 0 /\ k \in DOMAIN Gradient
        /\ nlpProblem.hess = "sparse" =>
              \A j \in 0..nlpProblem.nc : Len(Hsp(j)) <= Len(lagSp)
        /\ nlpProblem.hess = "dense" =>
              \A j \in 0..nlpProblem.nc : Len(Hsp(j)) = Len(lagSp)

(* A sorted pattern is not longer than one that has all its entries.            *)
LEMMA Longer ==
    ASSUME NEW a \in Seq(Nat), Sorted(a), NEW b \in Seq(Nat), Entries(a) \subseteq Entries(b)
    PROVE  Len(a) <= Len(b)
<1> DEFINE place == [k \in 1..Len(a) |-> CHOOSE i \in 1..Len(b) : b[i] = a[k]]
<1>1. ASSUME NEW k \in 1..Len(a)
      PROVE  place[k] \in 1..Len(b) /\ b[place[k]] = a[k]
  <2>1. a[k] \in Entries(b)
    <3>1. k \in DOMAIN a
      OBVIOUS
    <3>2. a[k] \in Entries(a)
      BY <3>1 DEF Entries
    <3>. QED  BY <3>2
  <2>2. \E i \in 1..Len(b) : b[i] = a[k]
    BY <2>1 DEF Entries
  <2>. QED  BY <2>2
<1>2. ASSUME NEW k \in 1..Len(a), NEW l \in 1..Len(a), place[k] = place[l]
      PROVE  k = l
  <2>1. a[k] = a[l] /\ a[k] \in Nat /\ k \in DOMAIN a /\ l \in DOMAIN a
    BY <1>1, <1>2
  <2>2. ~(k < l) /\ ~(l < k)
    BY <2>1 DEF Sorted
  <2>. QED  BY <2>2
<1>3. place \in Injection(1..Len(a), 1..Len(b))
  <2>1. place \in [1..Len(a) -> 1..Len(b)]
    BY <1>1
  <2>2. DOMAIN place = 1..Len(a)
    OBVIOUS
  <2>. QED  BY <1>2, <2>1, <2>2 DEF Injection, IsInjective
<1>. HIDE DEF place
<1>4. IsFiniteSet(1..Len(b)) /\ Cardinality(1..Len(b)) = Len(b) /\ Cardinality(1..Len(a)) = Len(a)
  <2>1. ASSUME NEW n \in Nat PROVE IsFiniteSet(1..n) /\ Cardinality(1..n) = n
    <3>1. IsFiniteSet(1..n) /\ Cardinality(1..n) = IF 1 > n THEN 0 ELSE n - 1 + 1
      BY FS_Interval
    <3>. QED  BY <3>1
  <2>2. Len(a) \in Nat /\ Len(b) \in Nat
    OBVIOUS
  <2>. QED  BY <2>1, <2>2
<1>5. Cardinality(1..Len(a)) <= Cardinality(1..Len(b))
  BY <1>3, <1>4, FS_Injection
<1>. QED  BY <1>4, <1>5

(* None of nlp_marshaller's own assertions about the patterns fails, so the walk  *)
(* of eval_h ends within the component's values, eval_grad_f within gradient()'s. *)
THEOREM PatternsFitHolds == NlpSpec => []PatternsFit
<1> DEFINE Built == nlpPc \notin {"construct", "merge"}
<1>1. ASSUME GradientInv, Built, NEW k \in DOMAIN objSp
      PROVE  objSp[k][1] = 0 /\ k \in DOMAIN Gradient
  <2>1. PICK n \in ConstraintRows(nlpProblem.gsp) : Split(n)
    BY <1>1 DEF GradientInv
  <2>2. nlpProblem \in NlpProblems /\ nlpProblem.gsp \in Seq(Derivatives(nlpProblem))
    BY <1>1, GradientFacts DEF GradientInv
  <2>3. n \in 0..Len(nlpProblem.gsp)
    BY DEF ConstraintRows
  <2>4. objSp = SubSeq(nlpProblem.gsp, 1, n)
    <3>1. objSp # <<>>
      BY <1>1
    <3>. QED  BY <2>1, <3>1 DEF Split
  <2>5. k \in 1..n /\ objSp[k] = nlpProblem.gsp[k] /\ k \in 1..Len(nlpProblem.gsp)
    BY <1>1, <2>2, <2>3, <2>4
  <2>6. nlpProblem.gsp[k][1] = 0
    <3>1. k <= n
      BY <2>3, <2>5
    <3>. QED  BY <2>1, <2>2, <2>5, <3>1, ObjectiveRows
  <2>. QED  BY <2>2, <2>5, <2>6 DEF Gradient
<1>2. ASSUME NlpInv, Built, nlpProblem.hess = "sparse", NEW j \in 0..nlpProblem.nc
      PROVE  Len(Hsp(j)) <= Len(lagSp)
  <2>1. Hsp(j) \in Seq(Nat) /\ Sorted(Hsp(j)) /\ lagSp \in Seq(Nat)
    BY <1>2, ProblemFacts DEF NlpInv, Typed, Hsp
  <2>2. Entries(Hsp(j)) \subseteq Entries(lagSp)
    BY <1>2 DEF NlpInv, Merged
  <2>. QED  BY <2>1, <2>2, Longer
<1>3. ASSUME NlpInv, Built, nlpProblem.hess = "dense", NEW j \in 0..nlpProblem.nc
      PROVE  Len(Hsp(j)) = Len(lagSp)
  <2>1. lagSp = DenseHessian(nlpProblem.nx)
    BY <1>3 DEF NlpInv, Merged
  <2>2. Hsp(j) = DenseHessian(nlpProblem.nx)
    BY <1>3, ProblemFacts DEF NlpInv, Typed, Hsp
  <2>. QED  BY <2>1, <2>2
<1>4. NlpInv /\ GradientInv => PatternsFit
  BY <1>1, <1>2, <1>3 DEF PatternsFit
<1>. QED  BY <1>4, MarshallerInvariant, GradientInvariant, PTL
=============================================================================
