---------------------------- MODULE NlpMarshaller ----------------------------
(***************************************************************************)
(* The derivatives that nlp_marshaller hands to the solver.  pagmo gives     *)
(* one sparsity pattern for the gradients of all components, sorted, whose   *)
(* rows start with the objective, and one pattern per component for the      *)
(* Hessians; the solver wants the constraints' rows only, and one pattern    *)
(* that serves the Hessian of every component.  A derivative is known by     *)
(* what it is the derivative of, a value of the solver's buffer by the set    *)
(* of products factor * derivative it is the sum of.                         *)
(***************************************************************************)
EXTENDS Integers, Sequences

CONSTANT NlpProblems    \* the problems a marshaller can be built for

(* The entries of a Hessian are numbered in the order pagmo sorts them in,   *)
(* which is the lexicographic order of row and column.                       *)
Sorted(s) == \A i, j \in DOMAIN s : i < j => s[i] < s[j]
Entries(s) == {s[k] : k \in DOMAIN s}

(* Component 0 is the objective, 1..nc are the constraints.  pagmo's problem *)
(* refuses patterns that are not sorted.                                     *)
Before(p, q) == p[1] < q[1] \/ (p[1] = q[1] /\ p[2] < q[2])
DenseGradient(n, m) ==
    [k \in 1..(n * (m + 1)) |-> <<(k - 1) \div n, (k - 1) % n>>]
DenseHessian(n) == [k \in 1..((n * (n + 1)) \div 2) |-> k]

NlpAssumption ==
    \A p \in NlpProblems :
        /\ p.nx \in Nat \ {0} /\ p.nc \in Nat
        /\ p.hess \in {"none", "dense", "sparse"}
        /\ p.userGradient \in BOOLEAN
        /\ p.gsp \in Seq((0..p.nc) \X (0..(p.nx - 1)))
        /\ \A i, j \in DOMAIN p.gsp : i < j => Before(p.gsp[i], p.gsp[j])
        /\ ~p.userGradient => p.gsp = DenseGradient(p.nx, p.nc)
        /\ p.hsp \in [0..p.nc -> Seq(Nat)]
        /\ \A j \in 0..p.nc : Sorted(p.hsp[j])
        /\ p.hess = "dense" => \A j \in 0..p.nc : p.hsp[j] = DenseHessian(p.nx)
ASSUME NlpAssumption

VARIABLES nlpProblem,   \* m_prob
          nlpPc,        \* where the marshaller is
          objSp,        \* the objective's rows of the gradient pattern
          jacSp,        \* m_jac_sp
          lagSp,        \* m_lag_sp
          component,    \* loop variable: the component at hand
          slot,         \* loop variable: the slot of the merged pattern
          cursor,       \* it and it_h_sp: the component's entry to place next
          hValues,      \* the values eval_h fills
          gValues,      \* the buffer eval_grad_f fills, by variable
          jValues       \* the values eval_jac_g fills

nlpVars == <<nlpProblem, nlpPc, objSp, jacSp, lagSp, component, slot, cursor,
             hValues, gValues, jValues>>

Garbage == <<-1, 0>>    \* what the solver's buffer held before
Product(j, e) == <<j, e>>   \* obj_factor or lambda[j - 1], times the derivative

NlpInit ==
    /\ nlpProblem \in NlpProblems
    /\ nlpPc = "construct"
    /\ objSp = <<>> /\ jacSp = <<>> /\ lagSp = <<>>
    /\ component = 0 /\ slot = 1 /\ cursor = 1
    /\ hValues = <<>> /\ gValues = <<>> /\ jValues = <<>>
-----------------------------------------------------------------------------
(* lower_bound finds where the constraints' rows begin.                      *)
ConstraintRows(sp) ==
    {n \in 0..Len(sp) : \A k \in 1..Len(sp) : k <= n <=> Before(sp[k], <<1, 0>>)}

NlpConstruct ==
    /\ nlpPc = "construct"
    /\ \E n \in ConstraintRows(nlpProblem.gsp) :
          /\ objSp' = IF nlpProblem.userGradient THEN SubSeq(nlpProblem.gsp, 1, n) ELSE <<>>
          /\ jacSp' = [k \in 1..(Len(nlpProblem.gsp) - n) |->
                          <<nlpProblem.gsp[n + k][1] - 1, nlpProblem.gsp[n + k][2]>>]
    /\ IF nlpProblem.hess = "sparse"
         THEN nlpPc' = "merge" /\ UNCHANGED lagSp
         ELSE nlpPc' = "ready" /\ lagSp' = DenseHessian(nlpProblem.nx)
    /\ UNCHANGED <<nlpProblem, component, slot, cursor, hValues, gValues, jValues>>

(* What std::set_union promises of two sorted patterns.                       *)
IsUnion(u, a, b) == Sorted(u) /\ Entries(u) = Entries(a) \cup Entries(b)

(* Bound: no merged pattern is longer than the two it is made of.            *)
NlpMerge ==
    /\ nlpPc = "merge"
    /\ LET old == lagSp
           add == nlpProblem.hsp[component]
       IN  \E n \in 0..(Len(old) + Len(add)) :
             \E u \in [1..n -> Entries(old) \cup Entries(add)] :
                IsUnion(u, old, add) /\ lagSp' = u
    /\ IF component < nlpProblem.nc
         THEN component' = component + 1 /\ UNCHANGED nlpPc
         ELSE component' = 0 /\ nlpPc' = "ready"
    /\ UNCHANGED <<nlpProblem, objSp, jacSp, slot, cursor, hValues, gValues, jValues>>
-----------------------------------------------------------------------------
(* eval_h with values; without Hessians it throws before it touches them.     *)
NlpEvalH ==
    /\ nlpPc = "ready" /\ nlpProblem.hess # "none"
    /\ hValues' = [i \in DOMAIN lagSp |-> {Garbage}]
    /\ component' = 0 /\ slot' = 1 /\ cursor' = 1
    /\ nlpPc' = IF nlpProblem.hess = "sparse" THEN "sparse" ELSE "dense"
    /\ UNCHANGED <<nlpProblem, objSp, jacSp, lagSp, gValues, jValues>>

(* The component's next entry belongs in this slot.                          *)
EntryHere == /\ cursor \in DOMAIN nlpProblem.hsp[component]
             /\ nlpProblem.hsp[component][cursor] = lagSp[slot]

(* The objective's pass sets each slot, the others add to it.                 *)
NlpPlaceEntry ==
    /\ nlpPc = "sparse" /\ slot \in DOMAIN lagSp /\ EntryHere
    /\ LET new == Product(component, nlpProblem.hsp[component][cursor])
       IN  hValues' = [hValues EXCEPT ![slot] = IF component = 0 THEN {new} ELSE @ \cup {new}]
    /\ slot' = slot + 1 /\ cursor' = cursor + 1
    /\ UNCHANGED <<nlpProblem, nlpPc, objSp, jacSp, lagSp, component, gValues, jValues>>

NlpSkipSlot ==
    /\ nlpPc = "sparse" /\ slot \in DOMAIN lagSp /\ ~EntryHere
    /\ hValues' = [hValues EXCEPT ![slot] = IF component = 0 THEN {} ELSE @]
    /\ slot' = slot + 1
    /\ UNCHANGED <<nlpProblem, nlpPc, objSp, jacSp, lagSp, component, cursor,
                   gValues, jValues>>

MutNlpNextComponent ==  \* mutant: the iterators are not reset
    /\ nlpPc = "sparse" /\ slot \notin DOMAIN lagSp
    /\ IF component < nlpProblem.nc
         THEN component' = component + 1 /\ UNCHANGED nlpPc
         ELSE nlpPc' = "evaluated" /\ UNCHANGED component
    /\ slot' = 1
    /\ UNCHANGED <<nlpProblem, objSp, jacSp, lagSp, cursor, hValues, gValues, jValues>>

NlpNextComponent ==
    /\ nlpPc = "sparse" /\ slot \notin DOMAIN lagSp
    /\ IF component < nlpProblem.nc
         THEN component' = component + 1 /\ UNCHANGED nlpPc
         ELSE nlpPc' = "evaluated" /\ UNCHANGED component
    /\ slot' = 1 /\ cursor' = 1
    /\ UNCHANGED <<nlpProblem, objSp, jacSp, lagSp, hValues, gValues, jValues>>

(* All patterns are the merged one: one transform per component.              *)
NlpDensePass ==
    /\ nlpPc = "dense"
    /\ hValues' = [i \in DOMAIN lagSp |->
                      LET new == Product(component, nlpProblem.hsp[component][i])
                      IN  IF component = 0 THEN {new} ELSE hValues[i] \cup {new}]
    /\ IF component < nlpProblem.nc
         THEN component' = component + 1 /\ UNCHANGED nlpPc
         ELSE nlpPc' = "evaluated" /\ UNCHANGED component
    /\ UNCHANGED <<nlpProblem, objSp, jacSp, lagSp, slot, cursor, gValues, jValues>>

NlpReturn ==
    /\ nlpPc = "evaluated"
    /\ nlpPc' = "ready" /\ component' = 0
    /\ UNCHANGED <<nlpProblem, objSp, jacSp, lagSp, slot, cursor, hValues, gValues, jValues>>
-----------------------------------------------------------------------------
(* gradient() returns one value for each pair of the pattern, in its order.   *)
Gradient == nlpProblem.gsp

NlpEvalGradF ==
    /\ nlpPc = "ready"
    /\ gValues' = [c \in 0..(nlpProblem.nx - 1) |->
                      IF nlpProblem.userGradient
                        THEN {Gradient[k] : k \in {i \in DOMAIN objSp : objSp[i][2] = c}}
                        ELSE {Gradient[c + 1]}]
    /\ UNCHANGED <<nlpProblem, nlpPc, objSp, jacSp, lagSp, component, slot, cursor,
                   hValues, jValues>>

MutNlpEvalJacG ==       \* mutant: a dense gradient is assumed
    /\ nlpPc = "ready"
    /\ jValues' = SubSeq(Gradient, nlpProblem.nx + 1, Len(Gradient))
    /\ UNCHANGED <<nlpProblem, nlpPc, objSp, jacSp, lagSp, component, slot, cursor,
                   hValues, gValues>>

(* The objective's values are discarded.                                      *)
NlpEvalJacG ==
    /\ nlpPc = "ready"
    /\ LET first == IF nlpProblem.userGradient THEN Len(objSp) ELSE nlpProblem.nx
       IN  jValues' = SubSeq(Gradient, first + 1, Len(Gradient))
    /\ UNCHANGED <<nlpProblem, nlpPc, objSp, jacSp, lagSp, component, slot, cursor,
                   hValues, gValues>>

NlpNext == \/ NlpConstruct \/ NlpMerge
           \/ NlpEvalH \/ NlpPlaceEntry \/ NlpSkipSlot \/ NlpNextComponent
           \/ NlpDensePass \/ NlpReturn
           \/ NlpEvalGradF \/ NlpEvalJacG

NlpSpec == NlpInit /\ [][NlpNext]_nlpVars
-----------------------------------------------------------------------------
(* Properties *)

(* eval_h returns the Hessian of the Lagrangian: each slot of the merged        *)
(* pattern is the sum of exactly the derivatives at its row and column of the   *)
(* components that have one there, times their factors; no component's entry    *)
(* is passed over by the walk along the two patterns, and what the solver's     *)
(* buffer held before is gone.                                                  *)
HessianPlaced ==
    nlpPc = "evaluated" =>
        /\ DOMAIN hValues = DOMAIN lagSp
        /\ \A i \in DOMAIN lagSp :
              hValues[i] = {Product(j, lagSp[i]) :
                               j \in {c \in 0..nlpProblem.nc :
                                         lagSp[i] \in Entries(nlpProblem.hsp[c])}}
        /\ \A j \in 0..nlpProblem.nc : Entries(nlpProblem.hsp[j]) \subseteq Entries(lagSp)

(* The values of eval_grad_f and eval_jac_g belong to the places the solver     *)
(* was told: each variable gets the objective's derivative or zero, and the     *)
(* k-th value of the Jacobian is the derivative of the constraint and variable   *)
(* of the k-th pair, whether the problem states its sparsity or not; every       *)
(* derivative of the problem is in one of the two.                              *)
GradientPlaced ==
    nlpPc = "ready" =>
        /\ gValues # <<>> =>
              \A c \in DOMAIN gValues : gValues[c] = Entries(Gradient) \cap {<<0, c>>}
        /\ jValues # <<>> =>
              /\ DOMAIN jValues = DOMAIN jacSp
              /\ \A k \in DOMAIN jacSp : jValues[k] = <<jacSp[k][1] + 1, jacSp[k][2]>>
        /\ \A p \in Entries(Gradient) : p[1] # 0 => <<p[1] - 1, p[2]>> \in Entries(jacSp)
=============================================================================
