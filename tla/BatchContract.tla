---------------------------- MODULE BatchContract ----------------------------
(***************************************************************************)
(* What a batch fitness evaluation promises its caller, whichever evaluator *)
(* runs it: the call ends once, with a result only if every decision        *)
(* vector of the batch has been evaluated, with an error otherwise, and     *)
(* nothing of the batch is evaluated after the call has ended.  ManagedBatch *)
(* is shown to implement it for the .NET binding.                            *)
(***************************************************************************)
CONSTANT Points        \* the decision vectors a batch can hold

VARIABLES batch,       \* the decision vectors of this call
          flat,        \* those whose fitness is in the output buffer
          outcome      \* "pending" until the call ends

cVars == <<batch, flat, outcome>>

Init == /\ batch \in SUBSET Points
        /\ flat = {}
        /\ outcome = "pending"

(* Some decision vectors are evaluated: one body of a parallel loop, or a    *)
(* single batch_fitness call for all of them.                               *)
Evaluate == /\ outcome = "pending"
            /\ \E S \in SUBSET batch : flat' = flat \cup S
            /\ UNCHANGED <<batch, outcome>>

ReturnResult == /\ outcome = "pending"
                /\ flat = batch
                /\ outcome' = "result"
                /\ UNCHANGED <<batch, flat>>

ReturnError == /\ outcome = "pending"
               /\ outcome' = "error"
               /\ UNCHANGED <<batch, flat>>

Next == Evaluate \/ ReturnResult \/ ReturnError

Spec == Init /\ [][Next]_cVars
=============================================================================
