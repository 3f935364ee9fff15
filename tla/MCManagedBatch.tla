--------------------------- MODULE MCManagedBatch ----------------------------
EXTENDS ManagedBatch, TLC

Cloner(results) == [safety |-> "None", clones |-> results, batch |-> FALSE]

(* A cloneable problem that may decline, one that never can, a plain unsafe     *)
(* problem without and with batch_fitness(), and thread-safe problems.          *)
ContractProblems ==
    {Cloner({"fresh", "null"}), Cloner({"null"}), Cloner({}),
     [safety |-> "None",  clones |-> {}, batch |-> TRUE],
     [safety |-> "Basic", clones |-> {}, batch |-> FALSE],
     [safety |-> "Basic", clones |-> {"null"}, batch |-> TRUE]}

(* ... and one whose clone() breaks the interface's contract.                   *)
AllProblems == ContractProblems \cup {Cloner({"fresh", "same"})}

UnsafeCloners == {Cloner({"fresh"})}

Symmetry == Permutations(Points)
=============================================================================
