--------------------------- MODULE MCFunctionState ---------------------------
EXTENDS FunctionState, TLC

(* Every instance is of a script that has all others as bases. *)
MCLineage == [i \in Instances |-> Scripts]

Symmetry == Permutations(States) \cup Permutations(Calls)
=============================================================================
