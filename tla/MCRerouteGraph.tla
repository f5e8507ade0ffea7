-------------------------- MODULE MCRerouteGraph --------------------------
(***************************************************************************)
(* Symmetry for checking RerouteGraph: its reroutes are interchangeable.   *)
(***************************************************************************)
EXTENDS RerouteGraph, TLC

Symmetry == Permutations(Reroutes)
=============================================================================
