------------------------- MODULE MCBundleSupervisor -------------------------
(***************************************************************************)
(* BundleSupervisor for TLC: its sets are interchangeable, and there is no *)
(* liveness property.                                                      *)
(***************************************************************************)
EXTENDS BundleSupervisor, TLC

Symmetry ==
    Permutations(Supervisor) \cup Permutations(Worker)
        \cup Permutations(Bundle) \cup Permutations(Response)
=============================================================================
