------------------------------ MODULE MCContext ------------------------------
(***************************************************************************)
(* ObsContext for TLC: sizes and devices are interchangeable.              *)
(***************************************************************************)
EXTENDS ObsContext, TLC

Symmetry == Permutations(Screens) \cup Permutations(Regions)
            \cup Permutations(Devices)
=============================================================================
