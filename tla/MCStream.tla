------------------------------- MODULE MCStream -------------------------------
(***************************************************************************)
(* StreamOutput for TLC.  Threads of one pool are interchangeable: no      *)
(* property distinguishes them, and runs that use the symmetry check       *)
(* safety only.                                                            *)
(***************************************************************************)
EXTENDS StreamPlaces, TLC

Symmetry == Permutations(ConnectThreads) \cup Permutations(SendThreads)
            \cup Permutations(EndThreads)
=============================================================================
