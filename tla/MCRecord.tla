------------------------------- MODULE MCRecord -------------------------------
(***************************************************************************)
(* RecordOutput for TLC.  Threads of one pool are interchangeable, and so  *)
(* are the paths: no property distinguishes them, and runs that use the    *)
(* symmetry check safety only.                                             *)
(***************************************************************************)
EXTENDS RecordPlaces, TLC

Symmetry == Permutations(StartThreads) \cup Permutations(WriteThreads)
            \cup Permutations(EndThreads) \cup Permutations(Paths)
=============================================================================
