----------------------------- MODULE MCInterleave -----------------------------
(* The packet periods of Interleave for TLC. *)
EXTENDS Interleave, TLC

\* Three audio packets to two frames.
TwoToThree == "video" :> 3 @@ "audio" :> 2
=============================================================================
