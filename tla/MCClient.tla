------------------------------- MODULE MCClient -------------------------------
(* The messages of RecordingClient for TLC. *)
EXTENDS RecordingClient, TLC

\* A command with two fields, and an event with one that the client does not
\* know.
OneCommand == "init" :> 2 @@ "other" :> 1
=============================================================================
