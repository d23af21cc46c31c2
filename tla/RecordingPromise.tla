--------------------------- MODULE RecordingPromise ---------------------------
(***************************************************************************)
(* What the ZDTalk server may rely on when it waits for each answer: a     *)
(* recording is started, announced, stopped and reported, in this order,   *)
(* over one file that is written in between.  No thread, flag or queue is  *)
(* mentioned: RecordOutput implements it.                                  *)
(***************************************************************************)
CONSTANTS
    Paths,     \* file names
    NoFile,    \* no recording was asked for yet
    MayFail    \* whether a recording that runs may fail

VARIABLES
    view,      \* what the server believes is going on
    path,      \* the file of the present recording, or the last one
    open,      \* whether it is open, its trailer not yet written
    reported,  \* the files reported as finished
    complete   \* the files that are

vars == <<view, path, open, reported, complete>>

Init == /\ view = "idle" /\ path = NoFile /\ open = FALSE
        /\ reported = {} /\ complete = {}

\* The file of one recording is closed before the next is asked for.
Start(p) == /\ view = "idle" /\ ~open
            /\ view' = "starting" /\ path' = p
            /\ UNCHANGED <<open, reported, complete>>

\* The file is created anew, once for a start.
Open == /\ view = "starting" /\ ~open
        /\ open' = TRUE
        /\ reported' = reported \ {path} /\ complete' = complete \ {path}
        /\ UNCHANGED <<view, path>>

Begin == /\ view = "starting" /\ (open \/ MayFail)
         /\ view' = "recording"
         /\ UNCHANGED <<path, open, reported, complete>>

Stop == /\ view = "recording"
        /\ view' = "stopping"
        /\ UNCHANGED <<path, open, reported, complete>>

\* Success is reported of the file that was opened, and only to a stop.
Report == /\ view = "stopping" /\ (open \/ path \in complete)
          /\ view' = "idle" /\ reported' = reported \cup {path}
          /\ UNCHANGED <<path, open, complete>>

\* A start fails when nothing was opened; what runs, only if it may.
Fail == /\ view # "idle"
        /\ MayFail \/ (view = "starting" /\ ~open)
        /\ view' = "idle"
        /\ UNCHANGED <<path, open, reported, complete>>

\* The trailer is written once the stop was asked for, before or after the
\* report, and not while the recording goes on.
Close == /\ open
         /\ MayFail \/ view \in {"stopping", "idle"}
         /\ open' = FALSE /\ complete' = complete \cup {path}
         /\ UNCHANGED <<view, path, reported>>

Next == \/ \E p \in Paths : Start(p)
        \/ Open \/ Begin \/ Stop \/ Report \/ Fail \/ Close

Spec == Init /\ [][Next]_vars
=============================================================================
