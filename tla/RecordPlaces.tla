------------------------------ MODULE RecordPlaces ------------------------------
(***************************************************************************)
(* A recording for a server that waits for each answer.  When nothing but  *)
(* a failed open, a forced stop and a dropped socket disturbs it, each     *)
(* pool has one live thread at most, and where the five threads stand (the *)
(* starter, the writer, the ender, the OBS thread and the main thread)     *)
(* determines every flag of obs-output.c and obs-ffmpeg-output.c, what the *)
(* server believes and which file is complete.  Settled says how.  It is   *)
(* inductive, and RecordPlacesProofs rests on it.                          *)
(***************************************************************************)
EXTENDS RecordOutput

\* What may disturb the recording of a server that waits.
Patient == Allowed \subseteq {"open_fails", "force", "exit"}

\* Where the live thread of a pool stands.
At(T)   == IF Live(T) = {} THEN Dead ELSE pc[CHOOSE t \in Live(T) : TRUE]
Starter == At(StartThreads)
Writer  == At(WriteThreads)
Ender   == At(EndThreads)
Slot    == pc[OBS]
Leaver  == pc[Main]

\* The way a capture is ended and its file closed, by the stretches in which
\* the flags do not change.
Clearing == {"end_check", "end_clear"}
Creating == {"end_join", "end_create"}
Joining  == {"deactivate", "join_writer"}
Freeing  == {"free_packets", "write_trailer", "close_file"}
Stopping == Clearing \cup Creating \cup {"end_signal"} \cup Joining \cup Freeing

\* Where the thread stands that ends the capture.
Stopper == IF Slot \in Stopping THEN Slot
           ELSE IF Leaver \in Stopping THEN Leaver
           ELSE IF Writer \in Stopping THEN Writer ELSE Dead

\* The slot that stops a recording, before it has asked the output to.
Asking == {"obs_stop", "actual_stop", "plugin_stop", "obs_force_stop",
           "actual_force_stop", "plugin_force_stop", "full_stop"}

\* Where a start thread has the file open.
Opened == {"set_active", "can_begin", "create_writer", "begin_capture",
           "begin_activate", "writer_active"}

\* Nothing of a recording is under way.
Down == Starter = Dead /\ Writer = Dead /\ Ender = Dead /\ Stopper = Dead

\* What a thread that stands at l has on its stack.
FramesAt(t, l) ==
    IF t = OBS THEN
        IF l \in {"idle", Dead} THEN {<<>>}
        ELSE IF l \in Clearing \cup Creating \cup {"end_signal"}
        THEN {<<"deactivate", "idle">>} ELSE {<<"idle">>}
    ELSE IF t = Main THEN
        IF l \in {"loop", "wait_thread", "exited"} THEN {<<>>}
        ELSE IF l \in {"destroy", "destroy_wait", "destroy_join", "plugin_destroy"}
        THEN {<<"exited">>}
        ELSE IF l = "full_stop"
        THEN {<<"exited">>, <<"destroy_wait", "exited">>}
        ELSE IF l \in Clearing \cup Creating \cup {"end_signal"}
        THEN {<<"deactivate", "destroy_wait", "exited">>}
        ELSE {<<"destroy_wait", "exited">>}
    ELSE IF t \in StartThreads THEN
        IF l \in {"end_check", "end_inactive"} THEN {<<"start_return">>} ELSE {<<>>}
    ELSE IF t \in WriteThreads THEN
        IF l \in {Dead} \cup WriteLabels THEN {<<>>}
        ELSE IF l \in Clearing \cup Creating \cup {"end_signal"}
        THEN {<<"deactivate", "write_wait">>} ELSE {<<"write_wait">>}
    ELSE {<<>>}
Frames == \A t \in Threads : stack[t] \in FramesAt(t, pc[t])

\* One live thread in each pool, the one the handle names; none is detached.
Alone(T) == \A t, u \in Live(T) : t = u
Single ==
    /\ Alone(StartThreads) /\ Alone(WriteThreads) /\ Alone(EndThreads)
    /\ \A w \in Live(WriteThreads) : ff.writeThread = w
    /\ \A e \in Live(EndThreads) : output.endThread = e
    /\ ff.detached = {}

\* The labels each can stand at.
Places ==
    /\ Starter \in {Dead, "end_check", "end_inactive"} \cup StartLabels
    /\ Writer \in {Dead, "full_stop"} \cup WriteLabels \cup Stopping
    /\ Ender \in {Dead} \cup EndLabels
    /\ Slot \in {"idle", Dead, "actual_start", "plugin_start", "set_connecting",
                 "set_stop_ts"} \cup Asking \cup Stopping
    /\ Leaver \in {"full_stop"} \cup MainLabels \cup ForcedLabels \cup Stopping
    /\ Slot \in Stopping \/ Leaver \in Stopping => Writer \in {Dead} \cup WriteLabels

\* A start thread runs when nothing of an earlier recording does; its write
\* thread is there from begin_capture on.
Starts ==
    Starter # Dead =>
        /\ Ender = Dead /\ Stopper = Dead
        /\ Leaver = "loop" /\ Slot \in {"set_connecting", "idle"}
        /\ Writer \in {Dead, "write_wait", "process_packet", "write_frame"}
        /\ Starter \in {"begin_capture", "begin_activate", "writer_active"} => Writer # Dead
        /\ Writer # Dead => Starter \in {"begin_capture", "begin_activate",
                                         "writer_active", "start_return"}
        /\ ~ff.stopping /\ ff.stopTs = "old" /\ app.filePath # NoFile

\* Frames are captured from begin_activate to end_clear.
Capturing ==
    \/ Starter \in {"begin_activate", "writer_active"}
    \/ /\ Starter \in {"start_return", Dead} /\ Writer \notin {Dead, "write_return"}
       /\ Stopper \in {Dead} \cup Clearing /\ ~ff.stopEvent

\* The flags of the libobs output.
OutputFlags ==
    /\ output.dataActive = Capturing
    /\ output.hooked = \/ output.dataActive \/ Stopper \in Creating
                       \/ Ender = "end_disconnect"
    /\ output.active = \/ output.dataActive /\ Starter # "begin_activate"
                       \/ Stopper \in Creating
                       \/ Ender \in {"end_disconnect", "end_deactivate"}
    /\ output.endThreadActive = (Stopper = "end_create" \/ Ender # Dead)
    /\ stopping = \/ Slot \in {"plugin_stop", "plugin_force_stop", "full_stop"}
                  \/ Leaver = "plugin_force_stop"
                  \/ Leaver = "full_stop" /\ output.dataActive
                  \/ ff.stopping /\ output.dataActive
                  \/ Stopper \in Clearing \cup Creating
                  \/ Ender \in {"end_disconnect", "end_deactivate", "end_event"}
    /\ Ender # Dead => Stopper \notin Clearing \cup Creating /\ ~output.dataActive
    /\ output.stopCode = IF Starter \in {"end_check", "end_inactive"}
                         THEN "connect_failed" ELSE "success"

\* Those of the FFmpeg output, and its file.
FfFlags ==
    /\ ff.connecting = (Starter # Dead /\ Slot # "set_connecting")
    /\ ff.active = (Starter \in {"can_begin", "create_writer"} \/ Writer # Dead)
    /\ ff.writeThreadActive = \/ Starter \in {"start_return", Dead} /\ output.dataActive
                              \/ Stopper \in Creating \cup {"end_signal"} \cup Joining
    /\ IF Starter \in Opened \/ output.dataActive \/ Stopper # Dead
         THEN ff.data = app.filePath /\ ff.data # NoFile ELSE ff.data = NoFile
    /\ ff.stopEvent => \/ Stopper = "join_writer"
                       \/ Writer \in Freeing
                       \/ /\ Stopper = Dead /\ Starter = Dead
                          /\ ff.stopping /\ Writer = "write_wait"
    /\ Writer \in Freeing => ff.stopEvent
    /\ Writer \in {"process_packet", "write_frame"} => ff.data # NoFile

\* Where the write thread can be while another thread ends the capture.
Writers ==
    /\ Writer \in Stopping \cup {"full_stop"} => ff.stopping
    /\ Writer = "full_stop" => output.dataActive
    /\ Stopper \in Freeing => Writer \in {Dead} \cup Freeing
    /\ Writer = "write_return" => Starter = Dead /\ Stopper \in {Dead, "join_writer"}
    /\ Stopper \in Clearing \cup Creating \cup {"end_signal", "deactivate"} => Writer # Dead
    /\ Stopper \in Creating \cup {"end_signal", "deactivate"} =>
           Writer # "write_return" /\ ~ff.stopEvent
    /\ Stopper = "join_writer" => (ff.stopEvent <=> Writer \notin {Dead, "write_return"})

\* The output was not active when the main thread destroyed it.
Short == stack[Main] = <<"exited">>

\* Which slots run when, and what is left when the main thread leaves.
Orders ==
    /\ Slot \in {"actual_start", "plugin_start"} => Down /\ app.filePath # NoFile
    /\ Slot = "set_connecting" => Starter # Dead
    /\ Slot \in Asking => /\ output.dataActive /\ Starter = Dead
                          /\ Writer \in WriteLabels
    /\ Slot \in Asking \cup Stopping => ~ff.stopping
    /\ Slot \in Asking \cup Stopping \cup {"set_stop_ts"} => Starter = Dead /\ Leaver = "loop"
    /\ Slot = "set_stop_ts" => ff.stopping
    /\ Leaver # "loop" => /\ Slot \in {"idle", Dead} /\ Starter = Dead
                          /\ output.dataActive => ~ff.stopping
    /\ app.quitting <=> Leaver # "loop"
    /\ Leaver = "loop" => Slot # Dead
    /\ Leaver \notin {"loop", "wait_thread"} => Slot = Dead
    /\ app.connected <=> Leaver \in {"loop", "wait_thread"}
    /\ Leaver \in {"wait_thread", "destroy"} \cup ForcedLabels => Ender = Dead
    /\ Leaver = "wait_thread" => Stopper = Dead
    /\ Leaver \in {"wait_thread", "destroy", "full_stop"} => Down \/ output.dataActive
    /\ Leaver \in ForcedLabels => output.dataActive
    /\ Leaver \in Stopping => ~ff.stopping
    /\ Leaver \in {"destroy_wait", "destroy_join", "plugin_destroy", "exited"} =>
           Writer = Dead /\ ~output.dataActive /\ Stopper = Dead
    /\ Leaver = "full_stop" => (Short <=> ~output.dataActive)
    /\ Leaver \in {"plugin_destroy", "exited"} => Ender = Dead

\* The one notification that can be under way.
Posted(n) == app.posted = <<n>>
Quiet     == app.posted = <<>>

\* What the server believes, by where the recording is.
View ==
    /\ server.view = "idle" =>
         /\ Quiet /\ ~output.dataActive
         /\ Starter # Dead => Starter = "start_return" /\ Writer = Dead
         /\ Stopper \notin Clearing \cup Creating \cup {"end_signal"}
         /\ Slot \notin {"actual_start", "plugin_start", "set_connecting"}
    /\ server.view = "starting" =>
         /\ ff.stopping => Slot \in {"actual_start", "plugin_start"} \/ Posted(Error)
         /\ Stopper = Dead \/ Leaver \in Stopping
         /\ \/ /\ Quiet
               /\ \/ Slot \in {"actual_start", "plugin_start"}
                  \/ Starter \notin {Dead, "writer_active", "start_return"}
            \/ /\ Posted(Started)
               /\ Starter \in {Dead, "writer_active", "start_return"}
               /\ output.dataActive
               /\ Slot \in {"set_connecting", "idle"} /\ Leaver = "loop"
            \/ /\ Posted(Error)
               /\ Starter \in {Dead, "start_return"}
               /\ Writer = Dead /\ Ender = Dead
               /\ Slot \in {"set_connecting", "idle", Dead}
    /\ server.view = "recording" =>
         /\ Quiet
         /\ Leaver \in {"loop", "wait_thread", "destroy"} =>
              /\ output.dataActive /\ ~ff.stopping /\ Stopper = Dead
              /\ Slot \in {"idle", Dead}
              /\ Starter \in {Dead, "writer_active", "start_return"}
    /\ server.view = "stopping" =>
         /\ Starter = Dead
         /\ \/ /\ Quiet /\ Leaver = "loop"
               /\ output.dataActive \/ Stopper \in Creating \cup {"end_signal"}
               /\ Slot \in {"idle", "set_stop_ts"} => ff.stopping
            \/ /\ Posted(Stopped(app.filePath)) /\ ff.stopping
               /\ ~output.dataActive /\ Stopper \notin Creating \cup {"end_signal"}
               /\ Slot \in {"idle", "set_stop_ts", Dead}
    /\ Slot \in {"actual_start", "plugin_start", "set_connecting"} => server.view = "starting"
    /\ Slot \in {"actual_start", "plugin_start"} => Quiet
    /\ Slot \in Asking \cup Clearing \cup Creating \cup {"end_signal"} => server.view = "stopping"
    /\ Slot \in Joining \cup Freeing => server.view = "idle"

\* Which files are complete.
Files ==
    /\ ff.data # NoFile => (ff.data \in disk <=> Stopper = "close_file")
    /\ Posted(Stopped(app.filePath)) => ff.data # NoFile \/ app.filePath \in disk
    /\ server.view = "recording" /\ Leaver \notin {"loop", "wait_thread", "destroy"} =>
         output.dataActive \/ Stopper # Dead \/ app.filePath \in disk

\* Once the capture has ended and the packets are freed at most the frame
\* that was being encoded is left.
Leftover ==
    ~output.dataActive /\ Stopper \in {Dead, "write_trailer", "close_file"} =>
        Len(ff.packets) + (IF ff.inCallback THEN 1 ELSE 0) <= 1

\* The places of the threads determine the flags, the server's view and the
\* files: all that start_thread, write_thread, the end thread and the slots read
\* of each other without a lock.
Flags   == OutputFlags /\ FfFlags /\ Writers /\ Orders /\ View /\ Files
Settled == Frames /\ Single /\ Places /\ Starts /\ Flags /\ Leftover
=============================================================================
