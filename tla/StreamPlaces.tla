----------------------------- MODULE StreamPlaces -----------------------------
(***************************************************************************)
(* A stream for a server that waits for each answer: where the threads     *)
(* stand (connect_thread, send_thread, the end thread, the OBS thread and  *)
(* the main thread) and what that says of the flags of obs-output.c and    *)
(* rtmp-stream.c, of the notifications on their way and of what the server *)
(* believes.  InPlace is inductive, and StreamOutputProofs rests on it.    *)
(***************************************************************************)
EXTENDS StreamOutput

\* A server that waits for each answer.  It may then hurry (see "rush"), or it
\* may leave.
Patient == Allowed \subseteq {"rush", "force", "exit", "connect_fails", "meta_fails",
                              "disconnect", "create_fails", "timeout"}

\* It leaves in a stream or between two, not in the middle of a start.
NoHastyExit == "rush" \notin Allowed \/ "exit" \notin Allowed

\* Where the live thread of a pool stands.  A send_thread that waits on a
\* semaphore since destroyed is not of it.
At(T)     == IF Live(T) = {} THEN Dead ELSE pc[CHOOSE t \in Live(T) : TRUE]
Present   == SendThreads \ stream.orphans
Connector == At(ConnectThreads)
Sender    == At(Present)
Ender     == At(EndThreads)
Slot      == pc[OBS]
Leaver    == pc[Main]

\* The slot of a start, and that of a stop until it raises the event.
Beginning == {"actual_start", "plugin_start", "can_begin", "create_connect",
              "start_failed"}
Asking    == {"obs_stop", "actual_stop", "plugin_stop", "obs_force_stop",
              "actual_force_stop", "plugin_force_stop"}
Asked     == {"set_timeout", "force_post"}

\* The stretches of connect_thread.
Reaching == {"init_connect", "connect", "end_check", "end_inactive"}
Making   == {"set_active", "send_meta_data", "begin_capture"}
Busy     == Reaching \cup {"init_send", "begin_activate"} \cup Making
Done     == {"connect_return", "clear_connecting"}

\* The way send_thread ends a capture, its end thread, and what follows.
Clearing == {"send_close", "end_check", "end_clear"}
Creating == {"end_join", "end_create"}
Cutting  == {"end_disconnect", "end_deactivate", "end_event"}
Freeing  == {"send_free", "send_reset", "send_inactive"}

\* The main thread while it stops a stream, and when that has ended.
Forcing  == {"actual_force_stop", "plugin_force_stop"}
Waiting  == {"plugin_force_stop", "force_post", "destroy_wait"}
Final    == {"destroy_post", "end_check", "end_inactive", "join_sender"}
Unloading == {"plugin_destroy", "join_connect", "destroy_stop", "exited"} \cup Final

\* What a thread that stands at l has on its stack.
FramesAt(t, l) ==
    IF t = OBS THEN IF l \in {"idle", Dead} THEN {<<>>} ELSE {<<"idle">>}
    ELSE IF t = Main THEN
        IF l \in {"loop", "wait_thread", "exited"} THEN {<<>>}
        ELSE IF l \in Forcing \cup {"force_post"} THEN {<<"destroy_wait", "exited">>}
        ELSE IF l \in {"end_check", "end_inactive"} THEN {<<"join_sender", "exited">>}
        ELSE {<<"exited">>}
    ELSE IF t \in ConnectThreads THEN
        IF l \in {"end_check", "end_inactive"} THEN {<<"connect_return">>} ELSE {<<>>}
    ELSE IF t \in SendThreads THEN
        IF l \in {Dead, "send_close"} \cup LoopLabels \cup Freeing THEN {<<>>}
        ELSE IF l \in EndLabels THEN {<<"end_signal", "send_free">>}
        ELSE {<<"send_free">>}
    ELSE {<<>>}
Frames == \A t \in Threads : stack[t] \in FramesAt(t, pc[t])

\* One live thread in each pool, the one the handle names.
Alone(T) == \A t, u \in Live(T) : t = u
Single ==
    /\ Alone(ConnectThreads) /\ Alone(Present) /\ Alone(EndThreads)
    /\ \A c \in Live(ConnectThreads) : stream.connectThread = c
    /\ \A n \in Live(Present) : stream.sendThread = n
    /\ \A e \in Live(EndThreads) : output.endThread = e
    /\ \A n \in stream.orphans : pc[n] = "send_wait"

\* The labels each can stand at.
Places ==
    /\ Connector \in {Dead} \cup Busy \cup Done
    /\ Sender \in {Dead, "end_inactive", "end_signal"} \cup LoopLabels \cup Clearing
                  \cup Creating \cup EndLabels \cup Freeing
    /\ Ender \in {Dead} \cup EndLabels
    /\ Slot \in {"idle", Dead} \cup Beginning \cup Asking \cup Asked
    /\ Leaver \in {"loop", "wait_thread", "destroy", "destroy_join"} \cup Forcing
                  \cup Waiting \cup Unloading

\* Until its end is signalled a capture is up.
Up == output.dataActive \/ Sender \in {"end_signal"} \cup Creating \cup EndLabels

\* Between end_clear and end_event, in the thread of its own or in the caller.
Falling == Sender \in Creating \cup Cutting \/ Ender \in Cutting

\* The send_thread let go of its handle: it was not told to stop.
LetGo == stream.sendThread \in stream.detached

\* Which slots run when, and what the process is told.
Slots ==
    /\ Slot \in Beginning => /\ Connector = Dead /\ ~Up /\ Leaver = "loop"
                             /\ Sender \in {Dead, "send_wait"} \cup Freeing
    /\ Slot = "create_connect" => Ender = Dead /\ ~output.active
    /\ Slot \in Asking => /\ output.dataActive /\ Sender \in LoopLabels
                          /\ ~stream.stopEvent
    /\ Slot \in Asked /\ Sender \in LoopLabels => output.dataActive
    /\ Slot \in Asking \cup Asked => Connector \in {Dead} \cup Done /\ Leaver = "loop"
    /\ Leaver # "loop" => Slot \in {"idle", Dead}
    /\ Leaver \notin {"loop", "wait_thread"} => Slot = Dead
    /\ Leaver = "loop" => Slot # Dead
    /\ app.quitting <=> Leaver # "loop"
    /\ app.connected <=> Leaver \in {"loop", "wait_thread"}

\* A connect_thread runs when nothing of a capture is up, until it begins one.
Connects ==
    /\ Connector # Dead => stream.connecting /\ Leaver = "loop"
    /\ Connector \in Busy => Slot = "idle" /\ Ender = Dead /\ ~output.active
    /\ Connector \in Busy \ {"begin_activate"} => ~Up /\ ~output.hooked
    /\ Connector \in Reaching => Sender \in {Dead, "send_wait"} \cup Freeing
    /\ Connector = "init_send" => Sender \in {Dead, "send_wait"}
    /\ Connector \in Making \cup {"begin_activate"} =>
         Sender = "send_wait" /\ stream.sendSem = 0
    /\ Connector = "begin_activate" => output.dataActive /\ ~stream.inCallback
    /\ Connector \in {"connect", "init_send"} => stream.packets = <<>>

\* The flags of the libobs output.
OutputFlags ==
    /\ output.hooked => \/ output.dataActive
                        \/ Sender \in Creating \cup {"end_disconnect"}
                        \/ Ender = "end_disconnect"
    /\ output.active => \/ output.dataActive
                        \/ Sender \in Creating \cup {"end_disconnect", "end_deactivate"}
                        \/ Ender \in {"end_disconnect", "end_deactivate"}
    /\ output.dataActive /\ Connector # "begin_activate" => output.active
    /\ output.endThreadActive <=> Sender \in {"end_create"} \cup EndLabels \/ Ender # Dead
    /\ stopping => output.dataActive \/ Falling
    /\ Ender # Dead => /\ ~output.dataActive
                      /\ Sender \in {Dead, "end_signal"} \cup Freeing
    /\ stream.inCallback => output.hooked

\* Those of the RTMP output.  A send_thread in its loop sends a capture, or it
\* is new or left over, and then waits on a semaphore nobody posts before the
\* main thread does.
Senders ==
    /\ Connector # "set_active" => stream.active = (Sender # Dead)
    /\ output.dataActive => Sender \in LoopLabels \cup Clearing
    /\ Sender = "end_clear" => output.dataActive
    /\ Sender \in {"send_close", "end_check"} => output.dataActive \/ Leaver \in Final
    /\ Sender = "end_inactive" => ~output.dataActive /\ Leaver \in Final
    /\ Sender \in LoopLabels /\ ~output.dataActive =>
         /\ Sender = "send_wait"
         /\ stream.sendSem = 0 \/ Leaver \in Final
    /\ Leaver \in Final /\ Sender \in LoopLabels => ForcedToStop

\* When a session is told to stop, and when it lets go of its thread.
Stops ==
    /\ stream.stopEvent =>
         \/ Sender \notin {Dead, "send_inactive"}
         \/ Leaver \in Final \cup {"exited"}
    /\ stream.stopEvent /\ Sender \in LoopLabels => output.dataActive \/ Leaver \in Final
    /\ stream.stopEvent => Connector \in {Dead, "init_connect"} \cup Done
    /\ stream.stopEvent /\ Sender # Dead => ~LetGo
    /\ Sender \in LoopLabels \cup {"send_close"} => ~LetGo
    /\ Sender = "send_close" /\ ~stream.stopEvent =>
         Connector = Dead /\ Slot = "idle" /\ Leaver = "loop"
    /\ Leaver # "loop" /\ Sender # Dead => ~LetGo

\* How the main thread leaves.
Leaves ==
    /\ Leaver \in {"wait_thread", "destroy"} \cup Forcing =>
         Sender \in LoopLabels \cup {Dead} /\ Ender = Dead /\ ~stream.stopEvent
    /\ Leaver \in Forcing => output.dataActive
    /\ Leaver = "force_post" /\ Sender \in LoopLabels => output.dataActive
    /\ Leaver \in Waiting /\ ~stopping => ~output.dataActive /\ ~Falling
    /\ Leaver \in {"destroy_join"} \cup Unloading => ~output.dataActive /\ ~Falling
    /\ Leaver \in Unloading => Ender = Dead
    /\ Leaver = "exited" => Sender = Dead

\* The notifications under way: none, that it started, how it ended, or both.
Quiet    == app.posted = <<>>
Hailed   == app.posted = <<"started">>
Answered == app.posted \in {<<"stopped">>, <<"error">>}
Both     == app.posted \in {<<"started", "stopped">>, <<"started", "error">>}

\* What the server believes, by where the stream is.
View ==
    /\ server.view = "idle" => Quiet
    /\ server.view = "starting" => Quiet \/ Hailed \/ Answered \/ Both
    /\ server.view \in {"streaming", "stopping"} => Quiet \/ Answered
    /\ Slot \in Beginning \/ Connector \in Busy => server.view = "starting" /\ Quiet
    /\ Slot \in Asking \cup Asked => server.view = "stopping"
    /\ Up => server.view # "idle" /\ (Quiet \/ Hailed)
    /\ Up /\ server.view = "starting" /\ Quiet => Connector = "begin_activate"
    /\ app.connected /\ server.view = "starting" /\ Hailed => Up
    /\ app.connected /\ server.view = "streaming" /\ Quiet => Up
    /\ output.dataActive /\ stream.stopEvent /\ app.connected => server.view = "stopping"

InPlace == Frames /\ Single /\ Places /\ Slots /\ Connects /\ OutputFlags
           /\ Senders /\ Stops /\ Leaves /\ View
=============================================================================
