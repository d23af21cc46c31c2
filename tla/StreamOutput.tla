----------------------------- MODULE StreamOutput -----------------------------
(***************************************************************************)
(* Streaming over RTMP: the start and stop slots of ZDTalkOBSContext, the  *)
(* libobs output they drive (ObsOutput) and the RTMP output type behind it *)
(* (rtmp-stream.c), with the threads that share them:                      *)
(*                                                                         *)
(*   OBS             the thread ZDTalkOBSContext lives in; runs the slots  *)
(*   Main            the Qt main thread; leaves when the socket drops      *)
(*   ConnectThreads  connect_thread, created by rtmp_stream_start          *)
(*   SendThreads     send_thread, created by init_send                     *)
(*   EndThreads      end_data_capture_thread, created by libobs            *)
(*                                                                         *)
(* and the encoders' threads that hand packets over (the Data actions).    *)
(* StreamQueue holds the detail of the packet queue; here a packet only is *)
(* or is not past the stop time.  A pool of thread names is larger than    *)
(* the number of threads the code means to have.                           *)
(*                                                                         *)
(* Allowed says what the surroundings of the process may do:               *)
(*   "early"  commands arrive whenever, not only after the last answer     *)
(*   "rush"   a start may arrive before the threads of the previous        *)
(*            session have returned, a stop before the connect_thread that *)
(*            announced this one has, the exit in the middle of a start    *)
(*   "race"   a stop, or the exit, may come in the moment a session is     *)
(*            ending of itself, and the connection break in that of a stop *)
(*   "preempt"  a thread may lose the processor between two statements for *)
(*            as long as a connection, a stop or a send takes another      *)
(*   "force"  the server may ask for a forced stop                         *)
(*   "exit"   the socket to the server may drop                            *)
(*   "connect_fails", "meta_fails", "disconnect", "create_fails"  the RTMP *)
(*            server is not reached, does not take the metadata, is lost   *)
(*            later; a thread cannot be created                            *)
(*   "again"  a send_thread may not be created while one is left over from *)
(*            metadata that could not be sent                              *)
(*   "timeout"  30 seconds may pass before what is queued has been sent    *)
(***************************************************************************)
EXTENDS ObsOutput, FiniteSets

CONSTANTS OBS, Main, ConnectThreads, SendThreads,
          Allowed,       \* see above
          MaxCommands,   \* bound: start and stop commands of a behaviour
          MaxPackets     \* bound: packets queued to send_thread

ASSUME StreamOutputAssumption ==
    /\ Threads = {OBS, Main} \cup ConnectThreads \cup SendThreads \cup EndThreads
    /\ OBS # Main
    /\ {OBS, Main} \cap (ConnectThreads \cup SendThreads \cup EndThreads) = {}
    /\ ConnectThreads \cap (SendThreads \cup EndThreads) = {}
    /\ SendThreads \cap EndThreads = {}
    /\ MaxCommands \in Nat
    /\ MaxPackets \in Nat

VARIABLES
    stream,     \* struct rtmp_stream and the threads it names
    app,        \* ZDTalkOBSContext and the process around it
    server      \* the ZDTalk server at the other end of the socket

vars == <<control, output, stream, app, server>>

\* stopTs is "forced" for 0, "set" for the time of a stop of this session
\* and "past" for one left from an earlier session, as is timeout, which is
\* shutdown_timeout_ts.  A packet is "late" from a stop time that is "set"
\* on.  detached are the threads whose handle was, and orphans the send
\* threads that wait on a semaphore since destroyed.
StreamType ==
    [connecting    : BOOLEAN,
     active        : BOOLEAN,
     disconnected  : BOOLEAN,
     stopEvent     : BOOLEAN,
     stopTs        : {"forced", "set", "past"},
     timeout       : {"past", "future", "reached"},
     connectThread : ConnectThreads \cup {NoThread},
     sendThread    : SendThreads \cup {NoThread},
     detached      : SUBSET (ConnectThreads \cup SendThreads \cup {NoThread}),
     orphans       : SUBSET SendThreads,
     sendSem       : Nat,
     packets       : Seq({"early", "late"}),
     inCallback    : BOOLEAN]

Notices == {"started", "stopped", "error"}

\* posted are the notifications queued to the OBS thread; connected says
\* that the signals of the output are; quitting that the OBS thread was told
\* to quit.
AppType == [posted : Seq(Notices), connected : BOOLEAN, quitting : BOOLEAN]

\* view is what the notifications make the server believe.
ServerType == [view     : {"idle", "starting", "streaming", "stopping"},
               commands : 0..MaxCommands]

Callers == Threads \ EndThreads
Live(T) == {t \in T : pc[t] # Dead}

Init ==
    /\ pc = [t \in Threads |-> IF t = OBS THEN "idle"
                               ELSE IF t = Main THEN "loop" ELSE Dead]
    /\ stack = [t \in Threads |-> <<>>]
    /\ ObsOutputCreate
    /\ stream = [connecting |-> FALSE, active |-> FALSE, disconnected |-> FALSE,
                 stopEvent |-> FALSE, stopTs |-> "forced", timeout |-> "past",
                 connectThread |-> NoThread, sendThread |-> NoThread,
                 detached |-> {}, orphans |-> {}, sendSem |-> 0,
                 packets |-> <<>>, inCallback |-> FALSE]
    /\ app = [posted |-> <<>>, connected |-> TRUE, quitting |-> FALSE]
    /\ server = [view |-> "idle", commands |-> 0]

-----------------------------------------------------------------------------
(***************************************************************************)
(* Notifications: StreamingStarted and StreamingStopped run on the thread  *)
(* that signals and use invokeMethod, a direct call on the OBS thread and  *)
(* a posted event from any other.                                          *)
(***************************************************************************)
\* What the server makes of a notification.
Received(n) ==
    server' = [server EXCEPT !.view = IF n = "started" THEN "streaming" ELSE "idle"]

Notify(t, n) ==
    \/ ~app.connected /\ UNCHANGED <<app, server>>
    \/ app.connected /\ t = OBS /\ Received(n) /\ UNCHANGED app
    \/ /\ app.connected /\ t # OBS
       /\ app' = [app EXCEPT !.posted = Append(@, n)]
       /\ UNCHANGED server

StreamingStopped(t) ==
    Notify(t, IF output.stopCode = "success" THEN "stopped" ELSE "error")

Deliver ==
    /\ pc[OBS] = "idle"
    /\ app.posted # <<>>
    /\ app' = [app EXCEPT !.posted = Tail(@)]
    /\ Received(Head(app.posted))
    /\ UNCHANGED <<control, output, stream>>

-----------------------------------------------------------------------------
(***************************************************************************)
(* The slots of ZDTalkOBSContext on the OBS thread.                        *)
(***************************************************************************)
\* The code after send_thread's loop.
ClosingLabels == {"send_close", "send_free", "send_reset", "send_inactive"}
Closing(n) == pc[n] \in ClosingLabels \/ stack[n] # <<>>

\* Send threads that are in their loop, or wait on the present semaphore.
LoopLabels == {"send_wait", "next_packet", "send_packet"}
InLoop(n) == pc[n] \in LoopLabels /\ n \notin stream.orphans

\* No session is ending; none of its threads is left, except a send_thread
\* that waits because its connection failed after it was made.
Settled == Live(EndThreads) = {} /\ \A n \in SendThreads : ~Closing(n)
Drained == Settled /\ Live(ConnectThreads) = {}

StartPermitted ==
    /\ ~app.quitting
    /\ "early" \in Allowed \/ server.view = "idle"
    /\ "rush" \in Allowed \/ Settled
    /\ "preempt" \in Allowed \/ Live(ConnectThreads) = {}

StopPermitted ==
    /\ ~app.quitting
    /\ "early" \in Allowed \/ server.view = "streaming"
    /\ "rush" \in Allowed \/ Live(ConnectThreads) = {}
    /\ "race" \in Allowed \/ Settled

\* startStreaming with a server and a key, and setupStreaming.
StartStreaming ==
    /\ pc[OBS] = "idle"
    /\ server.commands < MaxCommands
    /\ StartPermitted
    /\ server' = [view |-> "starting", commands |-> server.commands + 1]
    /\ Call(OBS, "actual_start", "idle")
    /\ UNCHANGED <<output, stream, app>>

\* Without a server or a key the answer is an error.
StartStreamingEmpty ==
    /\ pc[OBS] = "idle"
    /\ server.commands < MaxCommands
    /\ StartPermitted
    /\ server' = [view |-> "idle", commands |-> server.commands + 1]
    /\ UNCHANGED <<control, output, stream, app>>

\* stopStreaming does nothing unless obs_output_active.  The server expects
\* an answer when it believes there is something to stop.
StopStreaming(force) ==
    /\ pc[OBS] = "idle"
    /\ server.commands < MaxCommands
    /\ StopPermitted
    /\ force => "force" \in Allowed
    /\ server' = [view     |-> IF server.view = "idle" THEN "idle" ELSE "stopping",
                  commands |-> server.commands + 1]
    /\ IF output.active
         THEN Call(OBS, IF force THEN "obs_force_stop" ELSE "obs_stop", "idle")
         ELSE UNCHANGED control
    /\ UNCHANGED <<output, stream, app>>

\* startStreaming reports that obs_output_start returned false.
StartFailed ==
    /\ pc[OBS] = "start_failed"
    /\ Return(OBS)
    /\ Received("error")
    /\ UNCHANGED <<output, stream, app>>

-----------------------------------------------------------------------------
(***************************************************************************)
(* rtmp_stream_start: it asks libobs first, and unlike the recorder it     *)
(* does not look at `connecting'.                                          *)
(***************************************************************************)
Outside == UNCHANGED <<output, app, server>>

RtmpStart ==
    /\ pc[OBS] = "plugin_start"
    /\ Goto(OBS, "can_begin")
    /\ UNCHANGED stream
    /\ Outside

CreateConnect ==
    /\ pc[OBS] = "create_connect"
    /\ stack[OBS] # <<>>
    /\ \E c \in ConnectThreads :
         /\ pc[c] = Dead
         /\ stream' = [stream EXCEPT !.connecting = TRUE, !.connectThread = c,
                                     !.detached = @ \ {c}]
         /\ pc' = [pc EXCEPT ![OBS] = Head(stack[OBS]), ![c] = "init_connect"]
    /\ stack' = [stack EXCEPT ![OBS] = Tail(@)]
    /\ Outside

\* The flag is raised before the thread is made, and stays.
CreateConnectFails ==
    /\ "create_fails" \in Allowed
    /\ pc[OBS] = "create_connect"
    /\ stream' = [stream EXCEPT !.connecting = TRUE]
    /\ Goto(OBS, "start_failed")
    /\ Outside

-----------------------------------------------------------------------------
(***************************************************************************)
(* connect_thread.                                                         *)
(***************************************************************************)
\* pthread_join returns at once for a detached thread, or for no thread.
Joined(t) == t \notin {NoThread} \cup stream.detached => pc[t] = Dead

\* init_connect waits for a send_thread that was told to stop.  The stop time
\* of the session before has passed by now, its time-out may have.
InitConnect(c) ==
    /\ pc[c] = "init_connect"
    /\ stream.stopEvent => Joined(stream.sendThread)
    /\ \E time \in {"past"} \cup ({stream.timeout} \ {"reached"}) :
         stream' = [stream EXCEPT !.packets = <<>>, !.disconnected = FALSE,
                                  !.timeout = time,
                                  !.stopTs = IF @ = "set" THEN "past" ELSE @]
    /\ Goto(c, "connect")
    /\ Outside

\* try_connect: a round trip to the RTMP server, longer than a thread takes
\* for its last statements.
Connect(c) ==
    /\ pc[c] = "connect"
    /\ "preempt" \in Allowed \/ \A n \in SendThreads : ~Closing(n)
    /\ Goto(c, "init_send")
    /\ UNCHANGED stream
    /\ Outside

ConnectionFails(c, code) ==
    /\ SignalStop(code)
    /\ Call(c, "end_check", "connect_return")
    /\ UNCHANGED <<stream, app, server>>

\* Mutant: the failure is not signalled.
ConnectFailsSilent(c) ==
    /\ "connect_fails" \in Allowed
    /\ pc[c] = "connect"
    /\ Goto(c, "connect_return")
    /\ UNCHANGED stream
    /\ Outside

ConnectFails(c) ==
    /\ "connect_fails" \in Allowed
    /\ pc[c] = "connect"
    /\ ConnectionFails(c, "connect_failed")

\* Mutant: the semaphore is not replaced.
InitSendSameSemaphore(c) ==
    /\ pc[c] = "init_send"
    /\ \E n \in SendThreads :
         /\ pc[n] = Dead
         /\ stream' = [stream EXCEPT !.sendThread = n, !.detached = @ \ {n}]
         /\ pc' = [pc EXCEPT ![c] = "set_active", ![n] = "send_wait"]
    /\ UNCHANGED stack
    /\ Outside

\* init_send replaces the semaphore.  A thread that still waits on the old
\* one waits for ever: its handle was closed.
ResetSemaphore ==
    [stream EXCEPT !.sendSem = 0,
                   !.orphans = @ \cup {n \in SendThreads : pc[n] = "send_wait"}]

InitSend(c) ==
    /\ pc[c] = "init_send"
    /\ \E n \in SendThreads :
         /\ pc[n] = Dead
         /\ stream' = [ResetSemaphore EXCEPT !.sendThread = n, !.detached = @ \ {n}]
         /\ pc' = [pc EXCEPT ![c] = "set_active", ![n] = "send_wait"]
    /\ UNCHANGED stack
    /\ Outside

InitSendFails(c) ==
    /\ "create_fails" \in Allowed
    /\ pc[c] = "init_send"
    /\ "again" \in Allowed \/ \A n \in SendThreads : ~InLoop(n)
    /\ SignalStop("error")
    /\ Call(c, "end_check", "connect_return")
    /\ stream' = ResetSemaphore
    /\ UNCHANGED <<app, server>>

SetActive(c) ==
    /\ pc[c] = "set_active"
    /\ stream' = [stream EXCEPT !.active = TRUE]
    /\ Goto(c, "send_meta_data")
    /\ Outside

SendMetaData(c) ==
    /\ pc[c] = "send_meta_data"
    /\ Goto(c, "begin_capture")
    /\ UNCHANGED stream
    /\ Outside

\* send_thread is left waiting, and `active' set.  (Bound of the pool: at most
\* one connection of a behaviour is lost at this point.)
SendMetaDataFails(c) ==
    /\ "meta_fails" \in Allowed
    /\ pc[c] = "send_meta_data"
    /\ stream.orphans = {}
    /\ ConnectionFails(c, "disconnected")

\* No stop in sight: the handle is given up, whoever may be joining it.
ConnectReturn(c) ==
    /\ pc[c] = "connect_return"
    /\ stream' = IF stream.stopEvent THEN stream
                 ELSE [stream EXCEPT !.detached = @ \cup {stream.connectThread}]
    /\ Goto(c, "clear_connecting")
    /\ Outside

ClearConnecting(c) ==
    /\ pc[c] = "clear_connecting"
    /\ stream' = [stream EXCEPT !.connecting = FALSE]
    /\ Goto(c, Dead)
    /\ Outside

-----------------------------------------------------------------------------
(***************************************************************************)
(* rtmp_stream_stop, with the time of the stop or with 0 for a forced one. *)
(* The event is signalled before the time-out is stored, and a forced stop *)
(* posts the semaphore after it.                                           *)
(***************************************************************************)
ConnectJoined == stream.connecting => Joined(stream.connectThread)

\* Mutant: the event is not signalled.
RtmpStopUnsignalled(t) ==
    /\ pc[t] = "plugin_stop"
    /\ ~stream.stopEvent
    /\ ConnectJoined
    /\ stream' = [stream EXCEPT !.stopTs = "set"]
    /\ Goto(t, "set_timeout")
    /\ Outside

RtmpStop(t) ==
    /\ pc[t] = "plugin_stop"
    /\ ~stream.stopEvent
    /\ ConnectJoined
    /\ stream' = [stream EXCEPT !.stopTs = "set", !.stopEvent = TRUE]
    /\ Goto(t, "set_timeout")
    /\ Outside

RtmpStopAgain(t) ==
    /\ pc[t] = "plugin_stop"
    /\ stream.stopEvent
    /\ Return(t)
    /\ UNCHANGED stream
    /\ Outside

SetTimeout(t) ==
    /\ pc[t] = "set_timeout"
    /\ stream' = [stream EXCEPT !.timeout = "future"]
    /\ Return(t)
    /\ Outside

RtmpForceStop(t) ==
    /\ pc[t] = "plugin_force_stop"
    /\ ConnectJoined
    /\ stream' = [stream EXCEPT !.stopTs = "forced", !.stopEvent = TRUE]
    /\ Goto(t, "force_post")
    /\ Outside

ForcePost(t) ==
    /\ pc[t] = "force_post"
    /\ stream' = [stream EXCEPT !.sendSem = IF stream.active THEN @ + 1 ELSE @]
    /\ Return(t)
    /\ Outside

-----------------------------------------------------------------------------
(***************************************************************************)
(* send_thread.                                                            *)
(***************************************************************************)
ForcedToStop == stream.stopEvent /\ stream.stopTs = "forced"

SendWait(n) ==
    /\ pc[n] = "send_wait"
    /\ n \notin stream.orphans
    /\ stream.sendSem > 0
    /\ stream' = [stream EXCEPT !.sendSem = @ - 1]
    /\ Goto(n, IF ForcedToStop THEN "send_close" ELSE "next_packet")
    /\ Outside

\* can_shutdown_stream: the packet lies past the stop time, or the time-out
\* has passed; it has, too, while it still is the one of an earlier session.
TimePasses ==
    /\ "timeout" \in Allowed
    /\ stream.timeout = "future"
    /\ stream' = [stream EXCEPT !.timeout = "reached"]
    /\ UNCHANGED control
    /\ Outside

TimedOut ==
    \/ stream.timeout = "reached"
    \/ /\ stream.timeout = "past"
       /\ "preempt" \in Allowed \/ \A t \in Callers : pc[t] # "set_timeout"

PastStop(packet) == packet = "late" \/ stream.stopTs # "set"

NextPacket(n) ==
    /\ pc[n] = "next_packet"
    /\ stream.packets # <<>>
    /\ stream' = [stream EXCEPT !.packets = Tail(@)]
    /\ Goto(n, IF stream.stopEvent /\ (PastStop(Head(stream.packets)) \/ TimedOut)
                 THEN "send_close" ELSE "send_packet")
    /\ Outside

NoPacket(n) ==
    /\ pc[n] = "next_packet"
    /\ stream.packets = <<>>
    /\ Goto(n, "send_wait")
    /\ UNCHANGED stream
    /\ Outside

SendPacket(n) ==
    /\ pc[n] = "send_packet"
    /\ Goto(n, "send_wait")
    /\ UNCHANGED stream
    /\ Outside

StopLabels == {"obs_stop", "actual_stop", "plugin_stop", "set_timeout",
               "obs_force_stop", "actual_force_stop", "plugin_force_stop",
               "force_post"}

\* A stop is under way, by command or because the process leaves.
MidStop == app.quitting \/ pc[OBS] \in StopLabels

\* Mutant: the thread stays in its loop.
SendFailsGoesOn(n) ==
    /\ "disconnect" \in Allowed
    /\ "race" \in Allowed \/ ~MidStop
    /\ "preempt" \in Allowed \/ Live(ConnectThreads) = {}
    /\ pc[n] = "send_packet"
    /\ stream' = [stream EXCEPT !.disconnected = TRUE]
    /\ Goto(n, "send_wait")
    /\ Outside

SendFails(n) ==
    /\ "disconnect" \in Allowed
    /\ "race" \in Allowed \/ ~MidStop
    /\ "preempt" \in Allowed \/ Live(ConnectThreads) = {}
    /\ pc[n] = "send_packet"
    /\ stream' = [stream EXCEPT !.disconnected = TRUE]
    /\ Goto(n, "send_close")
    /\ Outside

\* Mutant: a thread that was not told to stop lets go without a word.
SendCloseSilent(n) ==
    /\ pc[n] = "send_close"
    /\ IF stream.stopEvent
         THEN Call(n, "end_check", "send_free") /\ UNCHANGED stream
         ELSE /\ stream' = [stream EXCEPT !.detached = @ \cup {stream.sendThread}]
              /\ Goto(n, "send_free")
    /\ Outside

\* Mutant: a thread that was told to stop does not end the capture.
SendCloseUnended(n) ==
    /\ pc[n] = "send_close"
    /\ IF stream.stopEvent
         THEN Goto(n, "send_free") /\ UNCHANGED <<output, stream>>
         ELSE /\ stream' = [stream EXCEPT !.detached = @ \cup {stream.sendThread}]
              /\ SignalStop("disconnected")
              /\ Call(n, "end_check", "send_free")
    /\ UNCHANGED <<app, server>>

\* With a stop under way the thread will be joined, otherwise it lets go of
\* its handle and reports the disconnection.
SendClose(n) ==
    /\ pc[n] = "send_close"
    /\ IF stream.stopEvent
         THEN UNCHANGED <<output, stream>>
         ELSE /\ stream' = [stream EXCEPT !.detached = @ \cup {stream.sendThread}]
              /\ SignalStop("disconnected")
    /\ Call(n, "end_check", "send_free")
    /\ UNCHANGED <<app, server>>

SendFree(n) ==
    /\ pc[n] = "send_free"
    /\ stream' = [stream EXCEPT !.packets = <<>>]
    /\ Goto(n, "send_reset")
    /\ Outside

\* Mutant: the stop request stays.
SendResetForgets(n) ==
    /\ pc[n] = "send_reset"
    /\ Goto(n, "send_inactive")
    /\ UNCHANGED stream
    /\ Outside

SendReset(n) ==
    /\ pc[n] = "send_reset"
    /\ stream' = [stream EXCEPT !.stopEvent = FALSE]
    /\ Goto(n, "send_inactive")
    /\ Outside

SendInactive(n) ==
    /\ pc[n] = "send_inactive"
    /\ stream' = [stream EXCEPT !.active = FALSE]
    /\ Goto(n, Dead)
    /\ Outside

-----------------------------------------------------------------------------
(***************************************************************************)
(* rtmp_stream_data, called for each packet the interleaving lets go (only *)
(* while the output is active).  It looks at `disconnected' twice.         *)
(***************************************************************************)
DataEnter ==
    /\ ~stream.inCallback
    /\ output.hooked /\ output.active
    /\ ~stream.disconnected /\ stream.active
    /\ Len(stream.packets) < MaxPackets
    /\ stream' = [stream EXCEPT !.inCallback = TRUE]
    /\ UNCHANGED control
    /\ Outside

DataAdd(when) ==
    /\ stream.inCallback
    /\ when = "late" => stream.stopTs = "set"
    /\ stream' = IF stream.disconnected
                   THEN [stream EXCEPT !.inCallback = FALSE]
                   ELSE [stream EXCEPT !.inCallback = FALSE, !.sendSem = @ + 1,
                                       !.packets = Append(@, when)]
    /\ UNCHANGED control
    /\ Outside

-----------------------------------------------------------------------------
(***************************************************************************)
(* Leaving: onSocketDisconnected, ~ZDTalkOBSContext and its release(), and *)
(* rtmp_stream_destroy, on the main thread.                                *)
(***************************************************************************)
\* Nothing is under way: no session, or one that simply runs.
Steady == pc[OBS] = "idle" /\ Drained /\ server.view \in {"idle", "streaming"}

SocketDisconnected ==
    /\ "exit" \in Allowed
    /\ \/ Steady
       \/ "rush" \in Allowed /\ Settled /\ server.view # "stopping"
       \/ "race" \in Allowed
    /\ pc[Main] = "loop"
    /\ app' = [app EXCEPT !.quitting = TRUE]
    /\ Goto(Main, "wait_thread")
    /\ UNCHANGED <<output, stream, server>>

ThreadQuits ==
    /\ app.quitting
    /\ pc[OBS] = "idle"
    /\ Goto(OBS, Dead)
    /\ UNCHANGED stream
    /\ Outside

\* wait(1000) gives up on an OBS thread that waits for another thread.
SpendsASecond ==
    \/ pc[OBS] = "actual_start" /\ stopping
    \/ pc[OBS] = "can_begin" /\ ~EndThreadJoined
    \/ pc[OBS] \in {"plugin_stop", "plugin_force_stop"} /\ ~ConnectJoined

ThreadWaited ==
    /\ pc[Main] = "wait_thread"
    /\ pc[OBS] = Dead \/ SpendsASecond
    /\ app' = [app EXCEPT !.connected = FALSE]
    /\ Call(Main, "destroy", "exited")
    /\ UNCHANGED <<output, stream, server>>

\* Mutant: nothing is waited for.
RtmpDestroyNoJoin ==
    /\ pc[Main] = "plugin_destroy"
    /\ Return(Main)
    /\ UNCHANGED stream
    /\ Outside

\* What is left is stopped by force, as rtmp_stream_stop would.
RtmpDestroy ==
    /\ pc[Main] = "plugin_destroy"
    /\ UNCHANGED stream
    /\ Outside
    /\ IF stream.stopEvent /\ ~stream.connecting THEN Goto(Main, "join_sender")
       ELSE IF stream.connecting THEN Goto(Main, "join_connect")
       ELSE IF stream.active THEN Goto(Main, "destroy_stop")
       ELSE Return(Main)

JoinConnect ==
    /\ pc[Main] = "join_connect"
    /\ Joined(stream.connectThread)
    /\ Goto(Main, "destroy_stop")
    /\ UNCHANGED stream
    /\ Outside

DestroyStop ==
    /\ pc[Main] = "destroy_stop"
    /\ stream' = [stream EXCEPT !.stopTs = "forced", !.stopEvent = TRUE]
    /\ Goto(Main, "destroy_post")
    /\ Outside

DestroyPost ==
    /\ pc[Main] = "destroy_post"
    /\ IF stream.active
         THEN /\ stream' = [stream EXCEPT !.sendSem = @ + 1]
              /\ Call(Main, "end_check", "join_sender")
         ELSE Return(Main) /\ UNCHANGED stream
    /\ Outside

JoinSender ==
    /\ pc[Main] = "join_sender"
    /\ Joined(stream.sendThread)
    /\ Return(Main)
    /\ UNCHANGED stream
    /\ Outside

-----------------------------------------------------------------------------
(***************************************************************************)
(* The steps of libobs, with the notifications that come with them.        *)
(***************************************************************************)
Silent == UNCHANGED <<stream, app, server>>

ObsStep(t) ==
    \/ (ActualStart(t) \/ ObsOutputStop(t) \/ ActualStop(t)) /\ Silent
    \/ (ObsOutputForceStop(t) \/ ActualForceStop(t)) /\ Silent
    \/ (EndCheck(t) \/ EndClear(t) \/ EndJoin(t)) /\ Silent
    \/ \E e \in EndThreads : EndCreate(t, e) /\ Silent
    \/ "create_fails" \in Allowed /\ EndCreateFails(t) /\ Silent
    \/ (EndInactive(t) \/ EndSignal(t)) /\ StreamingStopped(t)
                                        /\ UNCHANGED stream
    \/ (Destroy(t) \/ DestroyWait(t) \/ DestroyJoin(t)) /\ Silent

StopStep(t) == \/ RtmpStop(t) \/ RtmpStopAgain(t) \/ SetTimeout(t)
               \/ RtmpForceStop(t) \/ ForcePost(t)

ConnectStep(c) ==
    \/ InitConnect(c) \/ Connect(c) \/ ConnectFails(c)
    \/ InitSend(c) \/ InitSendFails(c) \/ SetActive(c)
    \/ SendMetaData(c) \/ SendMetaDataFails(c)
    \/ BeginDataCapture(c, "connect_return") /\ Silent
    \/ BeginActivate(c, "connect_return") /\ Notify(c, "started")
                                         /\ UNCHANGED stream
    \/ ConnectReturn(c) \/ ClearConnecting(c)

SendStep(n) ==
    \/ SendWait(n) \/ NextPacket(n) \/ NoPacket(n) \/ SendPacket(n) \/ SendFails(n)
    \/ SendClose(n) \/ SendFree(n) \/ SendReset(n) \/ SendInactive(n)

\* Stopping the encoders waits for the callback that is running.
EndStep(e) ==
    \/ EndDisconnect(e) /\ ~stream.inCallback /\ Silent
    \/ (EndDeactivate(e) \/ EndEvent(e) \/ EndReturn(e)) /\ Silent

SlotStep ==
    \/ RtmpStart
    \/ CanBeginDataCapture(OBS, "create_connect", "start_failed") /\ Silent
    \/ CreateConnect \/ CreateConnectFails \/ StartFailed \/ Deliver

Command == \/ StartStreaming \/ StartStreamingEmpty
           \/ \E force \in BOOLEAN : StopStreaming(force)

DataStep == DataEnter \/ \E when \in {"early", "late"} : DataAdd(when)

MainStep == \/ ThreadQuits \/ ThreadWaited \/ RtmpDestroy \/ JoinConnect
            \/ DestroyStop \/ DestroyPost \/ JoinSender

\* A process that has left takes no step.
Running == pc[Main] # "exited"

Next ==
    /\ Running
    /\ \/ Command
       \/ SocketDisconnected
       \/ SlotStep
       \/ MainStep
       \/ DataStep
       \/ TimePasses
       \/ \E t \in Callers : ObsStep(t) \/ StopStep(t)
       \/ \E c \in ConnectThreads : ConnectStep(c)
       \/ \E n \in SendThreads : SendStep(n)
       \/ \E e \in Threads : EndStep(e)

Spec == Init /\ [][Next]_vars

(***************************************************************************)
(* Every thread that can step eventually does, and the encoder's delay is  *)
(* finite: a stream of packets after the stop time brings a late one.      *)
(* Nothing obliges the server to send commands or the socket to drop.      *)
(***************************************************************************)
Fairness ==
    /\ WF_vars(Running /\ SlotStep)
    /\ WF_vars(Running /\ MainStep)
    /\ WF_vars(Running /\ DataStep)
    /\ SF_vars(Running /\ DataAdd("late"))
    /\ \A t \in Callers : WF_vars(Running /\ (ObsStep(t) \/ StopStep(t)))
    /\ \A c \in ConnectThreads : WF_vars(Running /\ ConnectStep(c))
    /\ \A n \in SendThreads : WF_vars(Running /\ SendStep(n))
    /\ \A e \in Threads : WF_vars(Running /\ EndStep(e))

FairSpec == Spec /\ Fairness

-----------------------------------------------------------------------------
(***************************************************************************)
(* Labels, by the code they stand in, and the places a call returns to.    *)
(***************************************************************************)
EndLabels     == {"end_disconnect", "end_deactivate", "end_event", "end_return"}
EndingLabels  == EndLabels \cup {"end_check", "end_inactive", "end_clear",
                                 "end_join", "end_create", "end_signal"}
SlotLabels    == {"idle", "actual_start", "plugin_start", "can_begin",
                  "create_connect", "start_failed"} \cup StopLabels
MainLabels    == {"loop", "wait_thread", "destroy", "destroy_wait",
                  "destroy_join", "plugin_destroy", "join_connect",
                  "destroy_stop", "destroy_post", "join_sender", "exited",
                  "actual_force_stop", "plugin_force_stop", "force_post"}
ConnectLabels == {"init_connect", "connect", "init_send", "set_active",
                  "send_meta_data", "begin_capture", "begin_activate",
                  "connect_return", "clear_connecting"}

CodeOf(t) ==
    IF t = OBS THEN {Dead} \cup SlotLabels
    ELSE IF t = Main THEN MainLabels \cup EndingLabels
    ELSE IF t \in ConnectThreads THEN {Dead} \cup ConnectLabels \cup EndingLabels
    ELSE IF t \in SendThreads
           THEN {Dead} \cup LoopLabels \cup ClosingLabels \cup EndingLabels
    ELSE {Dead} \cup EndLabels

ReturnsOf(t) ==
    IF t = OBS THEN {"idle"}
    ELSE IF t = Main THEN {"destroy_wait", "join_sender", "exited", "end_signal"}
    ELSE IF t \in ConnectThreads THEN {"connect_return", "end_signal"}
    ELSE IF t \in SendThreads THEN {"send_free", "end_signal"}
    ELSE {}

\* Every thread stays in the code that it can run.
ControlOK ==
    /\ pc = [t \in Threads |-> pc[t]]
    /\ stack = [t \in Threads |-> stack[t]]
    /\ \A t \in Threads : pc[t] \in CodeOf(t) /\ stack[t] \in Seq(ReturnsOf(t))

\* Every variable keeps its type.
TypeOK ==
    /\ ControlOK
    /\ output \in OutputType
    /\ stream \in StreamType
    /\ app \in AppType
    /\ server \in ServerType

\* While the server is told that it streams, and no other word is on its
\* way, a send_thread is there for the packets or about to say it is not.
AnnouncedIsServed ==
    server.view = "streaming" /\ app.posted = <<>> /\ app.connected =>
        /\ stream.active
        /\ \E n \in Live(SendThreads) \ stream.orphans :
             n = stream.sendThread /\ (InLoop(n) \/ Closing(n))

\* When the threads of a session are gone and the server has its answer,
\* nothing of it disturbs the next one.  All that may be left, by a connection
\* that failed once it was made, is a send_thread that waits and `active'.
LeftClean ==
    Drained /\ pc[OBS] = "idle" /\ server.view = "idle" /\ ~app.quitting =>
        /\ ~output.active /\ ~output.dataActive /\ ~output.hooked
        /\ output.stoppingEvent /\ ~output.endThreadActive
        /\ ~stream.stopEvent
        /\ stream.active <=> \E n \in SendThreads : InLoop(n)

\* A new send_thread finds the queue to itself, with no encoder connected
\* that could add to it before the capture begins: StreamQueue!OpenSession.
OpensFreeQueue ==
    [][stream'.sendThread # stream.sendThread =>
         /\ ~output.hooked /\ ~stream.inCallback
         /\ stream.packets = <<>>
         /\ \A n \in SendThreads : ~InLoop(n)' \/ n = stream'.sendThread]_vars

Gone == pc[Main] = "exited"

\* Every start the server sends is answered, with "started" or an error.
StartAnswered == server.view = "starting" ~> (server.view # "starting" \/ Gone)

\* A stop of a running stream is answered, with "stopped" or an error.
StopAnswered == server.view = "stopping" ~> (server.view = "idle" \/ Gone)

\* A broken connection is reported: the server does not go on believing
\* that it streams.
DisconnectReported ==
    stream.disconnected /\ server.view = "streaming" ~>
        (server.view # "streaming" \/ Gone)

\* Whenever the connection to the server drops the process exits.
ExitsWhenDisconnected == pc[Main] = "wait_thread" ~> Gone

\* When the process leaves, no thread is left to use what is then freed,
\* unless a start was under way: its capture may begin once obs_output_destroy
\* has looked for one to end.
ExitLeavesNoThread ==
    pc[Main] = "exited" /\ server.view # "starting" =>
        Live(Threads \ {Main}) \subseteq {OBS} \cup stream.orphans
=============================================================================
