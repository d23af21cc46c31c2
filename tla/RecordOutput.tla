----------------------------- MODULE RecordOutput -----------------------------
(***************************************************************************)
(* Recording to a file: the start and stop slots of ZDTalkOBSContext, the  *)
(* libobs output they drive (ObsOutput) and the FFmpeg output type behind  *)
(* it (obs-ffmpeg-output.c), with all the threads that share them:         *)
(*                                                                         *)
(*   OBS           the thread ZDTalkOBSContext lives in; runs the slots    *)
(*   Main          the Qt main thread; leaves when the socket drops        *)
(*   StartThreads  start_thread, created by ffmpeg_output_start            *)
(*   WriteThreads  write_thread, created by try_connect                    *)
(*   EndThreads    end_data_capture_thread, created by libobs              *)
(*                                                                         *)
(* and the video/audio threads that deliver frames (the Capture actions).  *)
(* A pool of thread names is larger than the number of threads the code    *)
(* means to have, so that an extra one can appear if the code lets it.     *)
(*                                                                         *)
(* Allowed says what the surroundings of the process may do:               *)
(*   "early"  commands arrive whenever, not only after the last answer     *)
(*   "rush"   a start may arrive before the threads of the previous        *)
(*            recording have finished, a stop before the start_thread      *)
(*            that announced this one has returned, and the socket drop in *)
(*            the middle of a start or stop                                *)
(*   "force"  the server may ask for a forced stop                         *)
(*   "exit"   the socket to the server may drop                            *)
(*   "preempt"  the OBS thread may lose the processor between creating     *)
(*            start_thread and assigning `connecting' for as long as that  *)
(*            thread runs, and start_thread between connecting the frame   *)
(*            callbacks and returning for as long as a write takes to fail *)
(*   "open_fails", "write_fails", "create_fails"  the file cannot be       *)
(*            opened, a frame cannot be written, a thread not be created   *)
(***************************************************************************)
EXTENDS ObsOutput, FiniteSets

CONSTANTS OBS, Main, StartThreads, WriteThreads,
          Paths,         \* non-empty file names a start command may carry
          NoFile,        \* ff_data holds no file
          Allowed,       \* see above
          MaxCommands,   \* bound: start and stop commands of a behaviour
          MaxPackets     \* bound: packets queued to the write thread

ASSUME RecordAssumption ==
    /\ Threads = {OBS, Main} \cup StartThreads \cup WriteThreads \cup EndThreads
    /\ OBS # Main
    /\ {OBS, Main} \cap (StartThreads \cup WriteThreads \cup EndThreads) = {}
    /\ StartThreads \cap (WriteThreads \cup EndThreads) = {}
    /\ WriteThreads \cap EndThreads = {}
    /\ NoFile \notin Paths
    /\ MaxCommands \in Nat
    /\ MaxPackets \in Nat
    /\ IsFiniteSet(WriteThreads)

VARIABLES
    ff,         \* struct ffmpeg_output and the threads it names
    disk,       \* the files whose trailer has been written
    app,        \* ZDTalkOBSContext and the process around it
    server      \* the ZDTalk server at the other end of the socket

vars == <<control, output, ff, disk, app, server>>

\* stopTs is "old" while stop_ts lies before every packet of this recording
\* (0, or left from the previous one); packets are "late" from "set" stop_ts
\* on.  detached are the write threads whose handle was detached; inCallback
\* is TRUE while a frame callback runs.
FfType ==
    [connecting        : BOOLEAN,
     active            : BOOLEAN,
     stopping          : BOOLEAN,
     stopTs            : {"old", "set"},
     writeThreadActive : BOOLEAN,
     writeThread       : WriteThreads \cup {NoThread},
     detached          : SUBSET (WriteThreads \cup {NoThread}),
     writeSem          : Nat,
     stopEvent         : BOOLEAN,
     packets           : Seq({"early", "late"}),
     data              : Paths \cup {NoFile},
     inCallback        : BOOLEAN]

Started     == [kind |-> "started", file |-> NoFile]
Stopped(f)  == [kind |-> "stopped", file |-> f]
Error       == [kind |-> "error",   file |-> NoFile]
Notices     == {Started, Error} \cup {Stopped(f) : f \in Paths \cup {NoFile}}

\* filePath is also the "url" in the settings of the output; posted are the
\* notifications queued to the OBS thread; connected says that the signals
\* of the output are connected; quitting that the OBS thread was told to quit.
AppType ==
    [filePath  : Paths \cup {NoFile},
     posted    : Seq(Notices),
     connected : BOOLEAN,
     quitting  : BOOLEAN,
     crashed   : BOOLEAN]

\* view is what the notifications make the server believe, reported the
\* files it was told are complete, commands how many it has sent.
ServerType ==
    [view     : {"idle", "starting", "recording", "stopping"},
     reported : SUBSET (Paths \cup {NoFile}),
     commands : 0..MaxCommands]

Callers == Threads \ EndThreads
Live(T) == {t \in T : pc[t] # Dead}

Init ==
    /\ pc = [t \in Threads |-> IF t = OBS THEN "idle"
                               ELSE IF t = Main THEN "loop" ELSE Dead]
    /\ stack = [t \in Threads |-> <<>>]
    /\ ObsOutputCreate
    /\ ff = [connecting |-> FALSE, active |-> FALSE, stopping |-> FALSE,
             stopTs |-> "old", writeThreadActive |-> FALSE,
             writeThread |-> NoThread, detached |-> {}, writeSem |-> 0,
             stopEvent |-> FALSE, packets |-> <<>>, data |-> NoFile,
             inCallback |-> FALSE]
    /\ disk = {}
    /\ app = [filePath |-> NoFile, posted |-> <<>>, connected |-> TRUE,
              quitting |-> FALSE, crashed |-> FALSE]
    /\ server = [view |-> "idle", reported |-> {}, commands |-> 0]

-----------------------------------------------------------------------------
(***************************************************************************)
(* Notifications.  The signal handlers run on the thread that signals and  *)
(* use invokeMethod: a direct call on the OBS thread, a posted event from  *)
(* any other.  Once release() has disconnected them nothing is sent.       *)
(***************************************************************************)
\* What the server makes of a notification.
Received(n) ==
    server' = [server EXCEPT
        !.view = IF n.kind = "started" THEN "recording" ELSE "idle",
        !.reported = IF n.kind = "stopped" THEN @ \cup {n.file} ELSE @]

Notify(t, n) ==
    \/ ~app.connected /\ UNCHANGED <<app, server>>
    \/ app.connected /\ t = OBS /\ Received(n) /\ UNCHANGED app
    \/ /\ app.connected /\ t # OBS
       /\ app' = [app EXCEPT !.posted = Append(@, n)]
       /\ UNCHANGED server

\* Mutant: the stop code is not looked at.
RecordingStoppedAnyCode(t) == Notify(t, Stopped(app.filePath))

\* RecordingStopped: the path is read now, on the signalling thread.
RecordingStopped(t) ==
    Notify(t, IF output.stopCode = "success" THEN Stopped(app.filePath)
              ELSE Error)

Deliver ==
    /\ pc[OBS] = "idle"
    /\ app.posted # <<>>
    /\ app' = [app EXCEPT !.posted = Tail(@)]
    /\ Received(Head(app.posted))
    /\ UNCHANGED <<control, output, ff, disk>>

-----------------------------------------------------------------------------
(***************************************************************************)
(* The slots of ZDTalkOBSContext on the OBS thread.                        *)
(***************************************************************************)
\* Every thread of the previous recording has finished.
Drained == Live(StartThreads \cup WriteThreads \cup EndThreads) = {}

StartPermitted ==
    /\ ~app.quitting
    /\ "early" \in Allowed \/ server.view = "idle"
    /\ "rush" \in Allowed \/ Drained

StopPermitted ==
    /\ ~app.quitting
    /\ "early" \in Allowed \/ server.view = "recording"
    /\ "rush" \in Allowed \/ Live(StartThreads) = {}

\* startRecording with a non-empty path, and setupRecording.
StartRecording(p) ==
    /\ pc[OBS] = "idle"
    /\ server.commands < MaxCommands
    /\ StartPermitted
    /\ server' = [server EXCEPT !.commands = @ + 1, !.view = "starting"]
    /\ app' = [app EXCEPT !.filePath = p]
    /\ Call(OBS, "actual_start", "idle")
    /\ UNCHANGED <<output, ff, disk>>

\* startRecording with an empty path: an error and nothing else.
StartRecordingEmpty ==
    /\ pc[OBS] = "idle"
    /\ server.commands < MaxCommands
    /\ StartPermitted
    /\ server' = [server EXCEPT !.commands = @ + 1, !.view = "idle"]
    /\ UNCHANGED <<control, output, ff, disk, app>>

\* stopRecording does nothing unless obs_output_active.  The server expects
\* an answer when it believes there is something to stop.
StopRecording(force) ==
    /\ pc[OBS] = "idle"
    /\ server.commands < MaxCommands
    /\ StopPermitted
    /\ force => "force" \in Allowed
    /\ server' = [server EXCEPT !.commands = @ + 1,
                                !.view = IF @ = "idle" THEN @ ELSE "stopping"]
    /\ IF output.active
         THEN Call(OBS, IF force THEN "obs_force_stop" ELSE "obs_stop", "idle")
         ELSE UNCHANGED control
    /\ UNCHANGED <<output, ff, disk, app>>

-----------------------------------------------------------------------------
(***************************************************************************)
(* ffmpeg_output_start, on the OBS thread.  `connecting' is assigned after *)
(* start_thread has been created.                                          *)
(***************************************************************************)
Outside == UNCHANGED <<output, disk, app, server>>

\* Mutant: `connecting' is not checked.
FfmpegStartUnchecked ==
    /\ pc[OBS] = "plugin_start"
    /\ ff' = [ff EXCEPT !.stopping = FALSE, !.stopTs = "old"]
    /\ \E s \in StartThreads :
         /\ pc[s] = Dead
         /\ pc' = [pc EXCEPT ![OBS] = "set_connecting", ![s] = "data_init"]
    /\ UNCHANGED stack
    /\ Outside

FfmpegStart ==
    /\ pc[OBS] = "plugin_start"
    /\ ~ff.connecting
    /\ ff' = [ff EXCEPT !.stopping = FALSE, !.stopTs = "old"]
    /\ \E s \in StartThreads :
         /\ pc[s] = Dead
         /\ pc' = [pc EXCEPT ![OBS] = "set_connecting", ![s] = "data_init"]
    /\ UNCHANGED stack
    /\ Outside

FfmpegStartRefused ==
    /\ pc[OBS] = "plugin_start"
    /\ ff.connecting
    /\ Goto(OBS, "start_failed")
    /\ UNCHANGED ff
    /\ Outside

FfmpegStartFails ==
    /\ "create_fails" \in Allowed
    /\ pc[OBS] = "plugin_start"
    /\ ~ff.connecting
    /\ ff' = [ff EXCEPT !.stopping = FALSE, !.stopTs = "old"]
    /\ Goto(OBS, "start_failed")
    /\ Outside

SetConnecting ==
    /\ pc[OBS] = "set_connecting"
    /\ ff' = [ff EXCEPT !.connecting = TRUE]
    /\ Return(OBS)
    /\ Outside

\* startRecording reports that obs_output_start returned false.
StartFailed ==
    /\ pc[OBS] = "start_failed"
    /\ Return(OBS)
    /\ Received(Error)
    /\ UNCHANGED <<output, ff, disk, app>>

-----------------------------------------------------------------------------
(***************************************************************************)
(* start_thread and try_connect.                                           *)
(***************************************************************************)
\* ffmpeg_data_init clears ff_data, whatever it holds, before it opens.
DataInit(s) ==
    /\ pc[s] = "data_init"
    /\ ff' = [ff EXCEPT !.data = NoFile]
    /\ Goto(s, "open_file")
    /\ Outside

\* Opening truncates: a file opened again is complete no longer.
OpenFile(s) ==
    /\ pc[s] = "open_file"
    /\ ff' = [ff EXCEPT !.data = app.filePath]
    /\ disk' = disk \ {app.filePath}
    /\ server' = [server EXCEPT !.reported = @ \ {app.filePath}]
    /\ Goto(s, "set_active")
    /\ UNCHANGED <<output, app>>

OpenFileFails(s) ==
    /\ "open_fails" \in Allowed
    /\ pc[s] = "open_file"
    /\ Goto(s, "connect_failed")
    /\ UNCHANGED ff
    /\ Outside

SetActive(s) ==
    /\ pc[s] = "set_active"
    /\ ff' = [ff EXCEPT !.active = TRUE]
    /\ Goto(s, "can_begin")
    /\ Outside

CreateWriter(s) ==
    /\ pc[s] = "create_writer"
    /\ \E w \in WriteThreads :
         /\ pc[w] = Dead
         /\ ff' = [ff EXCEPT !.writeThread = w, !.detached = @ \ {w}]
         /\ pc' = [pc EXCEPT ![s] = "begin_capture", ![w] = "write_wait"]
    /\ UNCHANGED stack
    /\ Outside

CreateWriterFails(s) ==
    /\ "create_fails" \in Allowed
    /\ pc[s] = "create_writer"
    /\ Call(s, "full_stop", "connect_failed")
    /\ UNCHANGED ff
    /\ Outside

WriterActive(s) ==
    /\ pc[s] = "writer_active"
    /\ ff' = [ff EXCEPT !.writeThreadActive = TRUE]
    /\ Goto(s, "start_return")
    /\ Outside

\* Mutant: a failed connection is not signalled.
ConnectFailedSilent(s) ==
    /\ pc[s] = "connect_failed"
    /\ Goto(s, "start_return")
    /\ UNCHANGED ff
    /\ Outside

ConnectFailed(s) ==
    /\ pc[s] = "connect_failed"
    /\ SignalStop("connect_failed")
    /\ Call(s, "end_check", "start_return")
    /\ UNCHANGED <<ff, disk, app, server>>

StartReturn(s) ==
    /\ pc[s] = "start_return"
    /\ "preempt" \in Allowed \/ pc[OBS] # "set_connecting"
    /\ ff' = [ff EXCEPT !.connecting = FALSE]
    /\ Goto(s, Dead)
    /\ Outside

-----------------------------------------------------------------------------
(***************************************************************************)
(* ffmpeg_output_stop, ffmpeg_output_full_stop and ffmpeg_deactivate.      *)
(***************************************************************************)
\* Mutant: the flag is not raised.
FfmpegStopNoFlag(t) ==
    /\ pc[t] = "plugin_stop"
    /\ IF ff.active THEN Goto(t, "set_stop_ts") ELSE Return(t)
    /\ UNCHANGED ff
    /\ Outside

\* A graceful stop raises the flag first and stores the stop time after it.
FfmpegStop(t) ==
    /\ pc[t] = "plugin_stop"
    /\ IF ff.active
         THEN ff' = [ff EXCEPT !.stopping = TRUE] /\ Goto(t, "set_stop_ts")
         ELSE UNCHANGED ff /\ Return(t)
    /\ Outside

SetStopTs(t) ==
    /\ pc[t] = "set_stop_ts"
    /\ ff' = [ff EXCEPT !.stopTs = "set"]
    /\ Return(t)
    /\ Outside

FfmpegForceStop(t) ==
    /\ pc[t] = "plugin_force_stop"
    /\ IF ff.active THEN Goto(t, "full_stop") ELSE Return(t)
    /\ UNCHANGED ff
    /\ Outside

\* Mutant: the capture is ended twice.
FullStopTwice(t) ==
    /\ pc[t] = "full_stop"
    /\ IF ff.active
         THEN /\ pc' = [pc EXCEPT ![t] = "end_check"]
              /\ stack' = [stack EXCEPT ![t] = <<"end_check", "deactivate">> \o @]
         ELSE Return(t)
    /\ UNCHANGED ff
    /\ Outside

FullStop(t) ==
    /\ pc[t] = "full_stop"
    /\ IF ff.active THEN Call(t, "end_check", "deactivate") ELSE Return(t)
    /\ UNCHANGED ff
    /\ Outside

\* Mutant: the write thread is not woken for the stop request.
DeactivateNoPost(t) ==
    /\ pc[t] = "deactivate"
    /\ IF ff.writeThreadActive
         THEN ff' = [ff EXCEPT !.stopEvent = TRUE] /\ Goto(t, "join_writer")
         ELSE UNCHANGED ff /\ Goto(t, "free_packets")
    /\ Outside

Deactivate(t) ==
    /\ pc[t] = "deactivate"
    /\ IF ff.writeThreadActive
         THEN /\ ff' = [ff EXCEPT !.stopEvent = TRUE, !.writeSem = @ + 1]
              /\ Goto(t, "join_writer")
         ELSE UNCHANGED ff /\ Goto(t, "free_packets")
    /\ Outside

\* Mutant: the write thread is not waited for.
JoinWriterNoWait(t) ==
    /\ pc[t] = "join_writer"
    /\ ff' = [ff EXCEPT !.writeThreadActive = FALSE]
    /\ Goto(t, "free_packets")
    /\ Outside

\* pthread_join returns at once for the caller itself or a detached thread.
JoinWriter(t) ==
    /\ pc[t] = "join_writer"
    /\ \/ ff.writeThread \in {t, NoThread} \cup ff.detached
       \/ pc[ff.writeThread] = Dead
    /\ ff' = [ff EXCEPT !.writeThreadActive = FALSE]
    /\ Goto(t, "free_packets")
    /\ Outside

FreePackets(t) ==
    /\ pc[t] = "free_packets"
    /\ ff' = [ff EXCEPT !.packets = <<>>]
    /\ Goto(t, "write_trailer")
    /\ Outside

\* ffmpeg_data_free: av_write_trailer, then everything ff_data holds by then
\* is closed and cleared.
WriteTrailer(t) ==
    /\ pc[t] = "write_trailer"
    /\ disk' = disk \cup ({ff.data} \ {NoFile})
    /\ Goto(t, "close_file")
    /\ UNCHANGED <<output, ff, app, server>>

CloseFile(t) ==
    /\ pc[t] = "close_file"
    /\ ff' = [ff EXCEPT !.data = NoFile]
    /\ Return(t)
    /\ Outside

-----------------------------------------------------------------------------
(***************************************************************************)
(* write_thread and process_packet.                                        *)
(***************************************************************************)
WriteWait(w) ==
    /\ pc[w] = "write_wait"
    /\ ff.writeSem > 0
    /\ ff' = [ff EXCEPT !.writeSem = @ - 1, !.stopEvent = FALSE]
    /\ Goto(w, IF ff.stopEvent THEN "write_return" ELSE "process_packet")
    /\ Outside

\* Mutant: the stop time is compared although no stop was asked for.
DueUnasked(p) == ff.stopTs = "old" \/ p = "late"

\* A packet past the stop time ends the recording and is not written.
Due(p) == ff.stopping /\ (ff.stopTs = "old" \/ p = "late")

ProcessPacket(w) ==
    /\ pc[w] = "process_packet"
    /\ IF ff.packets = <<>>
         THEN Goto(w, "write_wait") /\ UNCHANGED ff
         ELSE /\ ff' = [ff EXCEPT !.packets = Tail(@)]
              /\ IF Due(Head(ff.packets))
                   THEN Call(w, "full_stop", "write_wait")
                   ELSE Goto(w, "write_frame")
    /\ Outside

\* av_interleaved_write_frame dereferences the context ff_data points to.
WriteFrame(w) ==
    /\ pc[w] = "write_frame"
    /\ app' = [app EXCEPT !.crashed = (ff.data = NoFile)]
    /\ Goto(w, "write_wait")
    /\ UNCHANGED <<output, ff, disk, server>>

WriteFrameFails(w) ==
    /\ "write_fails" \in Allowed
    /\ pc[w] = "write_frame"
    /\ ff.data # NoFile
    /\ "preempt" \in Allowed \/ Live(StartThreads) = {}
    /\ ff' = [ff EXCEPT !.detached = @ \cup {ff.writeThread},
                        !.writeThreadActive = FALSE]
    /\ \E code \in {"no_space", "error"} : SignalStop(code)
    /\ pc' = [pc EXCEPT ![w] = "end_check"]
    /\ stack' = [stack EXCEPT ![w] = <<"deactivate", "write_return">> \o @]
    /\ UNCHANGED <<disk, app, server>>

\* Mutant: the recorder stays active.
WriteReturnActive(w) ==
    /\ pc[w] = "write_return"
    /\ Goto(w, Dead)
    /\ UNCHANGED ff
    /\ Outside

WriteReturn(w) ==
    /\ pc[w] = "write_return"
    /\ ff' = [ff EXCEPT !.active = FALSE]
    /\ Goto(w, Dead)
    /\ Outside

-----------------------------------------------------------------------------
(***************************************************************************)
(* default_raw_{video,audio}_callback, receive_video and receive_audio.    *)
(* The callback checks data_active and ff_data on entry, encodes, and then *)
(* queues the packet.  Once the stop time is stored a packet may still be  *)
(* early (the encoder lags) and in the end is late.                        *)
(***************************************************************************)
CaptureEnter ==
    /\ ~ff.inCallback
    /\ output.hooked /\ output.dataActive
    /\ ff.data # NoFile
    /\ Len(ff.packets) < MaxPackets
    /\ ff' = [ff EXCEPT !.inCallback = TRUE]
    /\ UNCHANGED control
    /\ Outside

\* Mutant: a packet is queued without a post.
CapturePushNoPost(when) ==
    /\ ff.inCallback
    /\ ff.data # NoFile
    /\ when = "late" => ff.stopTs = "set"
    /\ ff' = [ff EXCEPT !.inCallback = FALSE, !.packets = Append(@, when)]
    /\ UNCHANGED control
    /\ Outside

CapturePush(when) ==
    /\ ff.inCallback
    /\ ff.data # NoFile
    /\ when = "late" => ff.stopTs = "set"
    /\ ff' = [ff EXCEPT !.inCallback = FALSE, !.packets = Append(@, when),
                        !.writeSem = @ + 1]
    /\ UNCHANGED control
    /\ Outside

\* ff_data was freed under the callback: it may die on it, or survive.
CaptureFreed ==
    /\ ff.inCallback
    /\ ff.data = NoFile
    /\ ff' = [ff EXCEPT !.inCallback = FALSE]
    /\ \E dies \in BOOLEAN : app' = [app EXCEPT !.crashed = dies]
    /\ UNCHANGED <<control, output, disk, server>>

-----------------------------------------------------------------------------
(***************************************************************************)
(* Leaving: onSocketDisconnected, ~ZDRecordingClient, ~ZDTalkOBSContext,   *)
(* release and ffmpeg_output_destroy, on the main thread.                  *)
(***************************************************************************)
\* Nothing is under way: no recording, or one that simply runs.
Steady == /\ pc[OBS] = "idle"
          /\ Drained \/ (/\ server.view = "recording"
                         /\ Live(StartThreads \cup EndThreads) = {})

SocketDisconnected ==
    /\ "exit" \in Allowed
    /\ "rush" \in Allowed \/ Steady
    /\ pc[Main] = "loop"
    /\ app' = [app EXCEPT !.quitting = TRUE]
    /\ Goto(Main, "wait_thread")
    /\ UNCHANGED <<output, ff, disk, server>>

\* quit() ends the OBS thread's event loop once its slot has returned.
ThreadQuits ==
    /\ app.quitting
    /\ pc[OBS] = "idle"
    /\ Goto(OBS, Dead)
    /\ UNCHANGED ff
    /\ Outside

\* wait(1000) gives up when the OBS thread spends that second in a call that
\* waits for another thread, or writes the trailer.
SpendsASecond ==
    \/ pc[OBS] \in {"join_writer", "end_join", "write_trailer"}
    \/ pc[OBS] = "actual_start" /\ stopping

\* release() starts by disconnecting the signals, then drops the output.
ThreadWaited ==
    /\ pc[Main] = "wait_thread"
    /\ pc[OBS] = Dead \/ SpendsASecond
    /\ app' = [app EXCEPT !.connected = FALSE]
    /\ Call(Main, "destroy", "exited")
    /\ UNCHANGED <<output, ff, disk, server>>

FfmpegDestroy ==
    /\ pc[Main] = "plugin_destroy"
    /\ ff.connecting => Live(StartThreads) = {}
    /\ Goto(Main, "full_stop")
    /\ UNCHANGED ff
    /\ Outside

-----------------------------------------------------------------------------
(***************************************************************************)
(* The steps of libobs, with the notifications that come with them.        *)
(***************************************************************************)
Silent == UNCHANGED <<ff, disk, app, server>>

ObsStep(t) ==
    \/ (ActualStart(t) \/ ObsOutputStop(t) \/ ActualStop(t)) /\ Silent
    \/ (ObsOutputForceStop(t) \/ ActualForceStop(t)) /\ Silent
    \/ (EndCheck(t) \/ EndClear(t) \/ EndJoin(t)) /\ Silent
    \/ \E e \in EndThreads : EndCreate(t, e) /\ Silent
    \/ "create_fails" \in Allowed /\ EndCreateFails(t) /\ Silent
    \/ (EndInactive(t) \/ EndSignal(t)) /\ RecordingStopped(t)
                                        /\ UNCHANGED <<ff, disk>>
    \/ (Destroy(t) \/ DestroyWait(t) \/ DestroyJoin(t)) /\ Silent

StopStep(t) ==
    \/ FfmpegStop(t) \/ SetStopTs(t) \/ FfmpegForceStop(t) \/ FullStop(t)
    \/ Deactivate(t) \/ JoinWriter(t) \/ FreePackets(t)
    \/ WriteTrailer(t) \/ CloseFile(t)

StartStep(s) ==
    \/ DataInit(s) \/ OpenFile(s) \/ OpenFileFails(s) \/ SetActive(s)
    \/ CanBeginDataCapture(s, "create_writer", "connect_failed") /\ Silent
    \/ CreateWriter(s) \/ CreateWriterFails(s)
    \/ BeginDataCapture(s, "writer_active") /\ Silent
    \/ BeginActivate(s, "writer_active") /\ Notify(s, Started)
                                         /\ UNCHANGED <<ff, disk>>
    \/ WriterActive(s) \/ ConnectFailed(s) \/ StartReturn(s)

WriteStep(w) ==
    \/ WriteWait(w) \/ ProcessPacket(w) \/ WriteFrame(w) \/ WriteFrameFails(w)
    \/ WriteReturn(w)

\* Disconnecting a callback waits for the one that is running.
EndStep(e) ==
    \/ EndDisconnect(e) /\ ~ff.inCallback /\ Silent
    \/ (EndDeactivate(e) \/ EndEvent(e) \/ EndReturn(e)) /\ Silent

SlotStep == \/ FfmpegStart \/ FfmpegStartRefused \/ FfmpegStartFails
            \/ SetConnecting \/ StartFailed \/ Deliver

Command ==
    \/ \E p \in Paths : StartRecording(p)
    \/ StartRecordingEmpty
    \/ \E force \in BOOLEAN : StopRecording(force)

CaptureStep == CaptureEnter \/ CaptureFreed
               \/ \E when \in {"early", "late"} : CapturePush(when)

MainStep == ThreadQuits \/ ThreadWaited \/ FfmpegDestroy

\* A process that has died or left takes no step.
Running == ~app.crashed /\ pc[Main] # "exited"

Next ==
    /\ Running
    /\ \/ Command
       \/ SocketDisconnected
       \/ SlotStep
       \/ MainStep
       \/ CaptureStep
       \/ \E t \in Callers : ObsStep(t) \/ StopStep(t)
       \/ \E s \in StartThreads : StartStep(s)
       \/ \E w \in WriteThreads : WriteStep(w)
       \/ \E e \in Threads : EndStep(e)

Spec == Init /\ [][Next]_vars

(***************************************************************************)
(* Every thread that can step eventually does, and the encoder's delay is  *)
(* finite: a stream of frames after the stop time brings a late packet.    *)
(* Nothing obliges the server to send commands or the socket to drop.      *)
(***************************************************************************)
Fairness ==
    /\ WF_vars(Running /\ SlotStep)
    /\ WF_vars(Running /\ MainStep)
    /\ WF_vars(Running /\ CaptureStep)
    /\ SF_vars(Running /\ CapturePush("late"))
    /\ \A t \in Callers : WF_vars(Running /\ (ObsStep(t) \/ StopStep(t)))
    /\ \A s \in StartThreads : WF_vars(Running /\ StartStep(s))
    /\ \A w \in WriteThreads : WF_vars(Running /\ WriteStep(w))
    /\ \A e \in Threads : WF_vars(Running /\ EndStep(e))

FairSpec == Spec /\ Fairness

-----------------------------------------------------------------------------
(***************************************************************************)
(* Labels, by the code they stand in, and the places a call returns to.    *)
(***************************************************************************)
EndLabels    == {"end_disconnect", "end_deactivate", "end_event", "end_return"}
EndingLabels == EndLabels \cup
                {"end_check", "end_inactive", "end_clear", "end_join",
                 "end_create", "end_signal", "full_stop", "deactivate",
                 "join_writer", "free_packets", "write_trailer", "close_file"}
ForcedLabels == {"actual_force_stop", "plugin_force_stop"}
SlotLabels   == {"idle", "actual_start", "plugin_start", "set_connecting",
                 "start_failed", "obs_stop", "actual_stop", "plugin_stop",
                 "set_stop_ts", "obs_force_stop"}
MainLabels   == {"loop", "wait_thread", "destroy", "destroy_wait",
                 "destroy_join", "plugin_destroy", "exited"}
StartLabels  == {"data_init", "open_file", "set_active", "can_begin",
                 "create_writer", "begin_capture", "begin_activate",
                 "writer_active", "connect_failed", "start_return"}
WriteLabels  == {"write_wait", "process_packet", "write_frame", "write_return"}

\* The code thread t can be in.
CodeOf(t) ==
    IF t = OBS THEN {Dead} \cup SlotLabels \cup ForcedLabels \cup EndingLabels
    ELSE IF t = Main THEN MainLabels \cup ForcedLabels \cup EndingLabels
    ELSE IF t \in StartThreads THEN {Dead} \cup StartLabels \cup EndingLabels
    ELSE IF t \in WriteThreads THEN {Dead} \cup WriteLabels \cup EndingLabels
    ELSE {Dead} \cup EndLabels

\* The places its calls can return to.
ReturnsOf(t) ==
    IF t \in EndThreads THEN {}
    ELSE {"deactivate", "end_signal"} \cup
         (IF t = OBS THEN {"idle"}
          ELSE IF t = Main THEN {"destroy_wait", "exited"}
          ELSE IF t \in StartThreads THEN {"connect_failed", "start_return"}
          ELSE {"write_wait", "write_return"})

ControlOK ==
    /\ pc = [t \in Threads |-> pc[t]]
    /\ stack = [t \in Threads |-> stack[t]]
    /\ \A t \in Threads : pc[t] \in CodeOf(t) /\ stack[t] \in Seq(ReturnsOf(t))

\* Every variable keeps its type, and every thread stays in the code that
\* it can run: no return address of one thread sends it into another's.
TypeOK ==
    /\ ControlOK
    /\ output \in OutputType
    /\ ff \in FfType
    /\ disk \subseteq Paths
    /\ app \in AppType
    /\ server \in ServerType

\* At most one start_thread runs at a time, whatever the order of commands
\* and however late `connecting' is assigned.
OneStartThread == \A s, r \in Live(StartThreads) : s = r

\* No packet is queued without a post that will wake a write thread for it,
\* and a stop request has a post of its own.
Popping == {w \in WriteThreads : pc[w] = "process_packet"}
EveryPacketPosted ==
    /\ ff.stopEvent => ff.writeSem > 0
    /\ Len(ff.packets) + (IF ff.stopEvent THEN 1 ELSE 0)
         <= ff.writeSem + Cardinality(Popping)

\* When every thread of a recording is gone and the server has its answer,
\* nothing of it is left to disturb the next one: both active flags and the
\* callbacks are off, no packet is queued, no file is open, the stop
\* request is consumed and a start need not wait.
CleanWhenDrained ==
    Drained /\ pc[OBS] = "idle" =>
        /\ ~output.active /\ ~output.dataActive /\ ~output.hooked
        /\ output.stoppingEvent /\ ~output.endThreadActive
        /\ ~ff.active /\ ~ff.connecting /\ ~ff.writeThreadActive
        /\ ~ff.stopEvent /\ Len(ff.packets) <= 1 /\ ff.data = NoFile

\* A write thread about to write has the file open.
WriterHasFile == \A w \in WriteThreads : pc[w] = "write_frame" => ff.data # NoFile

\* ffmpeg_data_free is never run by two threads at once, and never while a
\* start thread fills ff_data.
Closing(t) == pc[t] \in {"write_trailer", "close_file"}
OneOwnerOfData ==
    \A t, u \in Callers : Closing(t) /\ (Closing(u) \/ pc[u] = "open_file") => t = u

\* While the server believes nothing is going on, no notification is under
\* way that would tell it otherwise: each recording is reported ended once.
NoStrayNotice == server.view = "idle" => app.posted = <<>>

\* Seen from the server, a recording is what RecordingPromise says: the
\* answers come in order, success is reported of a file that was recorded,
\* and no recording is closed that was not stopped and did not fail.
Promise == INSTANCE RecordingPromise WITH
    MayFail  <- "write_fails" \in Allowed,
    view     <- server.view,
    path     <- app.filePath,
    open     <- ff.data # NoFile /\ ff.data \notin disk,
    reported <- server.reported,
    complete <- disk

Implements == Promise!Spec

Gone == app.crashed \/ pc[Main] = "exited"

\* Every start the server sends is answered: with "started" or an error.
StartAnswered == server.view = "starting" ~> (server.view # "starting" \/ Gone)

\* A stop of a running recording is answered, with "stopped" or an error.
StopAnswered == server.view = "stopping" ~> (server.view = "idle" \/ Gone)

\* A file reported complete does become complete (or is recorded anew).
ReportedBecomesComplete ==
    \A p \in Paths : p \in server.reported ~>
        (p \in disk \/ p \notin server.reported \/ Gone)

\* Whenever the connection drops the process exits.
ExitsWhenDisconnected == pc[Main] = "wait_thread" ~> Gone

\* When the process leaves, every thread of the recording is gone, no file
\* is open, and a file the server has heard is being recorded is complete.
ExitCompletesFile ==
    pc[Main] = "exited" =>
        /\ Drained /\ ff.data = NoFile
        /\ server.view = "recording" => app.filePath \in disk
=============================================================================
