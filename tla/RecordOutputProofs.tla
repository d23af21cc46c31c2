-------------------------- MODULE RecordOutputProofs --------------------------
(***************************************************************************)
(* Proofs about RecordOutput for every set of threads and paths, every     *)
(* bound and every Allowed: whatever the server sends and whatever fails.  *)
(***************************************************************************)
EXTENDS RecordOutput, FiniteSetTheorems, TLAPS

(***************************************************************************)
(* Control.  Going on, calling and returning keep every thread in the code *)
(* it can run.                                                             *)
(***************************************************************************)

\* Goto keeps the threads in their code when its label is in the code of t.
LEMMA GotoOK ==
  ASSUME NEW t \in Threads, NEW label, ControlOK, Goto(t, label),
         label \in CodeOf(t)
  PROVE  ControlOK'
BY DEF ControlOK, Goto, CodeOf, ReturnsOf

\* So does Call, when the place it will return to is one of t's.
LEMMA CallOK ==
  ASSUME NEW t \in Threads, NEW label, NEW back, ControlOK,
         Call(t, label, back), label \in CodeOf(t), back \in ReturnsOf(t)
  PROVE  ControlOK'
<1>1. <<back>> \o stack[t] \in Seq(ReturnsOf(t))
  BY DEF ControlOK
<1>2. QED
  BY <1>1 DEF ControlOK, Call, CodeOf, ReturnsOf

\* Every place a thread returns to is in its code, so Return is safe.
LEMMA ReturnOK ==
  ASSUME NEW t \in Threads, ControlOK, Return(t)
  PROVE  ControlOK'
<1>1. Head(stack[t]) \in ReturnsOf(t) /\ Tail(stack[t]) \in Seq(ReturnsOf(t))
  BY DEF ControlOK, Return
<1>2. ReturnsOf(t) \subseteq CodeOf(t)
  BY RecordAssumption
     DEF CodeOf, ReturnsOf, MainLabels, SlotLabels, StartLabels, WriteLabels,
         EndingLabels, EndLabels
<1>3. QED
  BY <1>1, <1>2 DEF ControlOK, Return, CodeOf, ReturnsOf

\* The code of a thread, by where it can be found: a caller in shared code
\* may go on in it, and the rest belongs to one kind of thread.
LEMMA CodeFacts ==
  ASSUME NEW t \in Callers
  PROVE  /\ t \in Threads
         /\ EndLabels \cup EndingLabels \subseteq CodeOf(t)
         /\ {"deactivate", "end_signal"} \subseteq ReturnsOf(t)
         /\ \A l \in CodeOf(t) \cap SlotLabels : t = OBS
         /\ \A l \in CodeOf(t) \cap MainLabels : t = Main
         /\ \A l \in CodeOf(t) \cap ForcedLabels : t \in {OBS, Main}
         /\ OBS \in Threads /\ Main \in Threads
         /\ SlotLabels \cup ForcedLabels \cup {Dead} \subseteq CodeOf(OBS)
         /\ MainLabels \cup ForcedLabels \subseteq CodeOf(Main)
         /\ "idle" \in ReturnsOf(OBS)
         /\ {"destroy_wait", "exited"} \subseteq ReturnsOf(Main)
BY RecordAssumption
   DEF Callers, CodeOf, ReturnsOf, SlotLabels, MainLabels, StartLabels,
       WriteLabels, EndingLabels, ForcedLabels, EndLabels, Dead

\* The steps of libobs keep the threads in their code.
LEMMA ObsControl ==
  ASSUME TypeOK, NEW t \in Callers, ObsStep(t)
  PROVE  ControlOK'
<1> USE CodeFacts
<1>0. ControlOK /\ t \in Threads /\ pc[t] \in CodeOf(t)
  BY DEF TypeOK, ControlOK
<1>1. CASE ActualStart(t)
  BY <1>0, <1>1, GotoOK DEF ActualStart, SlotLabels
<1>2. CASE ObsOutputStop(t)
  BY <1>0, <1>2, GotoOK, ReturnOK DEF ObsOutputStop, SlotLabels
<1>3. CASE ActualStop(t)
  BY <1>0, <1>3, GotoOK, ReturnOK DEF ActualStop, SlotLabels
<1>4. CASE ObsOutputForceStop(t)
  BY <1>0, <1>4, GotoOK DEF ObsOutputForceStop, SlotLabels, ForcedLabels
<1>5. CASE ActualForceStop(t)
  BY <1>0, <1>5, GotoOK DEF ActualForceStop, ForcedLabels
<1>6. CASE EndCheck(t) \/ EndClear(t) \/ EndJoin(t)
  BY <1>0, <1>6, GotoOK DEF EndCheck, EndClear, EndJoin, EndingLabels
<1>7. ASSUME NEW e \in EndThreads, EndCreate(t, e) PROVE ControlOK'
  <2>1. e \in Threads /\ "end_disconnect" \in CodeOf(e)
    BY ThreadsAssumption, RecordAssumption DEF CodeOf, EndLabels
  <2>2. "end_signal" \in CodeOf(t)
    BY DEF EndingLabels
  <2>3. QED
    BY <1>0, <1>7, <2>1, <2>2 DEF EndCreate, ControlOK, CodeOf, ReturnsOf
<1>8. CASE EndInactive(t) \/ EndSignal(t) \/ EndCreateFails(t)
  BY <1>0, <1>8, ReturnOK, CallOK
     DEF EndInactive, EndSignal, EndCreateFails, EndLabels
<1>9. CASE Destroy(t) \/ DestroyWait(t) \/ DestroyJoin(t)
  <2>1. t = Main
    BY <1>0, <1>9 DEF Destroy, DestroyWait, DestroyJoin, MainLabels
  <2>2. QED
    BY <1>0, <1>9, <2>1, GotoOK, CallOK
       DEF Destroy, DestroyWait, DestroyJoin, MainLabels, ForcedLabels
<1>10. QED
  BY <1>1, <1>2, <1>3, <1>4, <1>5, <1>6, <1>7, <1>8, <1>9 DEF ObsStep

\* The recorder's stop, full stop and deactivation keep them there.
LEMMA StopControl ==
  ASSUME TypeOK, NEW t \in Callers, StopStep(t)
  PROVE  ControlOK'
<1> USE CodeFacts
<1>0. ControlOK /\ t \in Threads /\ pc[t] \in CodeOf(t)
  BY DEF TypeOK, ControlOK
<1>1. CASE FfmpegStop(t) \/ SetStopTs(t)
  <2>1. t = OBS
    BY <1>0, <1>1 DEF FfmpegStop, SetStopTs, SlotLabels
  <2>2. QED
    BY <1>0, <1>1, <2>1, GotoOK, ReturnOK DEF FfmpegStop, SetStopTs, SlotLabels
<1>2. CASE FfmpegForceStop(t)
  BY <1>0, <1>2, GotoOK, ReturnOK DEF FfmpegForceStop, EndingLabels
<1>3. CASE FullStop(t)
  BY <1>0, <1>3, CallOK, ReturnOK DEF FullStop, EndingLabels
<1>4. CASE Deactivate(t) \/ JoinWriter(t) \/ FreePackets(t) \/ WriteTrailer(t)
  BY <1>0, <1>4, GotoOK
     DEF Deactivate, JoinWriter, FreePackets, WriteTrailer, EndingLabels
<1>5. CASE CloseFile(t)
  BY <1>0, <1>5, ReturnOK DEF CloseFile
<1>6. QED
  BY <1>1, <1>2, <1>3, <1>4, <1>5 DEF StopStep

\* A start thread stays in start_thread and what it calls.
LEMMA StartControl ==
  ASSUME TypeOK, NEW s \in StartThreads, StartStep(s)
  PROVE  ControlOK'
<1>0. ControlOK /\ s \in Threads
  BY RecordAssumption DEF TypeOK
<1>1. /\ StartLabels \cup EndingLabels \cup {Dead} \subseteq CodeOf(s)
      /\ {"connect_failed", "start_return"} \subseteq ReturnsOf(s)
  BY RecordAssumption DEF CodeOf, ReturnsOf
<1>2. CASE \/ DataInit(s) \/ OpenFile(s) \/ OpenFileFails(s) \/ SetActive(s)
           \/ WriterActive(s) \/ StartReturn(s)
  BY <1>0, <1>1, <1>2, GotoOK
     DEF DataInit, OpenFile, OpenFileFails, SetActive, WriterActive,
         StartReturn, StartLabels
<1>3. CASE \/ CanBeginDataCapture(s, "create_writer", "connect_failed")
           \/ BeginDataCapture(s, "writer_active")
           \/ BeginActivate(s, "writer_active")
  BY <1>0, <1>1, <1>3, GotoOK
     DEF CanBeginDataCapture, BeginDataCapture, BeginActivate, StartLabels
<1>4. CASE CreateWriter(s)
  <2>1. PICK w \in WriteThreads :
          /\ pc' = [pc EXCEPT ![s] = "begin_capture", ![w] = "write_wait"]
          /\ UNCHANGED stack
    BY <1>4 DEF CreateWriter
  <2>2. w \in Threads /\ "write_wait" \in CodeOf(w) /\ "begin_capture" \in CodeOf(s)
    BY <1>1, RecordAssumption DEF CodeOf, WriteLabels, StartLabels
  <2>3. QED
    BY <1>0, <2>1, <2>2 DEF ControlOK, CodeOf, ReturnsOf
<1>5. CASE CreateWriterFails(s) \/ ConnectFailed(s)
  BY <1>0, <1>1, <1>5, CallOK DEF CreateWriterFails, ConnectFailed, EndingLabels
<1>6. QED
  BY <1>2, <1>3, <1>4, <1>5 DEF StartStep

\* A write thread stays in write_thread and what it calls.
LEMMA WriteControl ==
  ASSUME TypeOK, NEW w \in WriteThreads, WriteStep(w)
  PROVE  ControlOK'
<1>0. ControlOK /\ w \in Threads
  BY RecordAssumption DEF TypeOK
<1>1. /\ WriteLabels \cup EndingLabels \cup {Dead} \subseteq CodeOf(w)
      /\ {"write_wait", "write_return", "deactivate"} \subseteq ReturnsOf(w)
  BY RecordAssumption DEF CodeOf, ReturnsOf
<1>2. CASE WriteWait(w) \/ WriteFrame(w) \/ WriteReturn(w)
  BY <1>0, <1>1, <1>2, GotoOK DEF WriteWait, WriteFrame, WriteReturn, WriteLabels
<1>3. CASE ProcessPacket(w)
  BY <1>0, <1>1, <1>3, GotoOK, CallOK DEF ProcessPacket, WriteLabels, EndingLabels
<1>4. CASE WriteFrameFails(w)
  <2>1. "end_check" \in CodeOf(w)
    BY <1>1 DEF EndingLabels
  <2>2. <<"deactivate", "write_return">> \o stack[w] \in Seq(ReturnsOf(w))
    BY <1>0, <1>1 DEF ControlOK
  <2>3. QED
    BY <1>0, <1>4, <2>1, <2>2 DEF WriteFrameFails, ControlOK, CodeOf, ReturnsOf
<1>5. QED
  BY <1>2, <1>3, <1>4 DEF WriteStep

\* An end thread stays in end_data_capture_thread, and a caller that runs it
\* goes back to where it was called.
LEMMA EndControl ==
  ASSUME TypeOK, NEW e \in Threads, EndStep(e)
  PROVE  ControlOK'
<1>1. ControlOK /\ EndLabels \subseteq CodeOf(e)
  BY ThreadsAssumption, RecordAssumption, CodeFacts DEF TypeOK, CodeOf, Callers
<1>2. CASE EndDisconnect(e) \/ EndDeactivate(e) \/ EndEvent(e)
  BY <1>1, <1>2, GotoOK DEF EndDisconnect, EndDeactivate, EndEvent, EndLabels
<1>3. CASE EndReturn(e)
  <2>1. CASE e \in EndThreads
    <3>1. Dead \in CodeOf(e)
      BY <2>1, ThreadsAssumption, RecordAssumption DEF CodeOf
    <3>2. QED
      BY <1>1, <1>3, <2>1, <3>1, GotoOK DEF EndReturn
  <2>2. CASE e \notin EndThreads
    BY <1>1, <1>3, <2>2, ReturnOK DEF EndReturn
  <2>3. QED
    BY <2>1, <2>2
<1>4. QED
  BY <1>2, <1>3 DEF EndStep

\* The OBS thread stays in its slots, the main thread in its exit.
LEMMA SlotControl ==
  ASSUME TypeOK, Command \/ SlotStep \/ SocketDisconnected \/ MainStep
  PROVE  ControlOK'
<1>0. ControlOK /\ OBS \in Threads /\ Main \in Threads
  BY RecordAssumption DEF TypeOK
<1>1. /\ SlotLabels \cup EndingLabels \cup {Dead} \subseteq CodeOf(OBS)
      /\ "idle" \in ReturnsOf(OBS)
      /\ MainLabels \cup EndingLabels \subseteq CodeOf(Main)
      /\ "exited" \in ReturnsOf(Main)
  BY RecordAssumption DEF CodeOf, ReturnsOf
<1>2. CASE Command
  <2>1. ASSUME NEW p \in Paths, StartRecording(p) PROVE ControlOK'
    BY <1>0, <1>1, <2>1, CallOK DEF StartRecording, SlotLabels
  <2>2. CASE StartRecordingEmpty
    BY <1>0, <2>2 DEF StartRecordingEmpty, control, ControlOK
  <2>3. ASSUME NEW force \in BOOLEAN, StopRecording(force) PROVE ControlOK'
    <3>1. CASE output.active
      <4>1. PICK l \in {"obs_force_stop", "obs_stop"} : Call(OBS, l, "idle")
        BY <2>3, <3>1 DEF StopRecording
      <4>2. l \in CodeOf(OBS)
        BY <1>1 DEF SlotLabels
      <4>3. QED
        BY <1>0, <1>1, <4>1, <4>2, CallOK
    <3>2. CASE ~output.active
      BY <1>0, <2>3, <3>2 DEF StopRecording, control, ControlOK
    <3>3. QED
      BY <3>1, <3>2
  <2>4. QED
    BY <1>2, <2>1, <2>2, <2>3 DEF Command
<1>3. CASE FfmpegStart
  <2>1. PICK s \in StartThreads :
          /\ pc' = [pc EXCEPT ![OBS] = "set_connecting", ![s] = "data_init"]
          /\ UNCHANGED stack
    BY <1>3 DEF FfmpegStart
  <2>2. s \in Threads /\ "data_init" \in CodeOf(s) /\ "set_connecting" \in CodeOf(OBS)
    BY <1>1, RecordAssumption DEF CodeOf, StartLabels, SlotLabels
  <2>3. QED
    BY <1>0, <2>1, <2>2 DEF ControlOK, CodeOf, ReturnsOf
<1>4. CASE FfmpegStartRefused \/ FfmpegStartFails
  BY <1>0, <1>1, <1>4, GotoOK DEF FfmpegStartRefused, FfmpegStartFails, SlotLabels
<1>5. CASE SetConnecting \/ StartFailed
  BY <1>0, <1>5, ReturnOK DEF SetConnecting, StartFailed
<1>6. CASE Deliver
  BY <1>0, <1>6 DEF Deliver, control, ControlOK
<1>7. CASE SocketDisconnected \/ ThreadQuits
  BY <1>0, <1>1, <1>7, GotoOK DEF SocketDisconnected, ThreadQuits, MainLabels
<1>8. CASE ThreadWaited
  BY <1>0, <1>1, <1>8, CallOK DEF ThreadWaited, MainLabels
<1>9. CASE FfmpegDestroy
  BY <1>0, <1>1, <1>9, GotoOK DEF FfmpegDestroy, EndingLabels
<1>10. QED
  BY <1>2, <1>3, <1>4, <1>5, <1>6, <1>7, <1>8, <1>9 DEF SlotStep, MainStep

(***************************************************************************)
(* Data.                                                                   *)
(***************************************************************************)
DataOK ==
    /\ output \in OutputType
    /\ ff \in FfType
    /\ disk \subseteq Paths
    /\ app \in AppType
    /\ server \in ServerType

\* A notification leaves the application and the server well-typed.
LEMMA NotifyOK ==
  ASSUME app \in AppType, server \in ServerType, NEW t, NEW n \in Notices,
         Notify(t, n)
  PROVE  app' \in AppType /\ server' \in ServerType
<1>1. n.file \in Paths \cup {NoFile}
  BY DEF Notices, Started, Error, Stopped
<1>2. CASE UNCHANGED <<app, server>>
  BY <1>2
<1>3. CASE Received(n) /\ UNCHANGED app
  BY <1>1, <1>3 DEF Received, ServerType, AppType
<1>4. CASE app' = [app EXCEPT !.posted = Append(@, n)] /\ UNCHANGED server
  <2>1. Append(app.posted, n) \in Seq(Notices)
    BY DEF AppType
  <2>2. QED
    BY <1>4, <2>1 DEF AppType
<1>5. QED
  BY <1>2, <1>3, <1>4 DEF Notify

\* So does receiving one.
LEMMA ReceivedOK ==
  ASSUME server \in ServerType, NEW n \in Notices, Received(n)
  PROVE  server' \in ServerType
<1>1. n.file \in Paths \cup {NoFile}
  BY DEF Notices, Started, Error, Stopped
<1>2. QED
  BY <1>1 DEF Received, ServerType

\* The steps of libobs keep every record in its type.
LEMMA ObsData ==
  ASSUME DataOK, NEW t \in Callers, ObsStep(t)
  PROVE  DataOK'
<1>1. CASE /\ (EndInactive(t) \/ EndSignal(t))
           /\ RecordingStopped(t)
           /\ UNCHANGED <<ff, disk>>
  <2>1. output' \in OutputType
    BY <1>1 DEF DataOK, EndInactive, EndSignal, OutputType, StopCodes
  <2>2. PICK n \in Notices : Notify(t, n)
    BY <1>1 DEF RecordingStopped, Notices, DataOK, AppType
  <2>3. QED
    BY <1>1, <2>1, <2>2, NotifyOK DEF DataOK
<1>2. ASSUME NEW e \in EndThreads, EndCreate(t, e), Silent PROVE DataOK'
  BY <1>2 DEF DataOK, EndCreate, OutputType, Silent
<1>3. CASE /\ \/ ActualStart(t) \/ ObsOutputStop(t) \/ ActualStop(t)
              \/ ObsOutputForceStop(t) \/ ActualForceStop(t)
              \/ EndCheck(t) \/ EndClear(t) \/ EndJoin(t) \/ EndCreateFails(t)
              \/ Destroy(t) \/ DestroyWait(t) \/ DestroyJoin(t)
           /\ Silent
  <2>1. output' \in OutputType
    BY <1>3 DEF DataOK, ActualStart, ObsOutputStop, ActualStop,
       ObsOutputForceStop, ActualForceStop, EndCheck, EndClear, EndJoin,
       EndCreateFails, Destroy, DestroyWait, DestroyJoin, OutputType, StopCodes
  <2>2. QED
    BY <1>3, <2>1 DEF DataOK, Silent
<1>4. QED
  BY <1>1, <1>2, <1>3 DEF ObsStep

\* So do stopping the recorder and freeing its data,
LEMMA StopData ==
  ASSUME DataOK, NEW t \in Callers, StopStep(t)
  PROVE  DataOK'
<1>1. CASE FfmpegForceStop(t) \/ FullStop(t)
  BY <1>1 DEF FfmpegForceStop, FullStop, Outside, DataOK
<1>2. CASE WriteTrailer(t)
  BY <1>2 DEF WriteTrailer, DataOK, FfType
<1>3. CASE FfmpegStop(t) \/ SetStopTs(t) \/ Deactivate(t) \/ JoinWriter(t)
           \/ CloseFile(t)
  <2>0. ff \in FfType
    BY DEF DataOK
  <2>1a. ASSUME FfmpegStop(t) PROVE ff' \in FfType
    BY <2>0, <2>1a DEF FfmpegStop, FfType
  <2>1b. ASSUME SetStopTs(t) PROVE ff' \in FfType
    BY <2>0, <2>1b DEF SetStopTs, FfType
  <2>1c. ASSUME Deactivate(t) PROVE ff' \in FfType
    <3>1. ff.writeSem + 1 \in Nat
      BY <2>0 DEF FfType
    <3>2. CASE ff.writeThreadActive
      BY <2>0, <2>1c, <3>1, <3>2 DEF Deactivate, FfType
    <3>3. CASE ~ff.writeThreadActive
      BY <2>0, <2>1c, <3>3 DEF Deactivate
    <3>4. QED
      BY <3>2, <3>3
  <2>1d. ASSUME JoinWriter(t) PROVE ff' \in FfType
    BY <2>0, <2>1d DEF JoinWriter, FfType
  <2>1e. ASSUME CloseFile(t) PROVE ff' \in FfType
    BY <2>0, <2>1e DEF CloseFile, FfType
  <2>1. ff' \in FfType
    BY <1>3, <2>1a, <2>1b, <2>1c, <2>1d, <2>1e
  <2>2. QED
    BY <1>3, <2>1 DEF FfmpegStop, SetStopTs, Deactivate, JoinWriter, CloseFile,
       Outside, DataOK
<1>4. CASE FreePackets(t)
  <2>0. <<>> \in Seq({"early", "late"}) /\ ff \in FfType
    BY DEF DataOK
  <2>1. ff' \in FfType
    BY <1>4, <2>0 DEF FreePackets, FfType
  <2>2. QED
    BY <1>4, <2>1 DEF FreePackets, Outside, DataOK
<1>5. QED
  BY <1>1, <1>2, <1>3, <1>4 DEF StopStep

\* connecting it,
LEMMA StartData ==
  ASSUME TypeOK, NEW s \in StartThreads, StartStep(s)
  PROVE  DataOK'
<1>0. DataOK
  BY DEF TypeOK, DataOK
<1>1. CASE DataInit(s) \/ SetActive(s) \/ WriterActive(s) \/ StartReturn(s)
  <2>0. ff \in FfType
    BY <1>0 DEF DataOK
  <2>1a. ASSUME DataInit(s) PROVE ff' \in FfType
    BY <2>0, <2>1a DEF DataInit, FfType
  <2>1b. ASSUME SetActive(s) PROVE ff' \in FfType
    BY <2>0, <2>1b DEF SetActive, FfType
  <2>1c. ASSUME WriterActive(s) PROVE ff' \in FfType
    BY <2>0, <2>1c DEF WriterActive, FfType
  <2>1d. ASSUME StartReturn(s) PROVE ff' \in FfType
    BY <2>0, <2>1d DEF StartReturn, FfType
  <2>1. ff' \in FfType
    BY <1>1, <2>1a, <2>1b, <2>1c, <2>1d
  <2>2. QED
    BY <1>0, <1>1, <2>1
       DEF DataInit, SetActive, WriterActive, StartReturn, Outside, DataOK
<1>2. CASE OpenFile(s)
  <2>1. ff' \in FfType
    BY <1>0, <1>2 DEF OpenFile, DataOK, FfType, AppType
  <2>2. server' \in ServerType /\ disk' \subseteq Paths
    BY <1>0, <1>2 DEF OpenFile, DataOK, ServerType
  <2>3. QED
    BY <1>0, <1>2, <2>1, <2>2 DEF OpenFile, DataOK
<1>3. CASE OpenFileFails(s) \/ CreateWriterFails(s)
  BY <1>0, <1>3 DEF OpenFileFails, CreateWriterFails, Outside, DataOK
<1>4. CASE CreateWriter(s)
  <2>1. ff' \in FfType
    BY <1>0, <1>4 DEF CreateWriter, DataOK, FfType
  <2>2. QED
    BY <1>0, <1>4, <2>1 DEF CreateWriter, Outside, DataOK
<1>5. CASE /\ \/ CanBeginDataCapture(s, "create_writer", "connect_failed")
              \/ BeginDataCapture(s, "writer_active")
           /\ Silent
  BY <1>0, <1>5
     DEF CanBeginDataCapture, BeginDataCapture, OutputType, Silent, DataOK
<1>6. CASE /\ BeginActivate(s, "writer_active")
           /\ Notify(s, Started)
           /\ UNCHANGED <<ff, disk>>
  <2>1. output' \in OutputType
    BY <1>0, <1>6 DEF BeginActivate, OutputType, DataOK
  <2>2. Started \in Notices
    BY DEF Notices
  <2>3. QED
    BY <1>0, <1>6, <2>1, <2>2, NotifyOK DEF DataOK
<1>7. CASE ConnectFailed(s)
  BY <1>0, <1>7 DEF ConnectFailed, SignalStop, OutputType, StopCodes, DataOK
<1>8. QED
  BY <1>1, <1>2, <1>3, <1>4, <1>5, <1>6, <1>7 DEF StartStep

\* its write thread,
LEMMA WriteData ==
  ASSUME DataOK, NEW w \in WriteThreads, WriteStep(w)
  PROVE  DataOK'
<1>0. ff \in FfType
  BY DEF DataOK
<1>1. CASE WriteWait(w)
  <2>1. ff.writeSem - 1 \in Nat
    BY <1>0, <1>1 DEF WriteWait, FfType
  <2>2. ff' \in FfType
    BY <1>0, <1>1, <2>1 DEF WriteWait, FfType
  <2>3. QED
    BY <1>1, <2>2 DEF WriteWait, Outside, DataOK
<1>2. CASE ProcessPacket(w)
  <2>1. CASE ff.packets = <<>>
    BY <1>2, <2>1 DEF ProcessPacket, Outside, DataOK
  <2>2. CASE ff.packets # <<>>
    <3>1. Tail(ff.packets) \in Seq({"early", "late"})
      BY <1>0, <2>2 DEF FfType
    <3>2. ff' \in FfType
      BY <1>0, <1>2, <2>2, <3>1 DEF ProcessPacket, FfType
    <3>3. QED
      BY <1>2, <3>2 DEF ProcessPacket, Outside, DataOK
  <2>3. QED
    BY <2>1, <2>2
<1>3. CASE WriteFrame(w)
  <2>1. app' \in AppType
    BY <1>3 DEF WriteFrame, DataOK, AppType
  <2>2. QED
    BY <1>3, <2>1 DEF WriteFrame, DataOK
<1>4. CASE WriteFrameFails(w)
  <2>1. output' \in OutputType
    BY <1>4 DEF WriteFrameFails, SignalStop, DataOK, OutputType, StopCodes
  <2>2. ff.detached \cup {ff.writeThread} \in SUBSET (WriteThreads \cup {NoThread})
    BY <1>0 DEF FfType
  <2>3. ff' \in FfType
    BY <1>0, <1>4, <2>2 DEF WriteFrameFails, FfType
  <2>4. QED
    BY <1>4, <2>1, <2>3 DEF WriteFrameFails, DataOK
<1>5. CASE WriteReturn(w)
  <2>1. ff' \in FfType
    BY <1>0, <1>5 DEF WriteReturn, FfType
  <2>2. QED
    BY <1>5, <2>1 DEF WriteReturn, Outside, DataOK
<1>6. QED
  BY <1>1, <1>2, <1>3, <1>4, <1>5 DEF WriteStep

\* the end of a capture,
LEMMA EndData ==
  ASSUME DataOK, NEW e \in Threads, EndStep(e)
  PROVE  DataOK'
BY DEF EndStep, EndDisconnect, EndDeactivate, EndEvent, EndReturn, Silent,
       DataOK, OutputType

\* the frame callbacks,
LEMMA CaptureData ==
  ASSUME DataOK, CaptureStep
  PROVE  DataOK'
<1>0. ff \in FfType
  BY DEF DataOK
<1>1. CASE CaptureEnter
  <2>1. ff' \in FfType
    BY <1>0, <1>1 DEF CaptureEnter, FfType
  <2>2. QED
    BY <1>1, <2>1 DEF CaptureEnter, Outside, DataOK
<1>2. CASE CaptureFreed
  <2>1. ff' \in FfType
    BY <1>0, <1>2 DEF CaptureFreed, FfType
  <2>2. app' \in AppType
    BY <1>2 DEF CaptureFreed, DataOK, AppType
  <2>3. QED
    BY <1>2, <2>1, <2>2 DEF CaptureFreed, DataOK
<1>3. ASSUME NEW when \in {"early", "late"}, CapturePush(when) PROVE DataOK'
  <2>1. /\ Append(ff.packets, when) \in Seq({"early", "late"})
        /\ ff.writeSem + 1 \in Nat
    BY <1>0 DEF FfType
  <2>2. ff' \in FfType
    BY <1>0, <1>3, <2>1 DEF CapturePush, FfType
  <2>3. QED
    BY <1>3, <2>2 DEF CapturePush, Outside, DataOK
<1>4. QED
  BY <1>1, <1>2, <1>3 DEF CaptureStep

\* and the slots and the main thread.
LEMMA SlotData ==
  ASSUME DataOK, Command \/ SlotStep \/ SocketDisconnected \/ MainStep
  PROVE  DataOK'
<1>0. ff \in FfType /\ server \in ServerType /\ app \in AppType
  BY DEF DataOK
<1>1. CASE Command
  <2>1. server.commands < MaxCommands => server.commands + 1 \in 0..MaxCommands
    BY <1>0, RecordAssumption DEF ServerType
  <2>2. ASSUME NEW p \in Paths, StartRecording(p) PROVE DataOK'
    <3>1. server' \in ServerType /\ app' \in AppType
      BY <1>0, <2>1, <2>2 DEF StartRecording, ServerType, AppType
    <3>2. QED
      BY <2>2, <3>1 DEF StartRecording, DataOK
  <2>3. CASE StartRecordingEmpty
    <3>1. server' \in ServerType
      BY <1>0, <2>1, <2>3 DEF StartRecordingEmpty, ServerType
    <3>2. QED
      BY <2>3, <3>1 DEF StartRecordingEmpty, DataOK
  <2>4. ASSUME NEW force \in BOOLEAN, StopRecording(force) PROVE DataOK'
    <3>1. server' \in ServerType
      BY <1>0, <2>1, <2>4 DEF StopRecording, ServerType
    <3>2. QED
      BY <2>4, <3>1 DEF StopRecording, DataOK
  <2>5. QED
    BY <1>1, <2>2, <2>3, <2>4 DEF Command
<1>2. CASE FfmpegStart \/ FfmpegStartFails \/ SetConnecting
  <2>1. ASSUME FfmpegStart PROVE ff' \in FfType
    BY <1>0, <2>1 DEF FfmpegStart, FfType
  <2>2. ASSUME FfmpegStartFails PROVE ff' \in FfType
    BY <1>0, <2>2 DEF FfmpegStartFails, FfType
  <2>3. ASSUME SetConnecting PROVE ff' \in FfType
    BY <1>0, <2>3 DEF SetConnecting, FfType
  <2>4. QED
    BY <1>2, <2>1, <2>2, <2>3
       DEF FfmpegStart, FfmpegStartFails, SetConnecting, Outside, DataOK
<1>3. CASE FfmpegStartRefused \/ ThreadQuits \/ FfmpegDestroy
  BY <1>3 DEF FfmpegStartRefused, ThreadQuits, FfmpegDestroy, Outside, DataOK
<1>4. CASE StartFailed
  <2>1. Error \in Notices
    BY DEF Notices
  <2>2. QED
    BY <1>0, <1>4, <2>1, ReceivedOK DEF StartFailed, DataOK
<1>5. CASE Deliver
  <2>1. /\ Head(app.posted) \in Notices
        /\ Tail(app.posted) \in Seq(Notices)
    BY <1>0, <1>5 DEF Deliver, AppType
  <2>2. server' \in ServerType
    BY <1>0, <1>5, <2>1, ReceivedOK DEF Deliver
  <2>3. app' \in AppType
    BY <1>0, <1>5, <2>1 DEF Deliver, AppType
  <2>4. QED
    BY <1>5, <2>2, <2>3 DEF Deliver, DataOK
<1>6. CASE SocketDisconnected \/ ThreadWaited
  <2>1. app' \in AppType
    BY <1>0, <1>6 DEF SocketDisconnected, ThreadWaited, AppType
  <2>2. QED
    BY <1>6, <2>1 DEF SocketDisconnected, ThreadWaited, DataOK
<1>7. QED
  BY <1>1, <1>2, <1>3, <1>4, <1>5, <1>6 DEF SlotStep, MainStep

(***************************************************************************)
(* Type correctness.                                                       *)
(***************************************************************************)
\* A freshly created output is well typed.
LEMMA InitTypeOK == Init => TypeOK
<1> SUFFICES ASSUME Init PROVE TypeOK
  OBVIOUS
<1>1. ControlOK
  <2>1. \A t \in Threads : <<>> \in Seq(ReturnsOf(t))
    OBVIOUS
  <2>2. \A t \in Threads :
          (IF t = OBS THEN "idle" ELSE IF t = Main THEN "loop" ELSE Dead)
            \in CodeOf(t)
    BY DEF CodeOf, SlotLabels, MainLabels
  <2>3. QED
    BY <2>1, <2>2 DEF Init, ControlOK
<1>2. output \in OutputType
  BY DEF Init, ObsOutputCreate, OutputType, StopCodes
<1>3. ff \in FfType
  BY DEF Init, FfType
<1>4. disk \subseteq Paths /\ app \in AppType
  BY DEF Init, AppType
<1>5. server \in ServerType
  BY RecordAssumption DEF Init, ServerType
<1>6. QED
  BY <1>1, <1>2, <1>3, <1>4, <1>5 DEF TypeOK

\* Every step, of whatever thread, keeps it so.
LEMMA NextTypeOK == TypeOK /\ [Next]_vars => TypeOK'
<1> SUFFICES ASSUME TypeOK, [Next]_vars PROVE TypeOK'
  OBVIOUS
<1>0. DataOK
  BY DEF TypeOK, DataOK
<1>1. ControlOK' /\ DataOK' => TypeOK'
  BY DEF TypeOK, DataOK
<1>2. CASE Command \/ SlotStep \/ SocketDisconnected \/ MainStep
  BY <1>0, <1>1, <1>2, SlotControl, SlotData
<1>3. CASE CaptureStep
  <2>1. UNCHANGED control
    BY <1>3 DEF CaptureStep, CaptureEnter, CaptureFreed, CapturePush, control
  <2>2. ControlOK'
    BY <2>1 DEF TypeOK, ControlOK, control
  <2>3. QED
    BY <1>0, <1>1, <1>3, <2>2, CaptureData
<1>4. ASSUME NEW t \in Callers, ObsStep(t) \/ StopStep(t) PROVE TypeOK'
  BY <1>0, <1>1, <1>4, ObsControl, ObsData, StopControl, StopData
<1>5. ASSUME NEW s \in StartThreads, StartStep(s) PROVE TypeOK'
  BY <1>1, <1>5, StartControl, StartData
<1>6. ASSUME NEW w \in WriteThreads, WriteStep(w) PROVE TypeOK'
  BY <1>0, <1>1, <1>6, WriteControl, WriteData
<1>7. ASSUME NEW e \in Threads, EndStep(e) PROVE TypeOK'
  BY <1>0, <1>1, <1>7, EndControl, EndData
<1>8. CASE UNCHANGED vars
  BY <1>8 DEF vars, control, TypeOK, ControlOK
<1>9. QED
  BY <1>2, <1>3, <1>4, <1>5, <1>6, <1>7, <1>8 DEF Next

\* Every variable keeps its type and every thread stays in the code it can
\* run, through every interleaving of the recorder's threads.
THEOREM TypeCorrect == Spec => []TypeOK
<1>1. Init => TypeOK
  BY InitTypeOK
<1>2. TypeOK /\ [Next]_vars => TypeOK'
  BY NextTypeOK
<1>3. QED
  BY <1>1, <1>2, PTL DEF Spec

(***************************************************************************)
(* One start thread.  A live start thread is always covered: `connecting'  *)
(* is set, or the OBS thread is just about to set it and starts nothing    *)
(* before it has.                                                          *)
(***************************************************************************)
Covered == Live(StartThreads) # {} => ff.connecting \/ pc[OBS] = "set_connecting"
StartInv == OneStartThread /\ Covered

\* A step that starts no start thread, leaves `connecting' alone and does not
\* carry the OBS thread past its assignment.
Calm ==
    /\ ff'.connecting = ff.connecting
    /\ \A s \in StartThreads : pc[s] = Dead => pc'[s] = Dead
    /\ pc[OBS] = "set_connecting" => pc'[OBS] = "set_connecting"

\* A calm step keeps the invariant.
LEMMA CalmKeepsStartInv == StartInv /\ Calm => StartInv'
BY DEF StartInv, OneStartThread, Covered, Calm, Live

\* Only the acting thread moves, and it was alive and not at the assignment.
LEMMA MoveIsCalm ==
  ASSUME TypeOK, NEW t \in Threads, NEW label, pc' = [pc EXCEPT ![t] = label],
         pc[t] \notin {Dead, "set_connecting"}, ff'.connecting = ff.connecting
  PROVE  Calm
BY RecordAssumption DEF Calm, TypeOK, ControlOK

\* The steps of libobs are calm,
LEMMA ObsCalm ==
  ASSUME TypeOK, NEW t \in Callers, ObsStep(t)
  PROVE  Calm
<1>0. t \in Threads /\ ff' = ff
  BY DEF Callers, ObsStep, Silent
<1>1. ASSUME NEW e \in EndThreads, EndCreate(t, e) PROVE Calm
  BY <1>0, <1>1, RecordAssumption, ThreadsAssumption
     DEF EndCreate, Calm, TypeOK, ControlOK, Dead
<1>2. CASE \/ ActualStart(t) \/ ObsOutputStop(t) \/ ActualStop(t)
           \/ ObsOutputForceStop(t) \/ ActualForceStop(t)
           \/ EndCheck(t) \/ EndClear(t) \/ EndJoin(t)
           \/ EndInactive(t) \/ EndSignal(t) \/ EndCreateFails(t)
           \/ Destroy(t) \/ DestroyWait(t) \/ DestroyJoin(t)
  <2>1. \E label : pc' = [pc EXCEPT ![t] = label]
    BY <1>2 DEF ActualStart, ObsOutputStop, ActualStop, ObsOutputForceStop,
       ActualForceStop, EndCheck, EndClear, EndJoin, EndInactive, EndSignal,
       EndCreateFails, Destroy, DestroyWait, DestroyJoin, Goto, Call, Return
  <2>2. pc[t] \notin {Dead, "set_connecting"}
    BY <1>2 DEF ActualStart, ObsOutputStop, ActualStop, ObsOutputForceStop,
       ActualForceStop, EndCheck, EndClear, EndJoin, EndInactive, EndSignal,
       EndCreateFails, Destroy, DestroyWait, DestroyJoin, Dead
  <2>3. QED
    BY <1>0, <2>1, <2>2, MoveIsCalm
<1>3. QED
  BY <1>1, <1>2 DEF ObsStep

\* those that stop the recorder too,
LEMMA StopCalm ==
  ASSUME TypeOK, NEW t \in Callers, StopStep(t)
  PROVE  Calm
<1>0. t \in Threads /\ ff \in FfType
  BY DEF Callers, TypeOK
<1>1. ff'.connecting = ff.connecting
  BY <1>0 DEF StopStep, FfmpegStop, SetStopTs, FfmpegForceStop, FullStop,
     Deactivate, JoinWriter, FreePackets, WriteTrailer, CloseFile, FfType
<1>2. \E label : pc' = [pc EXCEPT ![t] = label]
  BY DEF StopStep, FfmpegStop, SetStopTs, FfmpegForceStop, FullStop,
     Deactivate, JoinWriter, FreePackets, WriteTrailer, CloseFile, Goto, Call,
     Return
<1>3. pc[t] \notin {Dead, "set_connecting"}
  BY DEF StopStep, FfmpegStop, SetStopTs, FfmpegForceStop, FullStop,
     Deactivate, JoinWriter, FreePackets, WriteTrailer, CloseFile, Dead
<1>4. QED
  BY <1>0, <1>1, <1>2, <1>3, MoveIsCalm

\* those of the write thread,
LEMMA WriteCalm ==
  ASSUME TypeOK, NEW w \in WriteThreads, WriteStep(w)
  PROVE  Calm
<1>0. w \in Threads /\ ff \in FfType
  BY RecordAssumption DEF TypeOK
<1>1. ff'.connecting = ff.connecting
  BY <1>0 DEF WriteStep, WriteWait, ProcessPacket, WriteFrame, WriteFrameFails,
     WriteReturn, FfType
<1>2. \E label : pc' = [pc EXCEPT ![w] = label]
  BY DEF WriteStep, WriteWait, ProcessPacket, WriteFrame, WriteFrameFails,
     WriteReturn, Goto, Call
<1>3. pc[w] \notin {Dead, "set_connecting"}
  BY DEF WriteStep, WriteWait, ProcessPacket, WriteFrame, WriteFrameFails,
     WriteReturn, Dead
<1>4. QED
  BY <1>0, <1>1, <1>2, <1>3, MoveIsCalm

\* of the end of a capture
LEMMA EndCalm ==
  ASSUME TypeOK, NEW e \in Threads, EndStep(e)
  PROVE  Calm
<1>1. ff' = ff
  BY DEF EndStep, Silent
<1>2. \E label : pc' = [pc EXCEPT ![e] = label]
  BY DEF EndStep, EndDisconnect, EndDeactivate, EndEvent, EndReturn, Goto,
     Return
<1>3. pc[e] \notin {Dead, "set_connecting"}
  BY DEF EndStep, EndDisconnect, EndDeactivate, EndEvent, EndReturn, Dead
<1>4. QED
  BY <1>1, <1>2, <1>3, MoveIsCalm

\* and of the frame callbacks.
LEMMA CaptureCalm ==
  ASSUME TypeOK, CaptureStep
  PROVE  Calm
BY DEF TypeOK, CaptureStep, CaptureEnter, CaptureFreed, CapturePush, Calm,
       control, FfType

\* Of the start thread's own steps only its return is not calm: it clears
\* `connecting' when, by OneStartThread, no other start thread is left.
LEMMA StartKeepsStartInv ==
  ASSUME TypeOK, StartInv, NEW s \in StartThreads, StartStep(s)
  PROVE  StartInv'
<1>0. s \in Threads /\ ff \in FfType
  BY RecordAssumption DEF TypeOK
<1>1. CASE StartReturn(s)
  <2>1. /\ pc' = [pc EXCEPT ![s] = Dead]
        /\ pc[s] = "start_return"
    BY <1>1 DEF StartReturn, Goto
  <2>2. s \in Live(StartThreads)
    BY <2>1 DEF Live, Dead
  <2>3. \A r \in StartThreads : pc'[r] = Dead
    BY <1>0, <2>1, <2>2, RecordAssumption
       DEF StartInv, OneStartThread, Live, TypeOK, ControlOK
  <2>4. QED
    BY <2>3 DEF StartInv, OneStartThread, Covered, Live
<1>2. CASE CreateWriter(s)
  <2>1. PICK w \in WriteThreads :
          /\ pc' = [pc EXCEPT ![s] = "begin_capture", ![w] = "write_wait"]
          /\ pc[w] = Dead
          /\ ff' = [ff EXCEPT !.writeThread = w, !.detached = @ \ {w}]
    BY <1>2 DEF CreateWriter
  <2>2. s # OBS /\ w # OBS /\ w # s /\ w \notin StartThreads
    BY RecordAssumption
  <2>3. pc[s] # Dead
    BY <1>2 DEF CreateWriter, Dead
  <2>4. ff'.connecting = ff.connecting
    BY <1>0, <2>1 DEF FfType
  <2>5. \A r \in Threads : r \notin {s, w} => pc'[r] = pc[r]
    BY <2>1 DEF TypeOK, ControlOK
  <2>6. Calm
    BY <2>2, <2>3, <2>4, <2>5, RecordAssumption DEF Calm
  <2>7. QED
    BY <2>6, CalmKeepsStartInv
<1>3. CASE /\ StartStep(s)
           /\ ~StartReturn(s)
           /\ ~CreateWriter(s)
  <2>1. ff'.connecting = ff.connecting
    BY <1>0, <1>3 DEF StartStep, DataInit, OpenFile, OpenFileFails, SetActive,
       CreateWriterFails, WriterActive, ConnectFailed, Silent, FfType
  <2>2. \E label : pc' = [pc EXCEPT ![s] = label]
    BY <1>3 DEF StartStep, DataInit, OpenFile, OpenFileFails, SetActive,
       CanBeginDataCapture, CreateWriterFails, BeginDataCapture, BeginActivate,
       WriterActive, ConnectFailed, Goto, Call
  <2>3. pc[s] \notin {Dead, "set_connecting"}
    BY <1>3 DEF StartStep, DataInit, OpenFile, OpenFileFails, SetActive,
       CanBeginDataCapture, CreateWriterFails, BeginDataCapture, BeginActivate,
       WriterActive, ConnectFailed, Dead
  <2>4. QED
    BY <1>0, <2>1, <2>2, <2>3, MoveIsCalm, CalmKeepsStartInv
<1>4. QED
  BY <1>1, <1>2, <1>3

\* Of the slots' steps two are not calm: creating a start thread, which
\* happens only when `connecting' is clear and so none is live, and the
\* assignment itself.
LEMMA SlotKeepsStartInv ==
  ASSUME TypeOK, StartInv, Command \/ SlotStep \/ SocketDisconnected \/ MainStep
  PROVE  StartInv'
<1>0. OBS \in Threads /\ Main \in Threads /\ ff \in FfType
  BY RecordAssumption DEF TypeOK
<1>1. CASE FfmpegStart
  <2>1. PICK s \in StartThreads :
          pc' = [pc EXCEPT ![OBS] = "set_connecting", ![s] = "data_init"]
    BY <1>1 DEF FfmpegStart
  <2>2. \A r \in StartThreads : pc[r] = Dead
    BY <1>1 DEF FfmpegStart, StartInv, Covered, Live
  <2>3. s # OBS /\ pc'[OBS] = "set_connecting"
    BY <1>0, <2>1, RecordAssumption DEF TypeOK, ControlOK
  <2>4. \A r \in StartThreads : r # s => pc'[r] = Dead
    BY <2>1, <2>2, RecordAssumption DEF TypeOK, ControlOK
  <2>5. QED
    BY <2>3, <2>4 DEF StartInv, OneStartThread, Covered, Live
<1>2. CASE SetConnecting
  <2>1. ff'.connecting
    BY <1>0, <1>2 DEF SetConnecting, FfType
  <2>2. \A s \in StartThreads : pc'[s] = pc[s]
    BY <1>0, <1>2, RecordAssumption DEF SetConnecting, Return, TypeOK, ControlOK
  <2>3. QED
    BY <2>1, <2>2 DEF StartInv, OneStartThread, Covered, Live
<1>3. CASE Deliver \/ StartRecordingEmpty
  BY <1>3, CalmKeepsStartInv DEF Deliver, StartRecordingEmpty, Calm, control
<1>4. CASE FfmpegStartRefused \/ FfmpegStartFails \/ StartFailed \/ ThreadQuits
  <2>1. ff'.connecting = ff.connecting
    BY <1>0, <1>4 DEF FfmpegStartRefused, FfmpegStartFails, StartFailed,
       ThreadQuits, FfType
  <2>2. /\ \E label : pc' = [pc EXCEPT ![OBS] = label]
        /\ pc[OBS] \notin {Dead, "set_connecting"}
    BY <1>4 DEF FfmpegStartRefused, FfmpegStartFails, StartFailed, ThreadQuits,
       Goto, Return, Dead
  <2>3. QED
    BY <1>0, <2>1, <2>2, MoveIsCalm, CalmKeepsStartInv
<1>5. CASE SocketDisconnected \/ ThreadWaited \/ FfmpegDestroy
  <2>1. /\ \E label : pc' = [pc EXCEPT ![Main] = label]
        /\ pc[Main] \notin {Dead, "set_connecting"}
        /\ ff' = ff
    BY <1>5 DEF SocketDisconnected, ThreadWaited, FfmpegDestroy, Goto, Call, Dead
  <2>2. QED
    BY <1>0, <2>1, MoveIsCalm, CalmKeepsStartInv
<1>6. ASSUME NEW p \in Paths, StartRecording(p) PROVE StartInv'
  <2>1. /\ pc' = [pc EXCEPT ![OBS] = "actual_start"]
        /\ pc[OBS] \notin {Dead, "set_connecting"}
        /\ ff' = ff
    BY <1>6 DEF StartRecording, Call, Dead
  <2>2. QED
    BY <1>0, <2>1, MoveIsCalm, CalmKeepsStartInv
<1>7. ASSUME NEW force \in BOOLEAN, StopRecording(force) PROVE StartInv'
  <2>1. pc[OBS] \notin {Dead, "set_connecting"} /\ ff' = ff
    BY <1>7 DEF StopRecording, Dead
  <2>2. CASE UNCHANGED control
    BY <2>1, <2>2, CalmKeepsStartInv DEF Calm, control
  <2>3. CASE \E label : pc' = [pc EXCEPT ![OBS] = label]
    BY <1>0, <2>1, <2>3, MoveIsCalm, CalmKeepsStartInv
  <2>4. QED
    BY <1>7, <2>2, <2>3 DEF StopRecording, Call
<1>8. QED
  BY <1>1, <1>2, <1>3, <1>4, <1>5, <1>6, <1>7 DEF SlotStep, MainStep, Command

\* At most one start_thread runs at a time, although `connecting', the only
\* guard against a second, is assigned after the thread has been created.
THEOREM NeverTwoStartThreads == Spec => []OneStartThread
<1>1. Init => StartInv
  BY RecordAssumption DEF Init, StartInv, OneStartThread, Covered, Live
<1>2. TypeOK /\ StartInv /\ [Next]_vars => StartInv'
  <2> SUFFICES ASSUME TypeOK, StartInv, [Next]_vars PROVE StartInv'
    OBVIOUS
  <2>1. CASE Command \/ SlotStep \/ SocketDisconnected \/ MainStep
    BY <2>1, SlotKeepsStartInv
  <2>2. CASE CaptureStep
    BY <2>2, CaptureCalm, CalmKeepsStartInv
  <2>3. ASSUME NEW t \in Callers, ObsStep(t) \/ StopStep(t) PROVE StartInv'
    BY <2>3, ObsCalm, StopCalm, CalmKeepsStartInv
  <2>4. ASSUME NEW s \in StartThreads, StartStep(s) PROVE StartInv'
    BY <2>4, StartKeepsStartInv
  <2>5. ASSUME NEW w \in WriteThreads, WriteStep(w) PROVE StartInv'
    BY <2>5, WriteCalm, CalmKeepsStartInv
  <2>6. ASSUME NEW e \in Threads, EndStep(e) PROVE StartInv'
    BY <2>6, EndCalm, CalmKeepsStartInv
  <2>7. CASE UNCHANGED vars
    BY <2>7, CalmKeepsStartInv DEF vars, control, Calm
  <2>8. QED
    BY <2>1, <2>2, <2>3, <2>4, <2>5, <2>6, <2>7 DEF Next
<1>3. StartInv => OneStartThread
  BY DEF StartInv
<1>4. QED
  BY <1>1, <1>2, <1>3, TypeCorrect, PTL DEF Spec

(***************************************************************************)
(* Every packet is posted.  The semaphore and the write threads that have  *)
(* taken a post and not yet popped cover the queue; a stop request has one *)
(* post more.                                                              *)
(***************************************************************************)
\* A write thread about to pop stays about to pop.
Lingers == \A w \in WriteThreads :
             pc[w] = "process_packet" => pc'[w] = "process_packet"
\* The queue, the semaphore and the stop request are left alone.
QueueSame == /\ ff'.packets = ff.packets
             /\ ff'.writeSem = ff.writeSem
             /\ ff'.stopEvent = ff.stopEvent

\* The write threads about to pop are finitely many, and counted.
LEMMA PoppingFinite ==
  /\ IsFiniteSet(Popping)  /\ Cardinality(Popping)  \in Nat
  /\ IsFiniteSet(Popping') /\ Cardinality(Popping') \in Nat
<1>1. Popping \subseteq WriteThreads /\ Popping' \subseteq WriteThreads
  BY DEF Popping
<1>2. QED
  BY <1>1, RecordAssumption, FS_Subset, FS_CardinalityType

\* When all of them stay, they do not become fewer.
LEMMA PoppingGrows ==
  ASSUME Lingers PROVE Cardinality(Popping) <= Cardinality(Popping')
<1>1. Popping \subseteq Popping'
  BY DEF Lingers, Popping
<1>2. QED
  BY <1>1, PoppingFinite, FS_Subset

\* A step that leaves the queue alone and lets them stay keeps the invariant.
LEMMA StillPosted ==
  ASSUME TypeOK, EveryPacketPosted, Lingers, QueueSame
  PROVE  EveryPacketPosted'
<1>1. ff.writeSem \in Nat /\ Len(ff.packets) \in Nat
  BY DEF TypeOK, FfType
<1>2. Cardinality(Popping) \in Nat /\ Cardinality(Popping') \in Nat
  BY PoppingFinite
<1>3. Cardinality(Popping) <= Cardinality(Popping')
  BY PoppingGrows
<1>4. CASE ff.stopEvent
  BY <1>1, <1>2, <1>3, <1>4 DEF EveryPacketPosted, QueueSame
<1>5. CASE ~ff.stopEvent
  BY <1>1, <1>2, <1>3, <1>5 DEF EveryPacketPosted, QueueSame
<1>6. QED
  BY <1>4, <1>5

\* They stay when the thread that moves is not about to pop.
LEMMA MoveLingers ==
  ASSUME TypeOK, NEW t \in Threads, NEW label, pc' = [pc EXCEPT ![t] = label],
         pc[t] # "process_packet"
  PROVE  Lingers
BY RecordAssumption DEF Lingers, TypeOK, ControlOK

\* No step of libobs touches the queue.
LEMMA ObsPosted ==
  ASSUME TypeOK, EveryPacketPosted, NEW t \in Callers, ObsStep(t)
  PROVE  EveryPacketPosted'
<1>0. t \in Threads /\ QueueSame
  BY DEF Callers, ObsStep, Silent, QueueSame
<1>1. ASSUME NEW e \in EndThreads, EndCreate(t, e) PROVE Lingers
  BY <1>0, <1>1, RecordAssumption, ThreadsAssumption
     DEF EndCreate, Lingers, TypeOK, ControlOK
<1>2. ASSUME \/ ActualStart(t) \/ ObsOutputStop(t) \/ ActualStop(t)
             \/ ObsOutputForceStop(t) \/ ActualForceStop(t)
             \/ EndCheck(t) \/ EndClear(t) \/ EndJoin(t)
             \/ EndInactive(t) \/ EndSignal(t) \/ EndCreateFails(t)
             \/ Destroy(t) \/ DestroyWait(t) \/ DestroyJoin(t)
      PROVE  Lingers
  <2>1. /\ \E label : pc' = [pc EXCEPT ![t] = label]
        /\ pc[t] # "process_packet"
    BY <1>2 DEF ActualStart, ObsOutputStop, ActualStop, ObsOutputForceStop,
       ActualForceStop, EndCheck, EndClear, EndJoin, EndInactive, EndSignal,
       EndCreateFails, Destroy, DestroyWait, DestroyJoin, Goto, Call, Return
  <2>2. QED
    BY <1>0, <2>1, MoveLingers
<1>3. Lingers
  BY <1>1, <1>2 DEF ObsStep
<1>4. QED
  BY <1>0, <1>3, StillPosted

\* Deactivation raises the stop request with a post of its own, and freeing
\* the packets leaves that post behind.
LEMMA StopPosted ==
  ASSUME TypeOK, EveryPacketPosted, NEW t \in Callers, StopStep(t)
  PROVE  EveryPacketPosted'
<1>0. /\ t \in Threads /\ ff \in FfType
      /\ ff.writeSem \in Nat /\ Len(ff.packets) \in Nat
  BY DEF Callers, TypeOK, FfType
<1>1. Lingers
  <2>1. /\ \E label : pc' = [pc EXCEPT ![t] = label]
        /\ pc[t] # "process_packet"
    BY DEF StopStep, FfmpegStop, SetStopTs, FfmpegForceStop, FullStop,
       Deactivate, JoinWriter, FreePackets, WriteTrailer, CloseFile, Goto,
       Call, Return
  <2>2. QED
    BY <1>0, <2>1, MoveLingers
<1>2. CASE Deactivate(t)
  <2>1. CASE ff.writeThreadActive
    <3>1. /\ ff'.packets = ff.packets
          /\ ff'.writeSem = ff.writeSem + 1
          /\ ff'.stopEvent
      BY <1>0, <1>2, <2>1 DEF Deactivate, FfType
    <3>2. /\ Cardinality(Popping) \in Nat /\ Cardinality(Popping') \in Nat
          /\ Cardinality(Popping) <= Cardinality(Popping')
      BY <1>1, PoppingFinite, PoppingGrows
    <3>3. Len(ff.packets) <= ff.writeSem + Cardinality(Popping)
      <4>1. CASE ff.stopEvent
        BY <1>0, <3>2, <4>1 DEF EveryPacketPosted
      <4>2. CASE ~ff.stopEvent
        BY <1>0, <3>2, <4>2 DEF EveryPacketPosted
      <4>3. QED
        BY <4>1, <4>2
    <3>4. /\ ff'.writeSem > 0
          /\ Len(ff'.packets) + 1 <= ff'.writeSem + Cardinality(Popping')
      BY <1>0, <3>1, <3>2, <3>3
    <3>5. QED
      BY <3>1, <3>4 DEF EveryPacketPosted
  <2>2. CASE ~ff.writeThreadActive
    BY <1>1, <1>2, <2>2, StillPosted DEF Deactivate, QueueSame
  <2>3. QED
    BY <2>1, <2>2
<1>3. CASE FreePackets(t)
  <2>1. /\ ff'.packets = <<>>
        /\ ff'.writeSem = ff.writeSem
        /\ ff'.stopEvent = ff.stopEvent
    BY <1>0, <1>3 DEF FreePackets, FfType
  <2>2. Len(ff'.packets) = 0
    BY <2>1
  <2>3. QED
    BY <1>0, <2>1, <2>2, PoppingFinite DEF EveryPacketPosted
<1>4. CASE ~Deactivate(t) /\ ~FreePackets(t)
  <2>1. QueueSame
    BY <1>0, <1>4 DEF StopStep, FfmpegStop, SetStopTs, FfmpegForceStop,
       FullStop, JoinWriter, WriteTrailer, CloseFile, FfType, QueueSame
  <2>2. QED
    BY <1>1, <2>1, StillPosted
<1>5. QED
  BY <1>2, <1>3, <1>4

\* A start thread touches neither the queue nor the semaphore.
LEMMA StartPosted ==
  ASSUME TypeOK, EveryPacketPosted, NEW s \in StartThreads, StartStep(s)
  PROVE  EveryPacketPosted'
<1>0. s \in Threads /\ ff \in FfType
  BY RecordAssumption DEF TypeOK
<1>1. QueueSame
  BY <1>0 DEF StartStep, DataInit, OpenFile, OpenFileFails, SetActive,
     CreateWriter, CreateWriterFails, WriterActive, ConnectFailed, StartReturn,
     Silent, FfType, QueueSame
<1>2. CASE CreateWriter(s)
  <2>1. PICK w \in WriteThreads :
          /\ pc' = [pc EXCEPT ![s] = "begin_capture", ![w] = "write_wait"]
          /\ pc[w] = Dead
    BY <1>2 DEF CreateWriter
  <2>2. \A r \in Threads : r \notin {s, w} => pc'[r] = pc[r]
    BY <2>1 DEF TypeOK, ControlOK
  <2>3. pc[w] # "process_packet" /\ s \notin WriteThreads
    BY <2>1, RecordAssumption DEF Dead
  <2>4. Lingers
    BY <2>2, <2>3, RecordAssumption DEF Lingers
  <2>5. QED
    BY <1>1, <2>4, StillPosted
<1>3. CASE ~CreateWriter(s)
  <2>1. /\ \E label : pc' = [pc EXCEPT ![s] = label]
        /\ pc[s] # "process_packet"
    BY <1>3 DEF StartStep, DataInit, OpenFile, OpenFileFails, SetActive,
       CanBeginDataCapture, CreateWriterFails, BeginDataCapture, BeginActivate,
       WriterActive, ConnectFailed, StartReturn, Goto, Call
  <2>2. QED
    BY <1>0, <1>1, <2>1, MoveLingers, StillPosted
<1>4. QED
  BY <1>2, <1>3

\* Taking a post makes the write thread one about to pop, or consumes the
\* stop request; popping takes one packet off the queue, if there is one.
LEMMA WritePosted ==
  ASSUME TypeOK, EveryPacketPosted, NEW w \in WriteThreads, WriteStep(w)
  PROVE  EveryPacketPosted'
<1>0. /\ w \in Threads /\ ff \in FfType
      /\ ff.writeSem \in Nat /\ ff.packets \in Seq({"early", "late"})
      /\ Len(ff.packets) \in Nat
      /\ Cardinality(Popping) \in Nat /\ Cardinality(Popping') \in Nat
  BY RecordAssumption, PoppingFinite DEF TypeOK, FfType
<1>1. CASE WriteWait(w)
  <2>1. /\ ff'.packets = ff.packets
        /\ ff'.writeSem = ff.writeSem - 1
        /\ ff'.stopEvent = FALSE
        /\ ff.writeSem > 0
        /\ pc[w] = "write_wait"
    BY <1>0, <1>1 DEF WriteWait, FfType
  <2>2. CASE ff.stopEvent
    <3>1. Lingers
      BY <1>0, <1>1, MoveLingers DEF WriteWait, Goto
    <3>2. Len(ff.packets) + 1 <= ff.writeSem + Cardinality(Popping)
      BY <2>2 DEF EveryPacketPosted
    <3>3. Len(ff'.packets) + 0 <= ff'.writeSem + Cardinality(Popping')
      BY <1>0, <2>1, <3>1, <3>2, PoppingGrows
    <3>4. QED
      BY <2>1, <3>3 DEF EveryPacketPosted
  <2>3. CASE ~ff.stopEvent
    <3>1. pc' = [pc EXCEPT ![w] = "process_packet"]
      BY <1>1, <2>3 DEF WriteWait, Goto
    <3>2. Popping' = Popping \cup {w} /\ w \notin Popping
      BY <1>0, <2>1, <3>1, RecordAssumption DEF Popping, TypeOK, ControlOK
    <3>3. Cardinality(Popping') = Cardinality(Popping) + 1
      BY <3>2, PoppingFinite, FS_AddElement
    <3>4. Len(ff.packets) + 0 <= ff.writeSem + Cardinality(Popping)
      BY <2>3 DEF EveryPacketPosted
    <3>5. Len(ff'.packets) + 0 <= ff'.writeSem + Cardinality(Popping')
      BY <1>0, <2>1, <3>3, <3>4
    <3>6. QED
      BY <2>1, <3>5 DEF EveryPacketPosted
  <2>4. QED
    BY <2>2, <2>3
<1>2. CASE ProcessPacket(w)
  <2>1. /\ ff'.writeSem = ff.writeSem
        /\ ff'.stopEvent = ff.stopEvent
        /\ ff'.packets = IF ff.packets = <<>> THEN <<>> ELSE Tail(ff.packets)
        /\ pc[w] = "process_packet"
    BY <1>0, <1>2 DEF ProcessPacket, FfType
  <2>2. /\ \E label : pc' = [pc EXCEPT ![w] = label]
        /\ pc'[w] # "process_packet"
    BY <1>0, <1>2 DEF ProcessPacket, Goto, Call, TypeOK, ControlOK
  <2>3. Popping' = Popping \ {w} /\ w \in Popping
    BY <1>0, <2>1, <2>2, RecordAssumption DEF Popping, TypeOK, ControlOK
  <2>4. Cardinality(Popping') = Cardinality(Popping) - 1
    BY <2>3, PoppingFinite, FS_RemoveElement
  <2>5. Len(ff'.packets) = IF ff.packets = <<>> THEN 0 ELSE Len(ff.packets) - 1
    BY <1>0, <2>1
  <2>6. ff.packets = <<>> => Len(ff.packets) = 0
    BY <1>0
  <2>7. CASE ff.stopEvent
    BY <1>0, <2>1, <2>4, <2>5, <2>6, <2>7 DEF EveryPacketPosted
  <2>8. CASE ~ff.stopEvent
    BY <1>0, <2>1, <2>4, <2>5, <2>6, <2>8 DEF EveryPacketPosted
  <2>9. QED
    BY <2>7, <2>8
<1>3. CASE WriteFrame(w) \/ WriteFrameFails(w) \/ WriteReturn(w)
  <2>1. QueueSame
    BY <1>0, <1>3 DEF WriteFrame, WriteFrameFails, WriteReturn, FfType, QueueSame
  <2>2. /\ \E label : pc' = [pc EXCEPT ![w] = label]
        /\ pc[w] # "process_packet"
    BY <1>3 DEF WriteFrame, WriteFrameFails, WriteReturn, Goto
  <2>3. QED
    BY <1>0, <2>1, <2>2, MoveLingers, StillPosted
<1>4. QED
  BY <1>1, <1>2, <1>3 DEF WriteStep

\* The end of a capture leaves the queue alone.
LEMMA EndPosted ==
  ASSUME TypeOK, EveryPacketPosted, NEW e \in Threads, EndStep(e)
  PROVE  EveryPacketPosted'
<1>1. QueueSame
  BY DEF EndStep, Silent, QueueSame
<1>2. /\ \E label : pc' = [pc EXCEPT ![e] = label]
      /\ pc[e] # "process_packet"
  BY DEF EndStep, EndDisconnect, EndDeactivate, EndEvent, EndReturn, Goto,
     Return
<1>3. QED
  BY <1>1, <1>2, MoveLingers, StillPosted

\* A frame callback posts for every packet it queues.
LEMMA CapturePosted ==
  ASSUME TypeOK, EveryPacketPosted, CaptureStep
  PROVE  EveryPacketPosted'
<1>0. /\ ff \in FfType
      /\ ff.writeSem \in Nat /\ ff.packets \in Seq({"early", "late"})
      /\ Len(ff.packets) \in Nat
      /\ Cardinality(Popping) \in Nat /\ Cardinality(Popping') \in Nat
  BY PoppingFinite DEF TypeOK, FfType
<1>1. Lingers
  BY DEF CaptureStep, CaptureEnter, CaptureFreed, CapturePush, control, Lingers
<1>2. CASE CaptureEnter \/ CaptureFreed
  <2>1. QueueSame
    BY <1>0, <1>2 DEF CaptureEnter, CaptureFreed, FfType, QueueSame
  <2>2. QED
    BY <1>1, <2>1, StillPosted
<1>3. ASSUME NEW when \in {"early", "late"}, CapturePush(when)
      PROVE  EveryPacketPosted'
  <2>1. /\ ff'.packets = Append(ff.packets, when)
        /\ ff'.writeSem = ff.writeSem + 1
        /\ ff'.stopEvent = ff.stopEvent
    BY <1>0, <1>3 DEF CapturePush, FfType
  <2>2. Len(ff'.packets) = Len(ff.packets) + 1
    BY <1>0, <2>1
  <2>3. Cardinality(Popping) <= Cardinality(Popping')
    BY <1>1, PoppingGrows
  <2>4. CASE ff.stopEvent
    BY <1>0, <2>1, <2>2, <2>3, <2>4 DEF EveryPacketPosted
  <2>5. CASE ~ff.stopEvent
    BY <1>0, <2>1, <2>2, <2>3, <2>5 DEF EveryPacketPosted
  <2>6. QED
    BY <2>4, <2>5
<1>4. QED
  BY <1>2, <1>3 DEF CaptureStep

\* Neither the slots nor the main thread touch the queue.
LEMMA SlotPosted ==
  ASSUME TypeOK, EveryPacketPosted,
         Command \/ SlotStep \/ SocketDisconnected \/ MainStep
  PROVE  EveryPacketPosted'
<1>0. ff \in FfType
  BY DEF TypeOK
<1>1. QueueSame
  BY <1>0 DEF Command, SlotStep, MainStep, StartRecording, StartRecordingEmpty,
     StopRecording, FfmpegStart, FfmpegStartRefused, FfmpegStartFails,
     SetConnecting, StartFailed, Deliver, SocketDisconnected, ThreadQuits,
     ThreadWaited, FfmpegDestroy, FfType, QueueSame
<1>2. \A w \in WriteThreads : pc[w] = "process_packet" => pc'[w] = pc[w]
  <2> SUFFICES ASSUME NEW w \in WriteThreads, pc[w] = "process_packet"
               PROVE  pc'[w] = pc[w]
    OBVIOUS
  <2>1. w \notin {OBS, Main} \cup StartThreads
    BY RecordAssumption
  <2>2. pc = [t \in Threads |-> pc[t]] /\ w \in Threads
    BY RecordAssumption DEF TypeOK, ControlOK
  <2>3. CASE Command \/ SlotStep
    BY <2>1, <2>2, <2>3 DEF Command, SlotStep, StartRecording,
       StartRecordingEmpty, StopRecording, FfmpegStart, FfmpegStartRefused,
       FfmpegStartFails, SetConnecting, StartFailed, Deliver, Goto, Call,
       Return, control
  <2>4. CASE SocketDisconnected \/ MainStep
    BY <2>1, <2>2, <2>4 DEF MainStep, SocketDisconnected, ThreadQuits,
       ThreadWaited, FfmpegDestroy, Goto, Call
  <2>5. QED
    BY <2>3, <2>4
<1>3. QED
  BY <1>1, <1>2, StillPosted DEF Lingers

\* No packet and no stop request is ever left without the post that wakes a
\* write thread for it: the recorder cannot stall on a queue it has filled.
THEOREM NoLostPacket == Spec => []EveryPacketPosted
<1>1. Init => EveryPacketPosted
  <2> SUFFICES ASSUME Init PROVE EveryPacketPosted
    OBVIOUS
  <2>1. Cardinality(Popping) \in Nat
    BY PoppingFinite
  <2>2. ff.writeSem = 0 /\ ff.packets = <<>> /\ ff.stopEvent = FALSE
    BY DEF Init
  <2>3. QED
    BY <2>1, <2>2 DEF EveryPacketPosted
<1>2. TypeOK /\ EveryPacketPosted /\ [Next]_vars => EveryPacketPosted'
  <2> SUFFICES ASSUME TypeOK, EveryPacketPosted, [Next]_vars
               PROVE  EveryPacketPosted'
    OBVIOUS
  <2>1. CASE Command \/ SlotStep \/ SocketDisconnected \/ MainStep
    BY <2>1, SlotPosted
  <2>2. CASE CaptureStep
    BY <2>2, CapturePosted
  <2>3. ASSUME NEW t \in Callers, ObsStep(t) \/ StopStep(t)
        PROVE  EveryPacketPosted'
    BY <2>3, ObsPosted, StopPosted
  <2>4. ASSUME NEW s \in StartThreads, StartStep(s) PROVE EveryPacketPosted'
    BY <2>4, StartPosted
  <2>5. ASSUME NEW w \in WriteThreads, WriteStep(w) PROVE EveryPacketPosted'
    BY <2>5, WritePosted
  <2>6. ASSUME NEW e \in Threads, EndStep(e) PROVE EveryPacketPosted'
    BY <2>6, EndPosted
  <2>7. CASE UNCHANGED vars
    BY <2>7, StillPosted DEF vars, control, Lingers, QueueSame
  <2>8. QED
    BY <2>1, <2>2, <2>3, <2>4, <2>5, <2>6, <2>7 DEF Next
<1>3. QED
  BY <1>1, <1>2, TypeCorrect, PTL DEF Spec
=============================================================================
