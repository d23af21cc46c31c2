-------------------------- MODULE StreamOutputProofs --------------------------
(***************************************************************************)
(* Proofs about StreamOutput for every set of threads and every bound.     *)
(* First its type, whatever the server sends and whatever fails.  Then,    *)
(* for a server that waits for each answer (Patient of StreamPlaces), that *)
(* InPlace is inductive, and the safety that follows from it: how a step   *)
(* moves the places, a lemma for each action, and these joined.            *)
(***************************************************************************)
EXTENDS StreamPlaces, SequenceTheorems, TLAPS

(***************************************************************************)
(* Control.  Going on, calling and returning keep every thread in the code *)
(* it can run.                                                             *)
(***************************************************************************)
\* A step that goes on, in the thread's own code.
LEMMA GotoOK ==
  ASSUME NEW t \in Threads, NEW label, ControlOK, Goto(t, label),
         label \in CodeOf(t)
  PROVE  ControlOK'
BY DEF ControlOK, Goto, CodeOf, ReturnsOf

\* So does a call, of code of its own.
LEMMA CallOK ==
  ASSUME NEW t \in Threads, NEW label, NEW back, ControlOK,
         Call(t, label, back), label \in CodeOf(t), back \in ReturnsOf(t)
  PROVE  ControlOK'
<1>1. <<back>> \o stack[t] \in Seq(ReturnsOf(t))
  BY DEF ControlOK
<1>2. QED
  BY <1>1 DEF ControlOK, Call, CodeOf, ReturnsOf

\* Every place a thread returns to is in its code.
LEMMA BackInCode ==
  ASSUME NEW t \in Threads, ControlOK, stack[t] # <<>>
  PROVE  Head(stack[t]) \in CodeOf(t) /\ Tail(stack[t]) \in Seq(ReturnsOf(t))
<1>1. Head(stack[t]) \in ReturnsOf(t) /\ Tail(stack[t]) \in Seq(ReturnsOf(t))
  BY DEF ControlOK
<1>2. ReturnsOf(t) \subseteq CodeOf(t)
  BY DEF CodeOf, ReturnsOf, MainLabels, SlotLabels, ConnectLabels, ClosingLabels,
         EndingLabels, EndLabels
<1>3. QED
  BY <1>1, <1>2

\* So does a return.
LEMMA ReturnOK ==
  ASSUME NEW t \in Threads, ControlOK, Return(t)
  PROVE  ControlOK'
<1>1. Head(stack[t]) \in CodeOf(t) /\ Tail(stack[t]) \in Seq(ReturnsOf(t))
  BY BackInCode DEF Return
<1>2. QED
  BY <1>1 DEF ControlOK, Return, CodeOf, ReturnsOf

\* Code that several threads share, and code that is only one's.
LEMMA CodeFacts ==
  ASSUME NEW t \in Callers
  PROVE  /\ t \in Threads
         /\ \A l \in CodeOf(t) \cap EndingLabels :
              EndingLabels \subseteq CodeOf(t) /\ "end_signal" \in ReturnsOf(t)
         /\ \A l \in CodeOf(t) \cap SlotLabels :
              t = OBS \/ (t = Main /\ l \in MainLabels)
         /\ \A l \in CodeOf(t) \cap MainLabels :
              t = Main \/ (t = OBS /\ l \in SlotLabels)
         /\ OBS \in Threads /\ Main \in Threads
         /\ SlotLabels \cup {Dead} \subseteq CodeOf(OBS)
         /\ MainLabels \cup EndingLabels \subseteq CodeOf(Main)
         /\ "idle" \in ReturnsOf(OBS)
         /\ {"destroy_wait", "join_sender", "exited"} \subseteq ReturnsOf(Main)
BY StreamOutputAssumption
   DEF Callers, CodeOf, ReturnsOf, SlotLabels, MainLabels, ConnectLabels,
       LoopLabels, ClosingLabels, StopLabels, EndingLabels, EndLabels, Dead

\* The steps of libobs keep the threads in their code.
LEMMA ObsControl ==
  ASSUME TypeOK, NEW t \in Callers, ObsStep(t)
  PROVE  ControlOK'
<1> USE CodeFacts
<1>0. ControlOK /\ t \in Threads /\ pc[t] \in CodeOf(t)
  BY DEF TypeOK, ControlOK
<1>1. CASE ActualStart(t)
  BY <1>0, <1>1, GotoOK DEF ActualStart, SlotLabels, MainLabels
<1>2. CASE ObsOutputStop(t) \/ ActualStop(t)
  <2>1. t = OBS
    BY <1>0, <1>2 DEF ObsOutputStop, ActualStop, SlotLabels, StopLabels, MainLabels
  <2>2. Goto(t, "actual_stop") \/ Goto(t, "plugin_stop") \/ Return(t)
    BY <1>2 DEF ObsOutputStop, ActualStop
  <2>3. {"actual_stop", "plugin_stop"} \subseteq CodeOf(t)
    BY <2>1 DEF SlotLabels, StopLabels
  <2>4. QED
    BY <1>0, <2>2, <2>3, GotoOK, ReturnOK
<1>3. CASE ObsOutputForceStop(t) \/ ActualForceStop(t)
  <2>1. /\ pc[t] \in {"obs_force_stop", "actual_force_stop"}
        /\ Goto(t, "actual_force_stop") \/ Goto(t, "plugin_force_stop")
    BY <1>3 DEF ObsOutputForceStop, ActualForceStop
  <2>2. {"actual_force_stop", "plugin_force_stop"} \subseteq CodeOf(t)
    BY <1>0, <2>1 DEF SlotLabels, StopLabels, MainLabels
  <2>3. QED
    BY <1>0, <2>1, <2>2, GotoOK
<1>4. CASE EndCheck(t) \/ EndClear(t) \/ EndJoin(t)
  BY <1>0, <1>4, GotoOK DEF EndCheck, EndClear, EndJoin, EndingLabels
<1>5. ASSUME NEW e \in EndThreads, EndCreate(t, e) PROVE ControlOK'
  <2>1. e \in Threads /\ "end_disconnect" \in CodeOf(e)
    BY ThreadsAssumption, StreamOutputAssumption DEF CodeOf, EndLabels
  <2>2. "end_signal" \in CodeOf(t)
    BY <1>0, <1>5 DEF EndCreate, EndingLabels
  <2>3. /\ pc' = [pc EXCEPT ![t] = "end_signal", ![e] = "end_disconnect"]
        /\ stack' = stack
    BY <1>5 DEF EndCreate
  <2>4. pc' = [u \in Threads |-> pc'[u]]
    BY <1>0, <2>3 DEF ControlOK
  <2>5. \A u \in Threads : pc'[u] \in CodeOf(u)
    BY <1>0, <2>1, <2>2, <2>3 DEF ControlOK
  <2>6. QED
    BY <1>0, <2>3, <2>4, <2>5 DEF ControlOK, CodeOf, ReturnsOf
<1>6. CASE EndInactive(t) \/ EndSignal(t) \/ EndCreateFails(t)
  BY <1>0, <1>6, ReturnOK, CallOK
     DEF EndInactive, EndSignal, EndCreateFails, EndingLabels, EndLabels
<1>7. CASE Destroy(t) \/ DestroyWait(t) \/ DestroyJoin(t)
  <2>1. t = Main
    BY <1>0, <1>7
       DEF Destroy, DestroyWait, DestroyJoin, MainLabels, SlotLabels, StopLabels
  <2>2. QED
    BY <1>0, <1>7, <2>1, GotoOK, CallOK
       DEF Destroy, DestroyWait, DestroyJoin, MainLabels
<1>8. QED
  BY <1>1, <1>2, <1>3, <1>4, <1>5, <1>6, <1>7 DEF ObsStep

\* So do those of the stop.
LEMMA StopControl ==
  ASSUME TypeOK, NEW t \in Callers, StopStep(t)
  PROVE  ControlOK'
<1> USE CodeFacts
<1>0. ControlOK /\ t \in Threads /\ pc[t] \in CodeOf(t)
  BY DEF TypeOK, ControlOK
<1>1. CASE RtmpStop(t)
  <2>1. t = OBS
    BY <1>0, <1>1 DEF RtmpStop, SlotLabels, StopLabels, MainLabels
  <2>2. QED
    BY <1>0, <1>1, <2>1, GotoOK DEF RtmpStop, SlotLabels, StopLabels
<1>2. CASE RtmpStopAgain(t) \/ SetTimeout(t) \/ ForcePost(t)
  BY <1>0, <1>2, ReturnOK DEF RtmpStopAgain, SetTimeout, ForcePost
<1>3. CASE RtmpForceStop(t)
  <2>1. "force_post" \in CodeOf(t)
    BY <1>0, <1>3 DEF RtmpForceStop, SlotLabels, StopLabels, MainLabels
  <2>2. QED
    BY <1>0, <1>3, <2>1, GotoOK DEF RtmpForceStop
<1>4. QED
  BY <1>1, <1>2, <1>3 DEF StopStep

\* A connect thread stays in connect_thread and what it calls.
LEMMA ConnectControl ==
  ASSUME TypeOK, NEW c \in ConnectThreads, ConnectStep(c)
  PROVE  ControlOK'
<1>0. ControlOK /\ c \in Threads
  BY StreamOutputAssumption DEF TypeOK
<1>1. /\ ConnectLabels \cup EndingLabels \cup {Dead} \subseteq CodeOf(c)
      /\ "connect_return" \in ReturnsOf(c)
  BY StreamOutputAssumption DEF CodeOf, ReturnsOf
<1>2. CASE \/ InitConnect(c) \/ Connect(c) \/ SetActive(c) \/ SendMetaData(c)
           \/ ConnectReturn(c) \/ ClearConnecting(c)
  BY <1>0, <1>1, <1>2, GotoOK
     DEF InitConnect, Connect, SetActive, SendMetaData, ConnectReturn,
         ClearConnecting, ConnectLabels
<1>3. CASE \/ BeginDataCapture(c, "connect_return")
           \/ BeginActivate(c, "connect_return")
  BY <1>0, <1>1, <1>3, GotoOK DEF BeginDataCapture, BeginActivate, ConnectLabels
<1>4. CASE InitSend(c)
  <2>1. PICK n \in SendThreads :
          /\ pc' = [pc EXCEPT ![c] = "set_active", ![n] = "send_wait"]
          /\ UNCHANGED stack
    BY <1>4 DEF InitSend
  <2>2. n \in Threads /\ "send_wait" \in CodeOf(n) /\ "set_active" \in CodeOf(c)
    BY <1>1, StreamOutputAssumption DEF CodeOf, LoopLabels, ConnectLabels
  <2>3. QED
    BY <1>0, <2>1, <2>2 DEF ControlOK, CodeOf, ReturnsOf
<1>5. CASE ConnectFails(c) \/ InitSendFails(c) \/ SendMetaDataFails(c)
  BY <1>0, <1>1, <1>5, CallOK
     DEF ConnectFails, InitSendFails, SendMetaDataFails, ConnectionFails, EndingLabels
<1>6. QED
  BY <1>2, <1>3, <1>4, <1>5 DEF ConnectStep

\* A send thread stays in send_thread and what it calls.
LEMMA SendControl ==
  ASSUME TypeOK, NEW n \in SendThreads, SendStep(n)
  PROVE  ControlOK'
<1>0. ControlOK /\ n \in Threads
  BY StreamOutputAssumption DEF TypeOK
<1>1. /\ /\ LoopLabels \cup ClosingLabels \cup EndingLabels \cup {Dead} \subseteq CodeOf(n)
      /\ "send_free" \in ReturnsOf(n)
  BY StreamOutputAssumption DEF CodeOf, ReturnsOf
<1>2. CASE SendWait(n) \/ NoPacket(n) \/ SendPacket(n) \/ SendFails(n)
  BY <1>0, <1>1, <1>2, GotoOK
     DEF SendWait, NoPacket, SendPacket, SendFails, LoopLabels, ClosingLabels
<1>3. CASE NextPacket(n)
  <2>1. Goto(n, "send_close") \/ Goto(n, "send_packet")
    BY <1>3 DEF NextPacket
  <2>2. QED
    BY <1>0, <1>1, <2>1, GotoOK DEF LoopLabels, ClosingLabels
<1>4. CASE SendClose(n)
  BY <1>0, <1>1, <1>4, CallOK DEF SendClose, EndingLabels
<1>5. CASE SendFree(n) \/ SendReset(n) \/ SendInactive(n)
  BY <1>0, <1>1, <1>5, GotoOK DEF SendFree, SendReset, SendInactive, ClosingLabels
<1>6. QED
  BY <1>2, <1>3, <1>4, <1>5 DEF SendStep

\* An end thread stays in end_data_capture_thread, and a caller that runs it
\* goes back to where it was called.
LEMMA EndControl ==
  ASSUME TypeOK, NEW e \in Threads, EndStep(e)
  PROVE  ControlOK'
<1>1. ControlOK /\ pc[e] \in CodeOf(e)
  BY DEF TypeOK, ControlOK
<1>2. CASE EndDisconnect(e) \/ EndDeactivate(e) \/ EndEvent(e)
  <2>1. pc[e] \in EndLabels
    BY <1>2 DEF EndDisconnect, EndDeactivate, EndEvent, EndLabels
  <2>2. EndLabels \subseteq CodeOf(e)
    BY <1>1, <2>1, StreamOutputAssumption
       DEF CodeOf, EndLabels, EndingLabels, SlotLabels, StopLabels, Dead
  <2>3. QED
    BY <1>1, <1>2, <2>2, GotoOK DEF EndDisconnect, EndDeactivate, EndEvent, EndLabels
<1>3. CASE EndReturn(e)
  <2>1. CASE e \in EndThreads
    <3>1. Dead \in CodeOf(e)
      BY <2>1, ThreadsAssumption, StreamOutputAssumption DEF CodeOf
    <3>2. QED
      BY <1>1, <1>3, <2>1, <3>1, GotoOK DEF EndReturn
  <2>2. CASE e \notin EndThreads
    BY <1>1, <1>3, <2>2, ReturnOK DEF EndReturn
  <2>3. QED
    BY <2>1, <2>2
<1>4. QED
  BY <1>2, <1>3 DEF EndStep

\* The OBS thread stays in its slots, the main thread in its exit.
LEMMA SlotControl ==
  ASSUME TypeOK, Command \/ SlotStep \/ SocketDisconnected \/ MainStep
  PROVE  ControlOK'
<1>0. ControlOK /\ OBS \in Threads /\ Main \in Threads
  BY StreamOutputAssumption DEF TypeOK
<1>1. /\ SlotLabels \cup {Dead} \subseteq CodeOf(OBS)
      /\ "idle" \in ReturnsOf(OBS)
      /\ MainLabels \cup EndingLabels \subseteq CodeOf(Main)
      /\ {"join_sender", "exited"} \subseteq ReturnsOf(Main)
  BY StreamOutputAssumption DEF CodeOf, ReturnsOf
<1>2. CASE Command
  <2>1. CASE StartStreaming
    BY <1>0, <1>1, <2>1, CallOK DEF StartStreaming, SlotLabels
  <2>2. CASE StartStreamingEmpty
    BY <1>0, <2>2 DEF StartStreamingEmpty, control, ControlOK
  <2>3. ASSUME NEW force \in BOOLEAN, StopStreaming(force) PROVE ControlOK'
    <3>1. CASE output.active
      <4>1. PICK l \in {"obs_force_stop", "obs_stop"} : Call(OBS, l, "idle")
        BY <2>3, <3>1 DEF StopStreaming
      <4>2. l \in CodeOf(OBS)
        BY <1>1 DEF SlotLabels, StopLabels
      <4>3. QED
        BY <1>0, <1>1, <4>1, <4>2, CallOK
    <3>2. CASE ~output.active
      BY <1>0, <2>3, <3>2 DEF StopStreaming, control, ControlOK
    <3>3. QED
      BY <3>1, <3>2
  <2>4. QED
    BY <1>2, <2>1, <2>2, <2>3 DEF Command
<1>3. CASE CreateConnect
  <2>1. PICK c \in ConnectThreads :
          /\ pc' = [pc EXCEPT ![OBS] = Head(stack[OBS]), ![c] = "init_connect"]
          /\ stack' = [stack EXCEPT ![OBS] = Tail(@)]
    BY <1>3 DEF CreateConnect
  <2>2. c \in Threads /\ "init_connect" \in CodeOf(c)
    BY StreamOutputAssumption DEF CodeOf, ConnectLabels
  <2>3. Head(stack[OBS]) \in CodeOf(OBS) /\ Tail(stack[OBS]) \in Seq(ReturnsOf(OBS))
    BY <1>0, <1>3, BackInCode DEF CreateConnect
  <2>4. QED
    BY <1>0, <2>1, <2>2, <2>3 DEF ControlOK, CodeOf, ReturnsOf
<1>4. CASE \/ RtmpStart \/ CreateConnectFails
           \/ CanBeginDataCapture(OBS, "create_connect", "start_failed")
  BY <1>0, <1>1, <1>4, GotoOK
     DEF RtmpStart, CreateConnectFails, CanBeginDataCapture, SlotLabels
<1>5. CASE StartFailed
  BY <1>0, <1>5, ReturnOK DEF StartFailed
<1>6. CASE Deliver
  BY <1>0, <1>6 DEF Deliver, control, ControlOK
<1>7. CASE SocketDisconnected \/ ThreadQuits \/ JoinConnect \/ DestroyStop
  BY <1>0, <1>1, <1>7, GotoOK
     DEF SocketDisconnected, ThreadQuits, JoinConnect, DestroyStop, MainLabels
<1>8. CASE ThreadWaited \/ DestroyPost \/ JoinSender
  BY <1>0, <1>1, <1>8, CallOK, ReturnOK
     DEF ThreadWaited, DestroyPost, JoinSender, MainLabels, EndingLabels
<1>9. CASE RtmpDestroy
  <2>1. \/ \E l \in {"join_sender", "join_connect", "destroy_stop"} : Goto(Main, l)
        \/ Return(Main)
    BY <1>9 DEF RtmpDestroy
  <2>2. QED
    BY <1>0, <1>1, <2>1, GotoOK, ReturnOK DEF MainLabels
<1>10. QED
  BY <1>2, <1>3, <1>4, <1>5, <1>6, <1>7, <1>8, <1>9 DEF SlotStep, MainStep

(***************************************************************************)
(* Data.                                                                   *)
(***************************************************************************)
DataOK ==
    /\ output \in OutputType
    /\ stream \in StreamType
    /\ app \in AppType
    /\ server \in ServerType

\* A notification leaves the application and the server well-typed.
LEMMA NotifyOK ==
  ASSUME app \in AppType, server \in ServerType, NEW t, NEW n \in Notices,
         Notify(t, n)
  PROVE  app' \in AppType /\ server' \in ServerType
<1>1. CASE UNCHANGED <<app, server>>
  BY <1>1
<1>2. CASE Received(n) /\ UNCHANGED app
  BY <1>2 DEF Received, ServerType
<1>3. CASE app' = [app EXCEPT !.posted = Append(@, n)] /\ UNCHANGED server
  <2>1. Append(app.posted, n) \in Seq(Notices)
    BY AppendProperties DEF AppType
  <2>2. QED
    BY <1>3, <2>1 DEF AppType
<1>4. QED
  BY <1>1, <1>2, <1>3 DEF Notify

\* The steps of libobs keep the types of the data,
LEMMA ObsData ==
  ASSUME DataOK, NEW t \in Callers, ObsStep(t)
  PROVE  DataOK'
<1>1. CASE /\ (EndInactive(t) \/ EndSignal(t))
           /\ StreamingStopped(t)
           /\ UNCHANGED stream
  <2>1. output' \in OutputType
    BY <1>1 DEF DataOK, EndInactive, EndSignal, OutputType, StopCodes
  <2>2. PICK n \in Notices : Notify(t, n)
    BY <1>1 DEF StreamingStopped, Notices
  <2>3. QED
    BY <1>1, <2>1, <2>2, NotifyOK DEF DataOK
<1>2. ASSUME NEW e \in EndThreads, EndCreate(t, e), Silent PROVE DataOK'
  BY <1>2 DEF DataOK, EndCreate, OutputType, Silent
<1>3. CASE /\ \/ ActualStart(t) \/ ObsOutputStop(t) \/ ActualStop(t)
              \/ ObsOutputForceStop(t) \/ ActualForceStop(t)
              \/ EndCheck(t) \/ EndClear(t) \/ EndJoin(t) \/ EndCreateFails(t)
              \/ Destroy(t) \/ DestroyWait(t) \/ DestroyJoin(t)
           /\ Silent
  <2>1. output' \in OutputType
    BY <1>3 DEF DataOK, ActualStart, ObsOutputStop, ActualStop,
       ObsOutputForceStop, ActualForceStop, EndCheck, EndClear, EndJoin,
       EndCreateFails, Destroy, DestroyWait, DestroyJoin, OutputType, StopCodes
  <2>2. QED
    BY <1>3, <2>1 DEF DataOK, Silent
<1>4. QED
  BY <1>1, <1>2, <1>3 DEF ObsStep

\* those of the stop do,
LEMMA StopData ==
  ASSUME DataOK, NEW t \in Callers, StopStep(t)
  PROVE  DataOK'
<1>1. stream \in StreamType /\ stream.sendSem + 1 \in Nat
  BY DEF DataOK, StreamType
<1>2. CASE RtmpStop(t) \/ SetTimeout(t) \/ RtmpForceStop(t)
  BY <1>1, <1>2 DEF RtmpStop, SetTimeout, RtmpForceStop, Outside, DataOK, StreamType
<1>3. CASE RtmpStopAgain(t)
  BY <1>1, <1>3 DEF RtmpStopAgain, Outside, DataOK
<1>4. CASE ForcePost(t)
  <2>1. stream' = [stream EXCEPT !.sendSem = stream.sendSem + 1] \/ stream' = stream
    BY <1>1, <1>4 DEF ForcePost, StreamType
  <2>2. stream' \in StreamType
    BY <1>1, <2>1 DEF StreamType
  <2>3. QED
    BY <1>4, <2>2 DEF ForcePost, Outside, DataOK
<1>5. QED
  BY <1>2, <1>3, <1>4 DEF StopStep

\* those of connect_thread,
LEMMA ConnectData ==
  ASSUME DataOK, NEW c \in ConnectThreads, ConnectStep(c)
  PROVE  DataOK'
<1>1. stream \in StreamType /\ output \in OutputType
  BY DEF DataOK
<1>2. CASE InitConnect(c)
  <2>1. <<>> \in Seq({"early", "late"})
    OBVIOUS
  <2>2. stream' \in StreamType
    BY <1>1, <1>2, <2>1 DEF InitConnect, StreamType
  <2>3. QED
    BY <1>2, <2>2 DEF InitConnect, Outside, DataOK
<1>3. CASE Connect(c) \/ SendMetaData(c)
  BY <1>3 DEF Connect, SendMetaData, Outside, DataOK
<1>4. CASE ConnectFails(c) \/ SendMetaDataFails(c)
  <2>1. output' \in OutputType
    BY <1>1, <1>4 DEF ConnectFails, SendMetaDataFails, ConnectionFails, SignalStop,
       OutputType, StopCodes
  <2>2. QED
    BY <1>4, <2>1 DEF ConnectFails, SendMetaDataFails, ConnectionFails, DataOK
<1>5. ResetSemaphore \in StreamType
  <2>1. stream.orphans \cup {n \in SendThreads : pc[n] = "send_wait"}
          \in SUBSET SendThreads
    BY <1>1 DEF StreamType
  <2>2. QED
    BY <1>1, <2>1 DEF ResetSemaphore, StreamType
<1>6. CASE InitSend(c)
  <2>1. PICK n \in SendThreads :
          stream' = [ResetSemaphore EXCEPT !.sendThread = n, !.detached = @ \ {n}]
    BY <1>6 DEF InitSend
  <2>2. ResetSemaphore.detached \ {n}
          \in SUBSET (ConnectThreads \cup SendThreads \cup {NoThread})
    BY <1>5 DEF StreamType
  <2>3. stream' \in StreamType
    BY <1>5, <2>1, <2>2 DEF StreamType
  <2>4. QED
    BY <1>6, <2>3 DEF InitSend, Outside, DataOK
<1>7. CASE InitSendFails(c)
  <2>1. output' \in OutputType
    BY <1>1, <1>7 DEF InitSendFails, SignalStop, OutputType, StopCodes
  <2>2. QED
    BY <1>5, <1>7, <2>1 DEF InitSendFails, DataOK
<1>8. CASE SetActive(c) \/ ClearConnecting(c)
  <2>1. stream' \in StreamType
    BY <1>1, <1>8 DEF SetActive, ClearConnecting, StreamType
  <2>2. QED
    BY <1>8, <2>1 DEF SetActive, ClearConnecting, Outside, DataOK
<1>9. CASE ConnectReturn(c)
  <2>1. stream.detached \cup {stream.connectThread}
          \in SUBSET (ConnectThreads \cup SendThreads \cup {NoThread})
    BY <1>1 DEF StreamType
  <2>2. stream' \in StreamType
    BY <1>1, <1>9, <2>1 DEF ConnectReturn, StreamType
  <2>3. QED
    BY <1>9, <2>2 DEF ConnectReturn, Outside, DataOK
<1>10. CASE BeginDataCapture(c, "connect_return") /\ Silent
  <2>1. output' \in OutputType
    BY <1>1, <1>10 DEF BeginDataCapture, OutputType
  <2>2. QED
    BY <1>10, <2>1 DEF Silent, DataOK
<1>11. CASE BeginActivate(c, "connect_return") /\ Notify(c, "started") /\ UNCHANGED stream
  <2>1. output' \in OutputType
    BY <1>1, <1>11 DEF BeginActivate, OutputType
  <2>2. QED
    BY <1>11, <2>1, NotifyOK DEF Notices, DataOK
<1>12. QED
  BY <1>2, <1>3, <1>4, <1>6, <1>7, <1>8, <1>9, <1>10, <1>11 DEF ConnectStep

\* of send_thread,
LEMMA SendData ==
  ASSUME DataOK, NEW n \in SendThreads, SendStep(n)
  PROVE  DataOK'
<1>1. stream \in StreamType /\ output \in OutputType
  BY DEF DataOK
<1>2. CASE SendWait(n)
  <2>1. stream.sendSem - 1 \in Nat
    BY <1>1, <1>2 DEF SendWait, StreamType
  <2>2. stream' \in StreamType
    BY <1>1, <1>2, <2>1 DEF SendWait, StreamType
  <2>3. QED
    BY <1>2, <2>2 DEF SendWait, Outside, DataOK
<1>3. CASE NextPacket(n)
  <2>1. Tail(stream.packets) \in Seq({"early", "late"})
    BY <1>1, <1>3, HeadTailProperties DEF NextPacket, StreamType
  <2>2. stream' \in StreamType
    BY <1>1, <1>3, <2>1 DEF NextPacket, StreamType
  <2>3. QED
    BY <1>3, <2>2 DEF NextPacket, Outside, DataOK
<1>4. CASE NoPacket(n) \/ SendPacket(n)
  BY <1>4 DEF NoPacket, SendPacket, Outside, DataOK
<1>5. CASE SendFails(n) \/ SendReset(n) \/ SendInactive(n)
  <2>1. stream' \in StreamType
    BY <1>1, <1>5 DEF SendFails, SendReset, SendInactive, StreamType
  <2>2. QED
    BY <1>5, <2>1 DEF SendFails, SendReset, SendInactive, Outside, DataOK
<1>6. CASE SendClose(n)
  <2>1. stream.detached \cup {stream.sendThread}
          \in SUBSET (ConnectThreads \cup SendThreads \cup {NoThread})
    BY <1>1 DEF StreamType
  <2>2. stream' \in StreamType
    BY <1>1, <1>6, <2>1 DEF SendClose, StreamType
  <2>3. output' \in OutputType
    BY <1>1, <1>6 DEF SendClose, SignalStop, OutputType, StopCodes
  <2>4. QED
    BY <1>6, <2>2, <2>3 DEF SendClose, DataOK
<1>7. CASE SendFree(n)
  <2>1. <<>> \in Seq({"early", "late"})
    OBVIOUS
  <2>2. stream' \in StreamType
    BY <1>1, <1>7, <2>1 DEF SendFree, StreamType
  <2>3. QED
    BY <1>7, <2>2 DEF SendFree, Outside, DataOK
<1>8. QED
  BY <1>2, <1>3, <1>4, <1>5, <1>6, <1>7 DEF SendStep

\* of the end of a capture,
LEMMA EndData ==
  ASSUME DataOK, NEW e \in Threads, EndStep(e)
  PROVE  DataOK'
<1>1. output' \in OutputType
  BY
     DEF EndStep, EndDisconnect, EndDeactivate, EndEvent, EndReturn, DataOK,
         OutputType
<1>2. QED
  BY <1>1 DEF EndStep, Silent, DataOK

\* of the encoders and the clock,
LEMMA PacketData ==
  ASSUME DataOK, DataStep \/ TimePasses
  PROVE  DataOK'
<1>1. stream \in StreamType /\ stream.sendSem + 1 \in Nat
  BY DEF DataOK, StreamType
<1>2. CASE DataEnter \/ TimePasses
  <2>1. stream' \in StreamType
    BY <1>1, <1>2 DEF DataEnter, TimePasses, StreamType
  <2>2. QED
    BY <1>2, <2>1 DEF DataEnter, TimePasses, Outside, DataOK
<1>3. ASSUME NEW when \in {"early", "late"}, DataAdd(when) PROVE DataOK'
  <2>1. Append(stream.packets, when) \in Seq({"early", "late"})
    BY <1>1, AppendProperties DEF StreamType
  <2>2. stream' \in StreamType
    BY <1>1, <1>3, <2>1 DEF DataAdd, StreamType
  <2>3. QED
    BY <1>3, <2>2 DEF DataAdd, Outside, DataOK
<1>4. QED
  BY <1>2, <1>3 DEF DataStep

\* and of the slots, the commands and the exit.
LEMMA SlotData ==
  ASSUME DataOK, Command \/ SlotStep \/ SocketDisconnected \/ MainStep
  PROVE  DataOK'
<1>1. /\ stream \in StreamType /\ stream.sendSem + 1 \in Nat
      /\ app \in AppType /\ server \in ServerType
  BY DEF DataOK, StreamType
<1>2. CASE Command
  <2>1. server.commands < MaxCommands => server.commands + 1 \in 0..MaxCommands
    BY <1>1, StreamOutputAssumption DEF ServerType
  <2>2. server' \in ServerType
    BY <1>1, <1>2, <2>1
       DEF Command, StartStreaming, StartStreamingEmpty, StopStreaming, ServerType
  <2>3. QED
    BY <1>2, <2>2
       DEF Command, StartStreaming, StartStreamingEmpty, StopStreaming, DataOK
<1>3. CASE CreateConnect \/ CreateConnectFails
  <2>1. CASE CreateConnect
    <3>1. PICK c \in ConnectThreads :
            stream' = [stream EXCEPT !.connecting = TRUE, !.connectThread = c,
                                     !.detached = @ \ {c}]
      BY <2>1 DEF CreateConnect
    <3>2. stream.detached \ {c}
            \in SUBSET (ConnectThreads \cup SendThreads \cup {NoThread})
      BY <1>1 DEF StreamType
    <3>3. stream' \in StreamType
      BY <1>1, <3>1, <3>2 DEF StreamType
    <3>4. QED
      BY <2>1, <3>3 DEF CreateConnect, Outside, DataOK
  <2>2. CASE CreateConnectFails
    <3>1. stream' \in StreamType
      BY <1>1, <2>2 DEF CreateConnectFails, StreamType
    <3>2. QED
      BY <2>2, <3>1 DEF CreateConnectFails, Outside, DataOK
  <2>3. QED
    BY <1>3, <2>1, <2>2
<1>4. CASE StartFailed
  BY <1>1, <1>4 DEF StartFailed, Received, ServerType, DataOK
<1>5. CASE Deliver
  <2>1. Tail(app.posted) \in Seq(Notices)
    BY <1>1, <1>5, HeadTailProperties DEF Deliver, AppType
  <2>2. app' \in AppType
    BY <1>1, <1>5, <2>1 DEF Deliver, AppType
  <2>3. server' \in ServerType
    BY <1>1, <1>5 DEF Deliver, Received, ServerType
  <2>4. QED
    BY <1>5, <2>2, <2>3 DEF Deliver, DataOK
<1>6. CASE SocketDisconnected \/ ThreadWaited
  <2>1. app' \in AppType
    BY <1>1, <1>6 DEF SocketDisconnected, ThreadWaited, AppType
  <2>2. QED
    BY <1>6, <2>1 DEF SocketDisconnected, ThreadWaited, DataOK
<1>7. CASE \/ RtmpStart \/ ThreadQuits \/ RtmpDestroy \/ JoinConnect \/ JoinSender
           \/ (CanBeginDataCapture(OBS, "create_connect", "start_failed") /\ Silent)
  BY <1>7 DEF RtmpStart, ThreadQuits, RtmpDestroy, JoinConnect, JoinSender,
     CanBeginDataCapture, Silent, Outside, DataOK
<1>8. CASE DestroyStop
  BY <1>1, <1>8 DEF DestroyStop, Outside, StreamType, DataOK
<1>9. CASE DestroyPost
  <2>1. stream' = [stream EXCEPT !.sendSem = stream.sendSem + 1] \/ stream' = stream
    BY <1>9 DEF DestroyPost
  <2>2. stream' \in StreamType
    BY <1>1, <2>1 DEF StreamType
  <2>3. QED
    BY <1>9, <2>2 DEF DestroyPost, Outside, DataOK
<1>10. QED
  BY <1>2, <1>3, <1>4, <1>5, <1>6, <1>7, <1>8, <1>9 DEF SlotStep, MainStep

(***************************************************************************)
(* The result.                                                             *)
(***************************************************************************)
\* Every variable has its type at first.
LEMMA InitTypeOK == Init => TypeOK
<1> SUFFICES ASSUME Init PROVE TypeOK
  OBVIOUS
<1>1. \A t \in Threads : pc[t] \in CodeOf(t) /\ stack[t] \in Seq(ReturnsOf(t))
  BY StreamOutputAssumption
     DEF Init, CodeOf, SlotLabels, MainLabels, Dead
<1>2. ControlOK
  BY <1>1 DEF Init, ControlOK
<1>3. output \in OutputType
  BY DEF Init, ObsOutputCreate, OutputType, StopCodes
<1>4. stream \in StreamType
  BY DEF Init, StreamType
<1>5. app \in AppType /\ server \in ServerType
  BY StreamOutputAssumption DEF Init, AppType, ServerType
<1>6. QED
  BY <1>2, <1>3, <1>4, <1>5 DEF TypeOK

\* Every step keeps it.
LEMMA NextTypeOK == TypeOK /\ [Next]_vars => TypeOK'
<1> SUFFICES ASSUME TypeOK, [Next]_vars PROVE TypeOK'
  OBVIOUS
<1>0. ControlOK /\ DataOK
  BY DEF TypeOK, DataOK
<1>1. SUFFICES ControlOK' /\ DataOK'
  BY DEF TypeOK, DataOK
<1>2. CASE UNCHANGED vars
  BY <1>0, <1>2 DEF vars, control, ControlOK, DataOK
<1>3. CASE Command \/ SocketDisconnected \/ SlotStep \/ MainStep
  BY <1>0, <1>3, SlotControl, SlotData
<1>4. CASE DataStep \/ TimePasses
  <2>1. UNCHANGED control
    BY <1>4 DEF DataStep, DataEnter, DataAdd, TimePasses
  <2>2. QED
    BY <1>0, <1>4, <2>1, PacketData DEF control, ControlOK
<1>5. ASSUME NEW t \in Callers, ObsStep(t) \/ StopStep(t) PROVE ControlOK' /\ DataOK'
  BY <1>0, <1>5, ObsControl, StopControl, ObsData, StopData
<1>6. ASSUME NEW c \in ConnectThreads, ConnectStep(c) PROVE ControlOK' /\ DataOK'
  BY <1>0, <1>6, ConnectControl, ConnectData
<1>7. ASSUME NEW n \in SendThreads, SendStep(n) PROVE ControlOK' /\ DataOK'
  BY <1>0, <1>7, SendControl, SendData
<1>8. ASSUME NEW e \in Threads, EndStep(e) PROVE ControlOK' /\ DataOK'
  BY <1>0, <1>8, EndControl, EndData
<1>9. QED
  BY <1>2, <1>3, <1>4, <1>5, <1>6, <1>7, <1>8 DEF Next

\* Every variable keeps its type, and every thread of a stream stays in the
\* code that it can run and returns to where it was called.
THEOREM TypeCorrect == Spec => []TypeOK
<1>1. QED
  BY InitTypeOK, NextTypeOK, PTL DEF Spec

-----------------------------------------------------------------------------
(***************************************************************************)
(* Places.  How a step of one thread moves them.                           *)
(***************************************************************************)
\* The place of a pool is where its live thread stands.
LEMMA AtAlone ==
  ASSUME NEW T, Alone(T), NEW t \in T, pc[t] # Dead
  PROVE  At(T) = pc[t]
BY DEF At, Alone, Live

\* A pool none of whose threads moves keeps its place.
LEMMA Unmoved ==
  ASSUME NEW T, \A u \in T : pc'[u] = pc[u]
  PROVE  At(T)' = At(T) /\ (Alone(T) => Alone(T)') /\ Live(T)' = Live(T)
<1>1. Live(T)' = Live(T)
  BY DEF Live
<1>2. (CHOOSE t \in Live(T) : TRUE)' = CHOOSE t \in Live(T) : TRUE
  BY <1>1
<1>3. Live(T) # {} => (CHOOSE t \in Live(T) : TRUE) \in T
  BY DEF Live
<1>4. QED
  BY <1>1, <1>2, <1>3 DEF At, Alone

\* A pool all of whose threads but one are dead is where that one is.
LEMMA OnlyOne ==
  ASSUME NEW T, NEW t \in T, NEW l, pc'[t] = l, \A u \in T : u # t => pc'[u] = Dead
  PROVE  At(T)' = l /\ Alone(T)' /\ Live(T)' \subseteq {t}
<1>1. Live(T)' = IF l = Dead THEN {} ELSE {t}
  BY DEF Live
<1>2. QED
  BY <1>1 DEF At, Alone

\* What a move of thread t to l does to the five places, and to the stacks.
Moves(t, l) ==
    /\ Connector' = IF t \in ConnectThreads THEN l ELSE Connector
    /\ Sender'    = IF t \in Present THEN l ELSE Sender
    /\ Ender'     = IF t \in EndThreads THEN l ELSE Ender
    /\ Slot'      = IF t = OBS THEN l ELSE Slot
    /\ Leaver'    = IF t = Main THEN l ELSE Leaver
    /\ Frames' /\ Single'

\* The handles, and what they name, stay.
SameHandles == /\ stream'.connectThread = stream.connectThread
               /\ stream'.sendThread = stream.sendThread
               /\ stream'.orphans = stream.orphans
               /\ output'.endThread = output.endThread

\* A thread that goes on to l with the stack that belongs there.
LEMMA Advances ==
  ASSUME TypeOK, Frames, Single, SameHandles,
         NEW t \in Threads, NEW l, NEW s, s \in FramesAt(t, l),
         pc[t] # Dead, t \notin stream.orphans,
         pc' = [pc EXCEPT ![t] = l], stack' = [stack EXCEPT ![t] = s]
  PROVE  Moves(t, l)
<1>1. /\ pc'[t] = l /\ stack'[t] = s
      /\ \A u \in Threads : u # t => pc'[u] = pc[u] /\ stack'[u] = stack[u]
  BY DEF TypeOK, ControlOK
<1>2. Frames'
  <2>1. ASSUME NEW u \in Threads PROVE stack'[u] \in FramesAt(u, pc'[u])
    BY <1>1, <2>1 DEF Frames
  <2>2. QED
    BY <2>1 DEF Frames
<1>3. Present' = Present
  BY DEF Present, SameHandles
<1>4. ASSUME NEW T \in {ConnectThreads, Present, EndThreads}
      PROVE  /\ At(T)' = IF t \in T THEN l ELSE At(T)
             /\ Alone(T)' /\ Live(T)' \subseteq Live(T)
  <2>1. T \subseteq Threads /\ Alone(T)
    BY StreamOutputAssumption DEF Single, Present
  <2>2. ASSUME t \in T PROVE At(T)' = l /\ Alone(T)' /\ Live(T)' \subseteq Live(T)
    <3>1. Live(T) = {t}
      BY <2>1, <2>2 DEF Alone, Live
    <3>2. \A u \in T : u # t => pc'[u] = Dead
      BY <1>1, <2>1, <3>1 DEF Live
    <3>3. QED
      BY <1>1, <2>2, <3>1, <3>2, OnlyOne
  <2>3. ASSUME t \notin T PROVE At(T)' = At(T) /\ Alone(T)' /\ Live(T)' = Live(T)
    BY <2>1, <2>3, <1>1, Unmoved
  <2>4. QED
    BY <2>2, <2>3
<1>5. Single'
  <2>1. stream.orphans \subseteq Threads
    BY StreamOutputAssumption DEF TypeOK, StreamType
  <2>2. Alone(ConnectThreads)' /\ Alone(Present)' /\ Alone(EndThreads)'
    BY <1>3, <1>4 DEF Alone
  <2>3. Live(ConnectThreads)' \subseteq Live(ConnectThreads)
    BY <1>4
  <2>4. Live(Present)' \subseteq Live(Present)
    BY <1>3, <1>4 DEF Live
  <2>5. Live(EndThreads)' \subseteq Live(EndThreads)
    BY <1>4
  <2>6. QED
    BY <1>1, <2>1, <2>2, <2>3, <2>4, <2>5 DEF Single, SameHandles
<1>6. /\ Slot' = (IF t = OBS THEN l ELSE Slot)
      /\ Leaver' = IF t = Main THEN l ELSE Leaver
  BY <1>1, StreamOutputAssumption DEF Slot, Leaver
<1>7. Sender' = IF t \in Present THEN l ELSE Sender
  BY <1>3, <1>4 DEF Sender, At
<1>8. QED
  BY <1>2, <1>4, <1>5, <1>6, <1>7 DEF Moves, Connector, Ender

\* A Goto that keeps the stack moves one place.
LEMMA GoesTo ==
  ASSUME TypeOK, Frames, Single, SameHandles,
         NEW t \in Threads, NEW l, pc[t] # Dead, t \notin stream.orphans,
         Goto(t, l), FramesAt(t, pc[t]) \subseteq FramesAt(t, l)
  PROVE  Moves(t, l)
<1>1. stack' = [stack EXCEPT ![t] = stack[t]] /\ stack[t] \in FramesAt(t, l)
  BY DEF TypeOK, ControlOK, Goto, Frames
<1>2. QED
  BY <1>1, Advances DEF Goto

\* So does a Call,
LEMMA CallsTo ==
  ASSUME TypeOK, Frames, Single, SameHandles,
         NEW t \in Threads, NEW l, NEW back, pc[t] # Dead, t \notin stream.orphans,
         Call(t, l, back), <<back>> \o stack[t] \in FramesAt(t, l)
  PROVE  Moves(t, l)
BY Advances DEF TypeOK, ControlOK, Call

\* and a Return, to the label on top of the stack.
LEMMA ReturnsTo ==
  ASSUME TypeOK, Frames, Single, SameHandles,
         NEW t \in Threads, pc[t] # Dead, t \notin stream.orphans, Return(t),
         NEW l, NEW s, s \in FramesAt(t, l), Head(stack[t]) = l, Tail(stack[t]) = s
  PROVE  Moves(t, l)
BY Advances DEF Return

\* Each thread stands where its place says.
LEMMA Stands ==
  ASSUME Single, NEW t \in Threads, pc[t] # Dead, t \notin stream.orphans
  PROVE  \/ t = OBS /\ Slot = pc[t]
         \/ t = Main /\ Leaver = pc[t]
         \/ t \in ConnectThreads /\ Connector = pc[t]
         \/ t \in Present /\ Sender = pc[t]
         \/ t \in EndThreads /\ Ender = pc[t]
BY AtAlone, StreamOutputAssumption
   DEF Single, Connector, Sender, Ender, Slot, Leaver, Present

\* An orphan waits.
LEMMA Orphans ==
  ASSUME Single, NEW t, pc[t] # "send_wait"
  PROVE  t \notin stream.orphans
BY DEF Single

\* A step that moves no thread.
LEMMA StaysPut ==
  ASSUME Frames, Single, SameHandles, UNCHANGED control
  PROVE  /\ UNCHANGED <<Connector, Sender, Ender, Slot, Leaver>>
         /\ Frames' /\ Single'
<1>1. Present' = Present
  BY DEF Present, SameHandles
<1>2. /\ At(ConnectThreads)' = At(ConnectThreads) /\ At(EndThreads)' = At(EndThreads)
      /\ Alone(ConnectThreads)' /\ Alone(EndThreads)'
      /\ Live(ConnectThreads)' = Live(ConnectThreads) /\ Live(EndThreads)' = Live(EndThreads)
  BY Unmoved DEF control, Single
<1>3. At(Present)' = At(Present) /\ Alone(Present)' /\ Live(Present)' = Live(Present)
  BY <1>1 DEF control, Single, At, Alone, Live
<1>4. QED
  BY <1>2, <1>3 DEF Connector, Sender, Ender, Slot, Leaver, Frames, Single,
                    SameHandles, control

\* What a call pushes.
LEMMA Push1 ==
  ASSUME NEW a
  PROVE  <<a>> \o <<>> = <<a>>
<1>1. <<a>> \in Seq({a})
  OBVIOUS
<1>2. QED
  BY ONLY <1>1, ConcatEmptySeq

\* Two frames.
LEMMA Push2 ==
  ASSUME NEW a, NEW b
  PROVE  <<a>> \o <<b>> = <<a, b>>
<1> DEFINE S == {a, b}
<1> PICK x : x = <<a>> \o <<b>>
  OBVIOUS
<1> PICK y : y = <<a, b>>
  OBVIOUS
<1>1. <<a>> \in Seq(S) /\ <<b>> \in Seq(S) /\ y \in Seq(S)
  OBVIOUS
<1>2. x \in Seq(S) /\ Len(x) = 2 /\ x[1] = a /\ x[2] = b
  BY <1>1, ConcatProperties
<1>3. Len(y) = 2 /\ y[1] = a /\ y[2] = b
  OBVIOUS
<1>4. \A i \in 1 .. Len(x) : x[i] = y[i]
  BY ONLY <1>2, <1>3
<1> HIDE DEF S
<1>5. x = y
  BY ONLY <1>1, <1>2, <1>3, <1>4, SeqEqual
<1>6. QED
  BY <1>5

\* The five places, each moving from a to b while the others stay.
SlotMoves(a, b) ==
    /\ Slot = a /\ Slot' = b /\ UNCHANGED <<Connector, Sender, Ender, Leaver>>
    /\ Frames' /\ Single'
LeaverMoves(a, b) ==
    /\ Leaver = a /\ Leaver' = b /\ UNCHANGED <<Connector, Sender, Ender, Slot>>
    /\ Frames' /\ Single'
ConnectorMoves(a, b) ==
    /\ Connector = a /\ Connector' = b /\ UNCHANGED <<Sender, Ender, Slot, Leaver>>
    /\ Frames' /\ Single'
SenderMoves(a, b) ==
    /\ Sender = a /\ Sender' = b /\ UNCHANGED <<Connector, Ender, Slot, Leaver>>
    /\ Frames' /\ Single'
EnderMoves(a, b) ==
    /\ Ender = a /\ Ender' = b /\ UNCHANGED <<Connector, Sender, Slot, Leaver>>
    /\ Frames' /\ Single'

\* A thread that goes on with another stack, and one that keeps its stack.
LEMMA SlotAdvances ==
  ASSUME TypeOK, Frames, Single, SameHandles, NEW a, NEW b,
         NEW s, s \in FramesAt(OBS, b), a # Dead, pc[OBS] = a,
         pc' = [pc EXCEPT ![OBS] = b], stack' = [stack EXCEPT ![OBS] = s]
  PROVE  SlotMoves(a, b)
<1>1. OBS \in Threads /\ OBS \notin stream.orphans
  BY StreamOutputAssumption DEF Single, Present, TypeOK, StreamType
<1>2. Moves(OBS, b)
  BY <1>1, Advances
<1>3. Slot = a
  BY DEF Single, Slot
<1>4. QED
  BY <1>2, <1>3, StreamOutputAssumption DEF Moves, SlotMoves, Present

\* The OBS thread goes on with the stack it has,
LEMMA SlotGoes ==
  ASSUME TypeOK, Frames, Single, SameHandles, NEW a, NEW b,
         a # Dead, pc[OBS] = a, Goto(OBS, b), FramesAt(OBS, a) \subseteq FramesAt(OBS, b)
  PROVE  SlotMoves(a, b)
<1>1. OBS \in Threads
  BY StreamOutputAssumption DEF Present
<1>2. stack' = [stack EXCEPT ![OBS] = stack[OBS]] /\ stack[OBS] \in FramesAt(OBS, b)
  BY <1>1 DEF TypeOK, ControlOK, Goto, Frames
<1>3. QED
  BY <1>2, SlotAdvances DEF Goto

\* the main thread goes on to b with the stack that belongs there,
LEMMA LeaverAdvances ==
  ASSUME TypeOK, Frames, Single, SameHandles, NEW a, NEW b,
         NEW s, s \in FramesAt(Main, b), a # Dead, pc[Main] = a,
         pc' = [pc EXCEPT ![Main] = b], stack' = [stack EXCEPT ![Main] = s]
  PROVE  LeaverMoves(a, b)
<1>1. Main \in Threads /\ Main \notin stream.orphans
  BY StreamOutputAssumption DEF Single, Present, TypeOK, StreamType
<1>2. Moves(Main, b)
  BY <1>1, Advances
<1>3. Leaver = a
  BY DEF Single, Leaver
<1>4. QED
  BY <1>2, <1>3, StreamOutputAssumption DEF Moves, LeaverMoves, Present

\* or with the one it has,
LEMMA LeaverGoes ==
  ASSUME TypeOK, Frames, Single, SameHandles, NEW a, NEW b,
         a # Dead, pc[Main] = a, Goto(Main, b), FramesAt(Main, a) \subseteq FramesAt(Main, b)
  PROVE  LeaverMoves(a, b)
<1>1. Main \in Threads
  BY StreamOutputAssumption DEF Present
<1>2. /\ stack' = [stack EXCEPT ![Main] = stack[Main]]
      /\ stack[Main] \in FramesAt(Main, b)
  BY <1>1 DEF TypeOK, ControlOK, Goto, Frames
<1>3. QED
  BY <1>2, LeaverAdvances DEF Goto

\* a connect_thread does the one
LEMMA ConnectorAdvances ==
  ASSUME TypeOK, Frames, Single, SameHandles, NEW c \in ConnectThreads, NEW a, NEW b,
         NEW s, s \in FramesAt(c, b), a # Dead, pc[c] = a,
         pc' = [pc EXCEPT ![c] = b], stack' = [stack EXCEPT ![c] = s]
  PROVE  ConnectorMoves(a, b)
<1>1. c \in Threads /\ c \notin stream.orphans
  BY StreamOutputAssumption DEF Single, Present, TypeOK, StreamType
<1>2. Moves(c, b)
  BY <1>1, Advances
<1>3. Connector = a
  BY AtAlone DEF Single, Connector
<1>4. QED
  BY <1>2, <1>3, StreamOutputAssumption DEF Moves, ConnectorMoves, Present

\* or the other,
LEMMA ConnectorGoes ==
  ASSUME TypeOK, Frames, Single, SameHandles, NEW c \in ConnectThreads, NEW a, NEW b,
         a # Dead, pc[c] = a, Goto(c, b), FramesAt(c, a) \subseteq FramesAt(c, b)
  PROVE  ConnectorMoves(a, b)
<1>1. c \in Threads
  BY StreamOutputAssumption DEF Present
<1>2. stack' = [stack EXCEPT ![c] = stack[c]] /\ stack[c] \in FramesAt(c, b)
  BY <1>1 DEF TypeOK, ControlOK, Goto, Frames
<1>3. QED
  BY <1>2, ConnectorAdvances DEF Goto

\* and so does a send_thread
LEMMA SenderAdvances ==
  ASSUME TypeOK, Frames, Single, SameHandles, NEW n \in Present, NEW a, NEW b,
         NEW s, s \in FramesAt(n, b), a # Dead, pc[n] = a,
         pc' = [pc EXCEPT ![n] = b], stack' = [stack EXCEPT ![n] = s]
  PROVE  SenderMoves(a, b)
<1>1. n \in Threads /\ n \notin stream.orphans
  BY StreamOutputAssumption DEF Single, Present, TypeOK, StreamType
<1>2. Moves(n, b)
  BY <1>1, Advances
<1>3. Sender = a
  BY AtAlone DEF Single, Sender
<1>4. QED
  BY <1>2, <1>3, StreamOutputAssumption DEF Moves, SenderMoves, Present

\* that goes on with its stack,
LEMMA SenderGoes ==
  ASSUME TypeOK, Frames, Single, SameHandles, NEW n \in Present, NEW a, NEW b,
         a # Dead, pc[n] = a, Goto(n, b), FramesAt(n, a) \subseteq FramesAt(n, b)
  PROVE  SenderMoves(a, b)
<1>1. n \in Threads
  BY StreamOutputAssumption DEF Present
<1>2. stack' = [stack EXCEPT ![n] = stack[n]] /\ stack[n] \in FramesAt(n, b)
  BY <1>1 DEF TypeOK, ControlOK, Goto, Frames
<1>3. QED
  BY <1>2, SenderAdvances DEF Goto

\* and the end thread
LEMMA EnderAdvances ==
  ASSUME TypeOK, Frames, Single, SameHandles, NEW e \in EndThreads, NEW a, NEW b,
         NEW s, s \in FramesAt(e, b), a # Dead, pc[e] = a,
         pc' = [pc EXCEPT ![e] = b], stack' = [stack EXCEPT ![e] = s]
  PROVE  EnderMoves(a, b)
<1>1. e \in Threads /\ e \notin stream.orphans
  BY StreamOutputAssumption DEF Single, Present, TypeOK, StreamType
<1>2. Moves(e, b)
  BY <1>1, Advances
<1>3. Ender = a
  BY AtAlone DEF Single, Ender
<1>4. QED
  BY <1>2, <1>3, StreamOutputAssumption DEF Moves, EnderMoves, Present

\* likewise.
LEMMA EnderGoes ==
  ASSUME TypeOK, Frames, Single, SameHandles, NEW e \in EndThreads, NEW a, NEW b,
         a # Dead, pc[e] = a, Goto(e, b), FramesAt(e, a) \subseteq FramesAt(e, b)
  PROVE  EnderMoves(a, b)
<1>1. e \in Threads
  BY StreamOutputAssumption DEF Present
<1>2. stack' = [stack EXCEPT ![e] = stack[e]] /\ stack[e] \in FramesAt(e, b)
  BY <1>1 DEF TypeOK, ControlOK, Goto, Frames
<1>3. QED
  BY <1>2, EnderAdvances DEF Goto

\* No send_thread is on its way out.
LEMMA AtRest ==
  ASSUME TypeOK, Frames, Single, Places, \A n \in SendThreads : ~Closing(n)
  PROVE  Sender \in {Dead} \cup LoopLabels
<1>2. ASSUME NEW n \in Live(Present) PROVE Sender \in LoopLabels
  <2>1. Sender = pc[n] /\ n \in Threads /\ n \in SendThreads
    BY <1>2, AtAlone, StreamOutputAssumption DEF Single, Sender, Live, Present
  <2>2. pc[n] \notin ClosingLabels /\ stack[n] = <<>>
    BY <2>1 DEF Closing
  <2>3. stack[n] \in FramesAt(n, pc[n])
    BY <2>1 DEF Frames
  <2>4. <<"send_free">> # <<>> /\ <<"end_signal", "send_free">> # <<>>
    OBVIOUS
  <2>5. pc[n] # Dead
    BY <1>2 DEF Live
  <2>6. QED
    BY <2>1, <2>2, <2>3, <2>4, <2>5, StreamOutputAssumption
       DEF FramesAt, ClosingLabels, LoopLabels, EndLabels, Freeing, Places, Clearing,
           Creating
<1>3. QED
  BY <1>2 DEF Sender, At

\* A thread steps on to l and creates thread u at m.
Creates(t, l, s, u, m) ==
    /\ pc[t] # Dead /\ t \notin stream.orphans /\ s \in FramesAt(t, l)
    /\ pc[u] = Dead /\ u \notin {t, OBS, Main} /\ <<>> \in FramesAt(u, m)
    /\ pc' = [pc EXCEPT ![t] = l, ![u] = m]
    /\ stack' = [stack EXCEPT ![t] = s]

\* A step that makes a thread moves the two, and leaves the others.
LEMMA Created ==
  ASSUME TypeOK, Frames, NEW t \in Threads, NEW u \in Threads, NEW l, NEW m, NEW s,
         Creates(t, l, s, u, m)
  PROVE  /\ Frames' /\ pc'[t] = l /\ pc'[u] = m
         /\ \A v \in Threads : v \notin {t, u} => pc'[v] = pc[v]
<1>1. /\ pc'[t] = l /\ pc'[u] = m
      /\ stack'[t] = s
      /\ \A v \in Threads : v \notin {t, u} => pc'[v] = pc[v]
      /\ \A v \in Threads : v # t => stack'[v] = stack[v]
  BY DEF TypeOK, ControlOK, Creates
<1>2. stack[u] = <<>>
  <2>1. stack[u] \in FramesAt(u, Dead)
    BY DEF Creates, Frames
  <2>2. QED
    BY <2>1, StreamOutputAssumption DEF Creates, FramesAt, Dead
<1>3. ASSUME NEW v \in Threads PROVE stack'[v] \in FramesAt(v, pc'[v])
  BY <1>1, <1>2, <1>3 DEF Frames, Creates
<1>4. QED
  BY <1>1, <1>3 DEF Frames

\* The parts of InPlace, with the types of what they speak of.
LEMMA Parts ==
  ASSUME TypeOK, InPlace
  PROVE  /\ Frames /\ Single /\ Places /\ Slots /\ Connects /\ OutputFlags
         /\ Senders /\ Stops /\ Leaves /\ View
         /\ output \in OutputType /\ stream \in StreamType /\ app \in AppType
         /\ server \in ServerType
BY DEF TypeOK, InPlace

\* What pthread_join returning says of the end thread and of the send_thread.
LEMMA EndJoined ==
  ASSUME Single, OutputFlags, EndThreadJoined
  PROVE  Ender = Dead
<1>1. ASSUME NEW e \in Live(EndThreads) PROVE FALSE
  <2>1. Ender = pc[e] /\ pc[e] # Dead /\ output.endThread = e /\ e # NoThread
    BY <1>1, AtAlone, ThreadsAssumption DEF Single, Ender, Live
  <2>2. output.endThreadActive
    BY <2>1 DEF OutputFlags
  <2>3. QED
    BY <2>1, <2>2 DEF EndThreadJoined
<1>2. QED
  BY <1>1 DEF Ender, At

\* A send_thread whose handle was not let go is dead when it is joined.
LEMMA SenderJoined ==
  ASSUME Single, Joined(stream.sendThread), Sender # Dead => ~LetGo
  PROVE  Sender = Dead
<1>1. ASSUME NEW n \in Live(Present) PROVE FALSE
  <2>1. Sender = pc[n] /\ pc[n] # Dead /\ stream.sendThread = n /\ n # NoThread
    BY <1>1, AtAlone, ThreadsAssumption, StreamOutputAssumption
       DEF Single, Sender, Live, Present
  <2>2. QED
    BY <2>1 DEF Joined, LetGo
<1>2. QED
  BY <1>1 DEF Sender, At

\* Notifications are told apart, and one is added behind another.
LEMMA OneNotice ==
  ASSUME NEW p
  PROVE  /\ p = <<>> => p \notin {<<"started">>, <<"stopped">>, <<"error">>,
                                  <<"started", "stopped">>, <<"started", "error">>}
         /\ p = <<"started">> => p \notin {<<"stopped">>, <<"error">>,
                                  <<"started", "stopped">>, <<"started", "error">>}
         /\ p \in {<<"stopped">>, <<"error">>} =>
              p \notin {<<"started", "stopped">>, <<"started", "error">>}
OBVIOUS

\* What a notification makes of an empty queue, and of one that holds "started".
LEMMA Posted ==
  ASSUME NEW n
  PROVE  Append(<<>>, n) = <<n>> /\ Append(<<"started">>, n) = <<"started", n>>
<1>1. Append(<<>>, n) = <<n>>
  OBVIOUS
<1>2. <<"started">> \in Seq({"started", n})
  OBVIOUS
<1>3. Append(<<"started">>, n) = <<"started">> \o <<n>>
  BY <1>2, AppendIsConcat
<1>4. QED
  BY <1>1, <1>3, Push2

\* The pools when a thread is created: one that nobody moves in, one that a
\* thread moves in, and one that was empty.
LEMMA ConnectorStays ==
  ASSUME Single, \A u \in ConnectThreads : pc'[u] = pc[u]
  PROVE  /\ Connector' = Connector /\ Alone(ConnectThreads)'
         /\ Live(ConnectThreads)' = Live(ConnectThreads)
BY Unmoved DEF Single, Connector

\* The end thread stays where none of its pool moves,
LEMMA EnderStays ==
  ASSUME Single, \A u \in EndThreads : pc'[u] = pc[u]
  PROVE  Ender' = Ender /\ Alone(EndThreads)' /\ Live(EndThreads)' = Live(EndThreads)
BY Unmoved DEF Single, Ender

\* and so does send_thread, when no thread is orphaned.
LEMMA SenderStays ==
  ASSUME Single, Present' = Present, \A u \in Present : pc'[u] = pc[u]
  PROVE  Sender' = Sender /\ Alone(Present)' /\ Live(Present)' = Live(Present)
<1>1. ASSUME NEW T, T = Present
      PROVE  At(T)' = At(T) /\ Alone(T)' /\ Live(T)' = Live(T)
  BY <1>1, Unmoved DEF Single
<1>2. Live(Present)' = Live(Present)
  BY DEF Live
<1>3. Sender' = Sender
  BY <1>1 DEF Sender, At, Live
<1>4. Alone(Present)'
  BY <1>2 DEF Alone, Single
<1>5. QED
  BY <1>2, <1>3, <1>4

\* A connect_thread that moves is the one of its place,
LEMMA ConnectorSteps ==
  ASSUME Single, NEW c \in ConnectThreads, pc[c] # Dead, NEW l, pc'[c] = l,
         \A u \in ConnectThreads : u # c => pc'[u] = pc[u]
  PROVE  /\ Connector = pc[c] /\ Connector' = l /\ Alone(ConnectThreads)'
         /\ Live(ConnectThreads)' \subseteq {c}
<1>1. \A u \in ConnectThreads : u # c => pc'[u] = Dead
  BY DEF Single, Alone, Live
<1>2. QED
  BY <1>1, OnlyOne, AtAlone DEF Single, Connector

\* and a send_thread is.
LEMMA SenderSteps ==
  ASSUME Single, Present' = Present, NEW n \in Present, pc[n] # Dead, NEW l,
         pc'[n] = l, \A u \in Present : u # n => pc'[u] = pc[u]
  PROVE  /\ Sender = pc[n] /\ Sender' = l /\ Alone(Present)'
         /\ Live(Present)' \subseteq {n}
<1>1. \A u \in Present : u # n => pc'[u] = Dead
  BY DEF Single, Alone, Live
<1>2. Live(Present)' = IF l = Dead THEN {} ELSE {n}
  BY <1>1 DEF Live
<1>3. Sender' = l /\ Alone(Present)'
  BY <1>2 DEF Sender, At, Alone
<1>4. QED
  BY <1>2, <1>3, AtAlone DEF Single, Sender

\* A place that is Dead has a pool that is.
LEMMA Nobody ==
  ASSUME NEW T, Alone(T), At(T) = Dead
  PROVE  \A u \in T : pc[u] = Dead
BY AtAlone

\* The steps that create a thread, with that thread named.
CreateConnectAs(c) ==
    /\ pc[OBS] = "create_connect" /\ stack[OBS] # <<>> /\ pc[c] = Dead
    /\ stream' = [stream EXCEPT !.connecting = TRUE, !.connectThread = c,
                                !.detached = @ \ {c}]
    /\ pc' = [pc EXCEPT ![OBS] = Head(stack[OBS]), ![c] = "init_connect"]
    /\ stack' = [stack EXCEPT ![OBS] = Tail(@)]
    /\ Outside

InitSendAs(c, n) ==
    /\ pc[c] = "init_send" /\ pc[n] = Dead
    /\ stream' = [ResetSemaphore EXCEPT !.sendThread = n, !.detached = @ \ {n}]
    /\ pc' = [pc EXCEPT ![c] = "set_active", ![n] = "send_wait"]
    /\ UNCHANGED stack
    /\ Outside

USE DEF Beginning, Asking, Asked, Reaching, Making, Busy, Done, Clearing, Creating,
        Cutting, Freeing, Forcing, Waiting, Final, Unloading, EndLabels, LoopLabels,
        ClosingLabels, Up, Falling, LetGo, ForcedToStop, stopping, Quiet, Hailed,
        Answered, Both, Dead, Silent, Outside, SlotMoves, LeaverMoves,
        ConnectorMoves, SenderMoves, EnderMoves

\* The start goes through to the output type.
LEMMA ActualStartInPlace ==
  ASSUME TypeOK, InPlace, Patient, ActualStart(OBS), Silent
  PROVE  InPlace'
<1>0. /\ Frames /\ Single /\ Places /\ Slots /\ Connects /\ OutputFlags
      /\ Senders /\ Stops /\ Leaves /\ View
      /\ output \in OutputType /\ stream \in StreamType /\ app \in AppType
      /\ server \in ServerType
  BY Parts
<1>1. SlotMoves("actual_start", "plugin_start")
  <2>1. FramesAt(OBS, "actual_start") \subseteq FramesAt(OBS, "plugin_start")
    BY StreamOutputAssumption DEF FramesAt
  <2>2. SameHandles /\ pc[OBS] = "actual_start" /\ Goto(OBS, "plugin_start")
    BY <1>0, StreamOutputAssumption
       DEF ActualStart, SameHandles, StreamType, OutputType
  <2>3. QED
    BY <1>0, <2>1, <2>2, SlotGoes
<1>2. /\ output' = [output EXCEPT !.stopCode = "success"]
      /\ UNCHANGED <<stream, app, server>>
  BY DEF ActualStart
<1>10. Places'
  BY <1>0, <1>1, <1>2 DEF Places, OutputType
<1>11. Slots'
  BY <1>0, <1>1, <1>2 DEF Slots, OutputType
<1>12. Connects'
  BY <1>0, <1>1, <1>2 DEF Connects, OutputType
<1>13. OutputFlags'
  BY <1>0, <1>1, <1>2 DEF OutputFlags, OutputType
<1>14. Senders'
  BY <1>0, <1>1, <1>2 DEF Senders, OutputType
<1>15. Stops'
  BY <1>0, <1>1, <1>2 DEF Stops, OutputType
<1>16. Leaves'
  BY <1>0, <1>1, <1>2 DEF Leaves, OutputType
<1>17. View'
  BY <1>0, <1>1, <1>2 DEF View, OutputType
<1>18. QED
  BY <1>1, <1>10, <1>11, <1>12, <1>13, <1>14, <1>15, <1>16, <1>17 DEF InPlace

\* A stop is asked for,
LEMMA StopAsksInPlace ==
  ASSUME TypeOK, InPlace, Patient, ObsOutputStop(OBS), Silent, output.active,
         ~stopping
  PROVE  InPlace'
<1>0. /\ Frames /\ Single /\ Places /\ Slots /\ Connects /\ OutputFlags
      /\ Senders /\ Stops /\ Leaves /\ View
      /\ output \in OutputType /\ stream \in StreamType /\ app \in AppType
      /\ server \in ServerType
  BY Parts
<1>1. SlotMoves("obs_stop", "actual_stop")
  <2>1. FramesAt(OBS, "obs_stop") \subseteq FramesAt(OBS, "actual_stop")
    BY StreamOutputAssumption DEF FramesAt
  <2>2. SameHandles /\ pc[OBS] = "obs_stop" /\ Goto(OBS, "actual_stop")
    BY <1>0, StreamOutputAssumption
       DEF ObsOutputStop, SameHandles, StreamType, OutputType
  <2>3. QED
    BY <1>0, <2>1, <2>2, SlotGoes
<1>2. UNCHANGED <<output, stream, app, server>>
  BY DEF ObsOutputStop
<1>10. Places'
  BY <1>0, <1>1, <1>2 DEF Places
<1>11. Slots'
  BY <1>0, <1>1, <1>2 DEF Slots
<1>12. Connects'
  BY <1>0, <1>1, <1>2 DEF Connects
<1>13. OutputFlags'
  BY <1>0, <1>1, <1>2 DEF OutputFlags
<1>14. Senders'
  BY <1>0, <1>1, <1>2 DEF Senders
<1>15. Stops'
  BY <1>0, <1>1, <1>2 DEF Stops
<1>16. Leaves'
  BY <1>0, <1>1, <1>2 DEF Leaves
<1>17. View'
  BY <1>0, <1>1, <1>2 DEF View
<1>18. QED
  BY <1>1, <1>10, <1>11, <1>12, <1>13, <1>14, <1>15, <1>16, <1>17 DEF InPlace

\* or one is under way.
LEMMA StopReturnsInPlace ==
  ASSUME TypeOK, InPlace, Patient, ObsOutputStop(OBS), Silent,
         ~(output.active /\ ~stopping)
  PROVE  InPlace'
<1>0. /\ Frames /\ Single /\ Places /\ Slots /\ Connects /\ OutputFlags
      /\ Senders /\ Stops /\ Leaves /\ View
      /\ output \in OutputType /\ stream \in StreamType /\ app \in AppType
      /\ server \in ServerType
  BY Parts
<1>1. SlotMoves("obs_stop", "idle")
  <2>1. pc[OBS] = "obs_stop" /\ Return(OBS) /\ SameHandles
    BY <1>0, StreamOutputAssumption
       DEF ObsOutputStop, SameHandles, StreamType, OutputType
  <2>2. stack[OBS] = <<"idle">>
    BY <1>0, <2>1, StreamOutputAssumption DEF Frames, FramesAt
  <2>3. Head(stack[OBS]) = "idle" /\ Tail(stack[OBS]) = <<>>
    BY ONLY <2>2
  <2>4. <<>> \in FramesAt(OBS, "idle")
    BY StreamOutputAssumption DEF FramesAt
  <2>5. pc' = [pc EXCEPT ![OBS] = "idle"] /\ stack' = [stack EXCEPT ![OBS] = <<>>]
    BY <2>1, <2>3 DEF Return
  <2>6. QED
    BY <1>0, <2>1, <2>4, <2>5, SlotAdvances
<1>2. UNCHANGED <<output, stream, app, server>>
  BY DEF ObsOutputStop
<1>10. Places'
  BY <1>0, <1>1, <1>2 DEF Places
<1>11. Slots'
  BY <1>0, <1>1, <1>2 DEF Slots
<1>12. Connects'
  BY <1>0, <1>1, <1>2 DEF Connects
<1>13. OutputFlags'
  BY <1>0, <1>1, <1>2 DEF OutputFlags
<1>14. Senders'
  BY <1>0, <1>1, <1>2 DEF Senders
<1>15. Stops'
  BY <1>0, <1>1, <1>2 DEF Stops
<1>16. Leaves'
  BY <1>0, <1>1, <1>2 DEF Leaves
<1>17. View'
  BY <1>0, <1>1, <1>2 DEF View
<1>18. QED
  BY <1>1, <1>10, <1>11, <1>12, <1>13, <1>14, <1>15, <1>16, <1>17 DEF InPlace

\* It goes through to the output type,
LEMMA ActualStopInPlace ==
  ASSUME TypeOK, InPlace, Patient, ActualStop(OBS), Silent, ~stopping
  PROVE  InPlace'
<1>0. /\ Frames /\ Single /\ Places /\ Slots /\ Connects /\ OutputFlags
      /\ Senders /\ Stops /\ Leaves /\ View
      /\ output \in OutputType /\ stream \in StreamType /\ app \in AppType
      /\ server \in ServerType
  BY Parts
<1>1. SlotMoves("actual_stop", "plugin_stop")
  <2>1. FramesAt(OBS, "actual_stop") \subseteq FramesAt(OBS, "plugin_stop")
    BY StreamOutputAssumption DEF FramesAt
  <2>2. SameHandles /\ pc[OBS] = "actual_stop" /\ Goto(OBS, "plugin_stop")
    BY <1>0, StreamOutputAssumption
       DEF ActualStop, SameHandles, StreamType, OutputType
  <2>3. QED
    BY <1>0, <2>1, <2>2, SlotGoes
<1>2. /\ output' = [output EXCEPT !.stoppingEvent = FALSE]
      /\ UNCHANGED <<stream, app, server>>
  BY DEF ActualStop
<1>10. Places'
  BY <1>0, <1>1, <1>2 DEF Places, OutputType
<1>11. Slots'
  BY <1>0, <1>1, <1>2 DEF Slots, OutputType
<1>12. Connects'
  BY <1>0, <1>1, <1>2 DEF Connects, OutputType
<1>13. OutputFlags'
  BY <1>0, <1>1, <1>2
     DEF OutputFlags, Places, Connects, Senders, Slots, Leaves, OutputType
<1>14. Senders'
  BY <1>0, <1>1, <1>2 DEF Senders, OutputType
<1>15. Stops'
  BY <1>0, <1>1, <1>2 DEF Stops, OutputType
<1>16. Leaves'
  BY <1>0, <1>1, <1>2 DEF Leaves, OutputType
<1>17. View'
  BY <1>0, <1>1, <1>2 DEF View, OutputType
<1>18. QED
  BY <1>1, <1>10, <1>11, <1>12, <1>13, <1>14, <1>15, <1>16, <1>17 DEF InPlace

\* or another has.
LEMMA ActualStopReturnsInPlace ==
  ASSUME TypeOK, InPlace, Patient, ActualStop(OBS), Silent, stopping
  PROVE  InPlace'
<1>0. /\ Frames /\ Single /\ Places /\ Slots /\ Connects /\ OutputFlags
      /\ Senders /\ Stops /\ Leaves /\ View
      /\ output \in OutputType /\ stream \in StreamType /\ app \in AppType
      /\ server \in ServerType
  BY Parts
<1>1. SlotMoves("actual_stop", "idle")
  <2>1. pc[OBS] = "actual_stop" /\ Return(OBS) /\ SameHandles
    BY <1>0, StreamOutputAssumption
       DEF ActualStop, SameHandles, StreamType, OutputType
  <2>2. stack[OBS] = <<"idle">>
    BY <1>0, <2>1, StreamOutputAssumption DEF Frames, FramesAt
  <2>3. Head(stack[OBS]) = "idle" /\ Tail(stack[OBS]) = <<>>
    BY ONLY <2>2
  <2>4. <<>> \in FramesAt(OBS, "idle")
    BY StreamOutputAssumption DEF FramesAt
  <2>5. pc' = [pc EXCEPT ![OBS] = "idle"] /\ stack' = [stack EXCEPT ![OBS] = <<>>]
    BY <2>1, <2>3 DEF Return
  <2>6. QED
    BY <1>0, <2>1, <2>4, <2>5, SlotAdvances
<1>2. UNCHANGED <<output, stream, app, server>>
  BY DEF ActualStop
<1>10. Places'
  BY <1>0, <1>1, <1>2 DEF Places
<1>11. Slots'
  BY <1>0, <1>1, <1>2 DEF Slots
<1>12. Connects'
  BY <1>0, <1>1, <1>2 DEF Connects
<1>13. OutputFlags'
  BY <1>0, <1>1, <1>2 DEF OutputFlags
<1>14. Senders'
  BY <1>0, <1>1, <1>2 DEF Senders
<1>15. Stops'
  BY <1>0, <1>1, <1>2 DEF Stops
<1>16. Leaves'
  BY <1>0, <1>1, <1>2 DEF Leaves
<1>17. View'
  BY <1>0, <1>1, <1>2 DEF View
<1>18. QED
  BY <1>1, <1>10, <1>11, <1>12, <1>13, <1>14, <1>15, <1>16, <1>17 DEF InPlace

\* A forced stop is asked for.
LEMMA ForceAsksInPlace ==
  ASSUME TypeOK, InPlace, Patient, ObsOutputForceStop(OBS), Silent
  PROVE  InPlace'
<1>0. /\ Frames /\ Single /\ Places /\ Slots /\ Connects /\ OutputFlags
      /\ Senders /\ Stops /\ Leaves /\ View
      /\ output \in OutputType /\ stream \in StreamType /\ app \in AppType
      /\ server \in ServerType
  BY Parts
<1>1. SlotMoves("obs_force_stop", "actual_force_stop")
  <2>1. FramesAt(OBS, "obs_force_stop") \subseteq FramesAt(OBS, "actual_force_stop")
    BY StreamOutputAssumption DEF FramesAt
  <2>2. SameHandles /\ pc[OBS] = "obs_force_stop" /\ Goto(OBS, "actual_force_stop")
    BY <1>0, StreamOutputAssumption
       DEF ObsOutputForceStop, SameHandles, StreamType, OutputType
  <2>3. QED
    BY <1>0, <2>1, <2>2, SlotGoes
<1>2. output' \in {output, [output EXCEPT !.stopCode = "success"]}
      /\ UNCHANGED <<stream, app, server>>
  BY DEF ObsOutputForceStop
<1>10. Places'
  BY <1>0, <1>1, <1>2 DEF Places, OutputType
<1>11. Slots'
  BY <1>0, <1>1, <1>2 DEF Slots, OutputType
<1>12. Connects'
  BY <1>0, <1>1, <1>2 DEF Connects, OutputType
<1>13. OutputFlags'
  BY <1>0, <1>1, <1>2 DEF OutputFlags, OutputType
<1>14. Senders'
  BY <1>0, <1>1, <1>2 DEF Senders, OutputType
<1>15. Stops'
  BY <1>0, <1>1, <1>2 DEF Stops, OutputType
<1>16. Leaves'
  BY <1>0, <1>1, <1>2 DEF Leaves, OutputType
<1>17. View'
  BY <1>0, <1>1, <1>2 DEF View, OutputType
<1>18. QED
  BY <1>1, <1>10, <1>11, <1>12, <1>13, <1>14, <1>15, <1>16, <1>17 DEF InPlace

\* It goes through to the output type.
LEMMA ActualForceInPlace ==
  ASSUME TypeOK, InPlace, Patient, ActualForceStop(OBS), Silent
  PROVE  InPlace'
<1>0. /\ Frames /\ Single /\ Places /\ Slots /\ Connects /\ OutputFlags
      /\ Senders /\ Stops /\ Leaves /\ View
      /\ output \in OutputType /\ stream \in StreamType /\ app \in AppType
      /\ server \in ServerType
  BY Parts
<1>1. SlotMoves("actual_force_stop", "plugin_force_stop")
  <2>1. FramesAt(OBS, "actual_force_stop") \subseteq FramesAt(OBS, "plugin_force_stop")
    BY StreamOutputAssumption DEF FramesAt
  <2>2. SameHandles /\ pc[OBS] = "actual_force_stop" /\ Goto(OBS, "plugin_force_stop")
    BY <1>0, StreamOutputAssumption
       DEF ActualForceStop, SameHandles, StreamType, OutputType
  <2>3. QED
    BY <1>0, <2>1, <2>2, SlotGoes
<1>2. /\ output' = [output EXCEPT !.stoppingEvent = FALSE]
      /\ UNCHANGED <<stream, app, server>>
  BY DEF ActualForceStop
<1>10. Places'
  BY <1>0, <1>1, <1>2 DEF Places, OutputType
<1>11. Slots'
  BY <1>0, <1>1, <1>2 DEF Slots, OutputType
<1>12. Connects'
  BY <1>0, <1>1, <1>2 DEF Connects, OutputType
<1>13. OutputFlags'
  BY <1>0, <1>1, <1>2
     DEF OutputFlags, Places, Connects, Senders, Slots, Leaves, OutputType
<1>14. Senders'
  BY <1>0, <1>1, <1>2 DEF Senders, OutputType
<1>15. Stops'
  BY <1>0, <1>1, <1>2 DEF Stops, OutputType
<1>16. Leaves'
  BY <1>0, <1>1, <1>2 DEF Leaves, OutputType
<1>17. View'
  BY <1>0, <1>1, <1>2 DEF View, OutputType
<1>18. QED
  BY <1>1, <1>10, <1>11, <1>12, <1>13, <1>14, <1>15, <1>16, <1>17 DEF InPlace

\* The stop event is raised,
LEMMA RtmpStopInPlace ==
  ASSUME TypeOK, InPlace, Patient, RtmpStop(OBS)
  PROVE  InPlace'
<1>0. /\ Frames /\ Single /\ Places /\ Slots /\ Connects /\ OutputFlags
      /\ Senders /\ Stops /\ Leaves /\ View
      /\ output \in OutputType /\ stream \in StreamType /\ app \in AppType
      /\ server \in ServerType
  BY Parts
<1>1. SlotMoves("plugin_stop", "set_timeout")
  <2>1. FramesAt(OBS, "plugin_stop") \subseteq FramesAt(OBS, "set_timeout")
    BY StreamOutputAssumption DEF FramesAt
  <2>2. SameHandles /\ pc[OBS] = "plugin_stop" /\ Goto(OBS, "set_timeout")
    BY <1>0, StreamOutputAssumption DEF RtmpStop, SameHandles, StreamType, OutputType
  <2>3. QED
    BY <1>0, <2>1, <2>2, SlotGoes
<1>2. stream' = [stream EXCEPT !.stopTs = "set", !.stopEvent = TRUE]
      /\ UNCHANGED <<output, app, server>>
  BY DEF RtmpStop
<1>10. Places'
  BY <1>0, <1>1, <1>2 DEF Places, StreamType
<1>11. Slots'
  BY <1>0, <1>1, <1>2 DEF Slots, StreamType
<1>12. Connects'
  BY <1>0, <1>1, <1>2 DEF Connects, StreamType
<1>13. OutputFlags'
  BY <1>0, <1>1, <1>2 DEF OutputFlags, StreamType
<1>14. Senders'
  BY <1>0, <1>1, <1>2
     DEF Senders, Places, Connects, OutputFlags, Slots, Leaves, Stops, StreamType
<1>15. Stops'
  BY <1>0, <1>1, <1>2 DEF Stops, Places, Slots, Senders, StreamType
<1>16. Leaves'
  BY <1>0, <1>1, <1>2 DEF Leaves, Places, Slots, OutputFlags, StreamType
<1>17. View'
  BY <1>0, <1>1, <1>2 DEF View, StreamType
<1>18. QED
  BY <1>1, <1>10, <1>11, <1>12, <1>13, <1>14, <1>15, <1>16, <1>17 DEF InPlace

\* then the time-out stored.
LEMMA SetTimeoutInPlace ==
  ASSUME TypeOK, InPlace, Patient, SetTimeout(OBS)
  PROVE  InPlace'
<1>0. /\ Frames /\ Single /\ Places /\ Slots /\ Connects /\ OutputFlags
      /\ Senders /\ Stops /\ Leaves /\ View
      /\ output \in OutputType /\ stream \in StreamType /\ app \in AppType
      /\ server \in ServerType
  BY Parts
<1>1. SlotMoves("set_timeout", "idle")
  <2>1. pc[OBS] = "set_timeout" /\ Return(OBS) /\ SameHandles
    BY <1>0, StreamOutputAssumption
       DEF SetTimeout, SameHandles, StreamType, OutputType
  <2>2. stack[OBS] = <<"idle">>
    BY <1>0, <2>1, StreamOutputAssumption DEF Frames, FramesAt
  <2>3. Head(stack[OBS]) = "idle" /\ Tail(stack[OBS]) = <<>>
    BY ONLY <2>2
  <2>4. <<>> \in FramesAt(OBS, "idle")
    BY StreamOutputAssumption DEF FramesAt
  <2>5. pc' = [pc EXCEPT ![OBS] = "idle"] /\ stack' = [stack EXCEPT ![OBS] = <<>>]
    BY <2>1, <2>3 DEF Return
  <2>6. QED
    BY <1>0, <2>1, <2>4, <2>5, SlotAdvances
<1>2. /\ stream' = [stream EXCEPT !.timeout = "future"]
      /\ UNCHANGED <<output, app, server>>
  BY DEF SetTimeout
<1>10. Places'
  BY <1>0, <1>1, <1>2 DEF Places, StreamType
<1>11. Slots'
  BY <1>0, <1>1, <1>2 DEF Slots, StreamType
<1>12. Connects'
  BY <1>0, <1>1, <1>2 DEF Connects, StreamType
<1>13. OutputFlags'
  BY <1>0, <1>1, <1>2 DEF OutputFlags, StreamType
<1>14. Senders'
  BY <1>0, <1>1, <1>2 DEF Senders, StreamType
<1>15. Stops'
  BY <1>0, <1>1, <1>2 DEF Stops, StreamType
<1>16. Leaves'
  BY <1>0, <1>1, <1>2 DEF Leaves, StreamType
<1>17. View'
  BY <1>0, <1>1, <1>2 DEF View, StreamType
<1>18. QED
  BY <1>1, <1>10, <1>11, <1>12, <1>13, <1>14, <1>15, <1>16, <1>17 DEF InPlace

\* A forced stop raises the event,
LEMMA RtmpForceInPlace ==
  ASSUME TypeOK, InPlace, Patient, RtmpForceStop(OBS)
  PROVE  InPlace'
<1>0. /\ Frames /\ Single /\ Places /\ Slots /\ Connects /\ OutputFlags
      /\ Senders /\ Stops /\ Leaves /\ View
      /\ output \in OutputType /\ stream \in StreamType /\ app \in AppType
      /\ server \in ServerType
  BY Parts
<1>1. SlotMoves("plugin_force_stop", "force_post")
  <2>1. FramesAt(OBS, "plugin_force_stop") \subseteq FramesAt(OBS, "force_post")
    BY StreamOutputAssumption DEF FramesAt
  <2>2. SameHandles /\ pc[OBS] = "plugin_force_stop" /\ Goto(OBS, "force_post")
    BY <1>0, StreamOutputAssumption
       DEF RtmpForceStop, SameHandles, StreamType, OutputType
  <2>3. QED
    BY <1>0, <2>1, <2>2, SlotGoes
<1>2. stream' = [stream EXCEPT !.stopTs = "forced", !.stopEvent = TRUE]
      /\ UNCHANGED <<output, app, server>>
  BY DEF RtmpForceStop
<1>10. Places'
  BY <1>0, <1>1, <1>2 DEF Places, StreamType
<1>11. Slots'
  BY <1>0, <1>1, <1>2 DEF Slots, StreamType
<1>12. Connects'
  BY <1>0, <1>1, <1>2 DEF Connects, StreamType
<1>13. OutputFlags'
  BY <1>0, <1>1, <1>2 DEF OutputFlags, StreamType
<1>14. Senders'
  BY <1>0, <1>1, <1>2 DEF Senders, StreamType
<1>15. Stops'
  BY <1>0, <1>1, <1>2 DEF Stops, Places, Slots, Senders, StreamType
<1>16. Leaves'
  BY <1>0, <1>1, <1>2 DEF Leaves, Places, Slots, OutputFlags, StreamType
<1>17. View'
  BY <1>0, <1>1, <1>2 DEF View, StreamType
<1>18. QED
  BY <1>1, <1>10, <1>11, <1>12, <1>13, <1>14, <1>15, <1>16, <1>17 DEF InPlace

\* then posts the semaphore.
LEMMA ForcePostInPlace ==
  ASSUME TypeOK, InPlace, Patient, ForcePost(OBS)
  PROVE  InPlace'
<1>0. /\ Frames /\ Single /\ Places /\ Slots /\ Connects /\ OutputFlags
      /\ Senders /\ Stops /\ Leaves /\ View
      /\ output \in OutputType /\ stream \in StreamType /\ app \in AppType
      /\ server \in ServerType
  BY Parts
<1>1. SlotMoves("force_post", "idle")
  <2>1. pc[OBS] = "force_post" /\ Return(OBS) /\ SameHandles
    BY <1>0, StreamOutputAssumption DEF ForcePost, SameHandles, StreamType, OutputType
  <2>2. stack[OBS] = <<"idle">>
    BY <1>0, <2>1, StreamOutputAssumption DEF Frames, FramesAt
  <2>3. Head(stack[OBS]) = "idle" /\ Tail(stack[OBS]) = <<>>
    BY ONLY <2>2
  <2>4. <<>> \in FramesAt(OBS, "idle")
    BY StreamOutputAssumption DEF FramesAt
  <2>5. pc' = [pc EXCEPT ![OBS] = "idle"] /\ stack' = [stack EXCEPT ![OBS] = <<>>]
    BY <2>1, <2>3 DEF Return
  <2>6. QED
    BY <1>0, <2>1, <2>4, <2>5, SlotAdvances
<1>2. stream' = [stream EXCEPT !.sendSem = IF stream.active THEN @ + 1 ELSE @]
      /\ UNCHANGED <<output, app, server>>
  BY DEF ForcePost
<1>10. Places'
  BY <1>0, <1>1, <1>2 DEF Places, StreamType
<1>11. Slots'
  BY <1>0, <1>1, <1>2 DEF Slots, StreamType
<1>12. Connects'
  BY <1>0, <1>1, <1>2 DEF Connects, StreamType
<1>13. OutputFlags'
  BY <1>0, <1>1, <1>2 DEF OutputFlags, StreamType
<1>14. Senders'
  BY <1>0, <1>1, <1>2
     DEF Senders, Places, Connects, OutputFlags, Slots, Leaves, Stops, StreamType
<1>15. Stops'
  BY <1>0, <1>1, <1>2 DEF Stops, StreamType
<1>16. Leaves'
  BY <1>0, <1>1, <1>2 DEF Leaves, StreamType
<1>17. View'
  BY <1>0, <1>1, <1>2 DEF View, StreamType
<1>18. QED
  BY <1>1, <1>10, <1>11, <1>12, <1>13, <1>14, <1>15, <1>16, <1>17 DEF InPlace

\* The start asks libobs.
LEMMA RtmpStartInPlace ==
  ASSUME TypeOK, InPlace, Patient, RtmpStart
  PROVE  InPlace'
<1>0. /\ Frames /\ Single /\ Places /\ Slots /\ Connects /\ OutputFlags
      /\ Senders /\ Stops /\ Leaves /\ View
      /\ output \in OutputType /\ stream \in StreamType /\ app \in AppType
      /\ server \in ServerType
  BY Parts
<1>1. SlotMoves("plugin_start", "can_begin")
  <2>1. FramesAt(OBS, "plugin_start") \subseteq FramesAt(OBS, "can_begin")
    BY StreamOutputAssumption DEF FramesAt
  <2>2. SameHandles /\ pc[OBS] = "plugin_start" /\ Goto(OBS, "can_begin")
    BY <1>0, StreamOutputAssumption DEF RtmpStart, SameHandles, StreamType, OutputType
  <2>3. QED
    BY <1>0, <2>1, <2>2, SlotGoes
<1>2. UNCHANGED <<output, stream, app, server>>
  BY DEF RtmpStart
<1>10. Places'
  BY <1>0, <1>1, <1>2 DEF Places
<1>11. Slots'
  BY <1>0, <1>1, <1>2 DEF Slots
<1>12. Connects'
  BY <1>0, <1>1, <1>2 DEF Connects
<1>13. OutputFlags'
  BY <1>0, <1>1, <1>2 DEF OutputFlags
<1>14. Senders'
  BY <1>0, <1>1, <1>2 DEF Senders
<1>15. Stops'
  BY <1>0, <1>1, <1>2 DEF Stops
<1>16. Leaves'
  BY <1>0, <1>1, <1>2 DEF Leaves
<1>17. View'
  BY <1>0, <1>1, <1>2 DEF View
<1>18. QED
  BY <1>1, <1>10, <1>11, <1>12, <1>13, <1>14, <1>15, <1>16, <1>17 DEF InPlace

\* The capture may begin: what was before it has ended.
LEMMA CanBeginInPlace ==
  ASSUME TypeOK, InPlace, Patient,
         CanBeginDataCapture(OBS, "create_connect", "start_failed"), Silent,
         ~output.active
  PROVE  InPlace'
<1>0. /\ Frames /\ Single /\ Places /\ Slots /\ Connects /\ OutputFlags
      /\ Senders /\ Stops /\ Leaves /\ View
      /\ output \in OutputType /\ stream \in StreamType /\ app \in AppType
      /\ server \in ServerType
  BY Parts
<1>1. SlotMoves("can_begin", "create_connect")
  <2>1. FramesAt(OBS, "can_begin") \subseteq FramesAt(OBS, "create_connect")
    BY StreamOutputAssumption DEF FramesAt
  <2>2. SameHandles /\ pc[OBS] = "can_begin" /\ Goto(OBS, "create_connect")
    BY <1>0, StreamOutputAssumption
       DEF CanBeginDataCapture, SameHandles, StreamType, OutputType
  <2>3. QED
    BY <1>0, <2>1, <2>2, SlotGoes
<1>2. ~output.active /\ UNCHANGED <<output, stream, app, server>>
  BY DEF CanBeginDataCapture
<1>5. Ender = Dead
  <2>1. EndThreadJoined
    BY DEF CanBeginDataCapture
  <2>2. QED
    BY <1>0, <2>1, EndJoined
<1>10. Places'
  BY <1>0, <1>1, <1>2, <1>5 DEF Places
<1>11. Slots'
  BY <1>0, <1>1, <1>2, <1>5 DEF Slots
<1>12. Connects'
  BY <1>0, <1>1, <1>2, <1>5 DEF Connects
<1>13. OutputFlags'
  BY <1>0, <1>1, <1>2, <1>5 DEF OutputFlags
<1>14. Senders'
  BY <1>0, <1>1, <1>2, <1>5 DEF Senders
<1>15. Stops'
  BY <1>0, <1>1, <1>2, <1>5 DEF Stops
<1>16. Leaves'
  BY <1>0, <1>1, <1>2, <1>5 DEF Leaves
<1>17. View'
  BY <1>0, <1>1, <1>2, <1>5 DEF View
<1>18. QED
  BY <1>1, <1>10, <1>11, <1>12, <1>13, <1>14, <1>15, <1>16, <1>17 DEF InPlace

\* It may not.
LEMMA CannotBeginInPlace ==
  ASSUME TypeOK, InPlace, Patient,
         CanBeginDataCapture(OBS, "create_connect", "start_failed"), Silent,
         output.active
  PROVE  InPlace'
<1>0. /\ Frames /\ Single /\ Places /\ Slots /\ Connects /\ OutputFlags
      /\ Senders /\ Stops /\ Leaves /\ View
      /\ output \in OutputType /\ stream \in StreamType /\ app \in AppType
      /\ server \in ServerType
  BY Parts
<1>1. SlotMoves("can_begin", "start_failed")
  <2>1. FramesAt(OBS, "can_begin") \subseteq FramesAt(OBS, "start_failed")
    BY StreamOutputAssumption DEF FramesAt
  <2>2. SameHandles /\ pc[OBS] = "can_begin" /\ Goto(OBS, "start_failed")
    BY <1>0, StreamOutputAssumption
       DEF CanBeginDataCapture, SameHandles, StreamType, OutputType
  <2>3. QED
    BY <1>0, <2>1, <2>2, SlotGoes
<1>2. UNCHANGED <<output, stream, app, server>>
  BY DEF CanBeginDataCapture
<1>10. Places'
  BY <1>0, <1>1, <1>2 DEF Places
<1>11. Slots'
  BY <1>0, <1>1, <1>2 DEF Slots
<1>12. Connects'
  BY <1>0, <1>1, <1>2 DEF Connects
<1>13. OutputFlags'
  BY <1>0, <1>1, <1>2 DEF OutputFlags
<1>14. Senders'
  BY <1>0, <1>1, <1>2 DEF Senders
<1>15. Stops'
  BY <1>0, <1>1, <1>2 DEF Stops
<1>16. Leaves'
  BY <1>0, <1>1, <1>2 DEF Leaves
<1>17. View'
  BY <1>0, <1>1, <1>2 DEF View
<1>18. QED
  BY <1>1, <1>10, <1>11, <1>12, <1>13, <1>14, <1>15, <1>16, <1>17 DEF InPlace

\* The connect_thread cannot be created.
LEMMA CreateConnectFailsInPlace ==
  ASSUME TypeOK, InPlace, Patient, CreateConnectFails
  PROVE  InPlace'
<1>0. /\ Frames /\ Single /\ Places /\ Slots /\ Connects /\ OutputFlags
      /\ Senders /\ Stops /\ Leaves /\ View
      /\ output \in OutputType /\ stream \in StreamType /\ app \in AppType
      /\ server \in ServerType
  BY Parts
<1>1. SlotMoves("create_connect", "start_failed")
  <2>1. FramesAt(OBS, "create_connect") \subseteq FramesAt(OBS, "start_failed")
    BY StreamOutputAssumption DEF FramesAt
  <2>2. SameHandles /\ pc[OBS] = "create_connect" /\ Goto(OBS, "start_failed")
    BY <1>0, StreamOutputAssumption
       DEF CreateConnectFails, SameHandles, StreamType, OutputType
  <2>3. QED
    BY <1>0, <2>1, <2>2, SlotGoes
<1>2. /\ stream' = [stream EXCEPT !.connecting = TRUE]
      /\ UNCHANGED <<output, app, server>>
  BY DEF CreateConnectFails
<1>10. Places'
  BY <1>0, <1>1, <1>2 DEF Places, StreamType
<1>11. Slots'
  BY <1>0, <1>1, <1>2 DEF Slots, StreamType
<1>12. Connects'
  BY <1>0, <1>1, <1>2 DEF Connects, StreamType
<1>13. OutputFlags'
  BY <1>0, <1>1, <1>2 DEF OutputFlags, StreamType
<1>14. Senders'
  BY <1>0, <1>1, <1>2 DEF Senders, StreamType
<1>15. Stops'
  BY <1>0, <1>1, <1>2 DEF Stops, StreamType
<1>16. Leaves'
  BY <1>0, <1>1, <1>2 DEF Leaves, StreamType
<1>17. View'
  BY <1>0, <1>1, <1>2 DEF View, StreamType
<1>18. QED
  BY <1>1, <1>10, <1>11, <1>12, <1>13, <1>14, <1>15, <1>16, <1>17 DEF InPlace

\* The server is told.
LEMMA StartFailedInPlace ==
  ASSUME TypeOK, InPlace, Patient, StartFailed
  PROVE  InPlace'
<1>0. /\ Frames /\ Single /\ Places /\ Slots /\ Connects /\ OutputFlags
      /\ Senders /\ Stops /\ Leaves /\ View
      /\ output \in OutputType /\ stream \in StreamType /\ app \in AppType
      /\ server \in ServerType
  BY Parts
<1>1. SlotMoves("start_failed", "idle")
  <2>1. pc[OBS] = "start_failed" /\ Return(OBS) /\ SameHandles
    BY <1>0, StreamOutputAssumption
       DEF StartFailed, SameHandles, StreamType, OutputType
  <2>2. stack[OBS] = <<"idle">>
    BY <1>0, <2>1, StreamOutputAssumption DEF Frames, FramesAt
  <2>3. Head(stack[OBS]) = "idle" /\ Tail(stack[OBS]) = <<>>
    BY ONLY <2>2
  <2>4. <<>> \in FramesAt(OBS, "idle")
    BY StreamOutputAssumption DEF FramesAt
  <2>5. pc' = [pc EXCEPT ![OBS] = "idle"] /\ stack' = [stack EXCEPT ![OBS] = <<>>]
    BY <2>1, <2>3 DEF Return
  <2>6. QED
    BY <1>0, <2>1, <2>4, <2>5, SlotAdvances
<1>2. server' = [server EXCEPT !.view = "idle"] /\ UNCHANGED <<output, stream, app>>
  BY DEF StartFailed, Received
<1>10. Places'
  BY <1>0, <1>1, <1>2 DEF Places, ServerType
<1>11. Slots'
  BY <1>0, <1>1, <1>2 DEF Slots, ServerType
<1>12. Connects'
  BY <1>0, <1>1, <1>2 DEF Connects, ServerType
<1>13. OutputFlags'
  BY <1>0, <1>1, <1>2 DEF OutputFlags, ServerType
<1>14. Senders'
  BY <1>0, <1>1, <1>2 DEF Senders, ServerType
<1>15. Stops'
  BY <1>0, <1>1, <1>2 DEF Stops, ServerType
<1>16. Leaves'
  BY <1>0, <1>1, <1>2 DEF Leaves, ServerType
<1>17. View'
  BY <1>0, <1>1, <1>2 DEF View, Places, Slots, Connects, ServerType
<1>18. QED
  BY <1>1, <1>10, <1>11, <1>12, <1>13, <1>14, <1>15, <1>16, <1>17 DEF InPlace

\* The socket drops while nothing, or only a stream, goes on.
LEMMA SocketDropsInPlace ==
  ASSUME TypeOK, InPlace, Patient, NoHastyExit, SocketDisconnected
  PROVE  InPlace'
<1>0. /\ Frames /\ Single /\ Places /\ Slots /\ Connects /\ OutputFlags
      /\ Senders /\ Stops /\ Leaves /\ View
      /\ output \in OutputType /\ stream \in StreamType /\ app \in AppType
      /\ server \in ServerType
  BY Parts
<1>1. LeaverMoves("loop", "wait_thread")
  <2>1. FramesAt(Main, "loop") \subseteq FramesAt(Main, "wait_thread")
    BY StreamOutputAssumption DEF FramesAt
  <2>2. SameHandles /\ pc[Main] = "loop" /\ Goto(Main, "wait_thread")
    BY <1>0, StreamOutputAssumption
       DEF SocketDisconnected, SameHandles, StreamType, OutputType
  <2>3. QED
    BY <1>0, <2>1, <2>2, LeaverGoes
<1>2. app' = [app EXCEPT !.quitting = TRUE] /\ UNCHANGED <<output, stream, server>>
  BY DEF SocketDisconnected
<1>5. /\ Slot = "idle" /\ Connector = Dead /\ Ender = Dead
      /\ Sender \in {Dead} \cup LoopLabels /\ server.view \in {"idle", "streaming"}
  <2>1. Steady
    BY DEF SocketDisconnected, NoHastyExit, Patient
  <2>2. Sender \in {Dead} \cup LoopLabels
    BY <1>0, <2>1, AtRest DEF Steady, Drained, Settled
  <2>3. QED
    BY <2>1, <2>2 DEF Steady, Drained, Settled, Slot, Connector, Ender, At
<1>10. Places'
  BY <1>0, <1>1, <1>2, <1>5 DEF Places, AppType
<1>11. Slots'
  BY <1>0, <1>1, <1>2, <1>5 DEF Slots, AppType
<1>12. Connects'
  BY <1>0, <1>1, <1>2, <1>5 DEF Connects, AppType
<1>13. OutputFlags'
  BY <1>0, <1>1, <1>2, <1>5 DEF OutputFlags, AppType
<1>14. Senders'
  BY <1>0, <1>1, <1>2, <1>5 DEF Senders, AppType
<1>15. Stops'
  BY <1>0, <1>1, <1>2, <1>5 DEF Stops, AppType
<1>16. Leaves'
  BY <1>0, <1>1, <1>2, <1>5
     DEF Leaves, Places, Slots, Connects, OutputFlags, Senders, Stops, View, AppType
<1>17. View'
  BY <1>0, <1>1, <1>2, <1>5 DEF View, AppType
<1>18. QED
  BY <1>1, <1>10, <1>11, <1>12, <1>13, <1>14, <1>15, <1>16, <1>17 DEF InPlace

\* The event loop of the OBS thread ends.
LEMMA ThreadQuitsInPlace ==
  ASSUME TypeOK, InPlace, Patient, ThreadQuits
  PROVE  InPlace'
<1>0. /\ Frames /\ Single /\ Places /\ Slots /\ Connects /\ OutputFlags
      /\ Senders /\ Stops /\ Leaves /\ View
      /\ output \in OutputType /\ stream \in StreamType /\ app \in AppType
      /\ server \in ServerType
  BY Parts
<1>4. app.quitting
  BY DEF ThreadQuits
<1>1. SlotMoves("idle", "dead")
  <2>1. FramesAt(OBS, "idle") \subseteq FramesAt(OBS, "dead")
    BY StreamOutputAssumption DEF FramesAt
  <2>2. SameHandles /\ pc[OBS] = "idle" /\ Goto(OBS, "dead")
    BY <1>0, <1>4, StreamOutputAssumption
       DEF ThreadQuits, SameHandles, StreamType, OutputType
  <2>3. QED
    BY <1>0, <2>1, <2>2, SlotGoes
<1>2. UNCHANGED <<output, stream, app, server>>
  BY <1>4 DEF ThreadQuits
<1>10. Places'
  BY <1>0, <1>1, <1>2, <1>4 DEF Places
<1>11. Slots'
  BY <1>0, <1>1, <1>2, <1>4 DEF Slots
<1>12. Connects'
  BY <1>0, <1>1, <1>2, <1>4 DEF Connects, Places, Slots, OutputFlags
<1>13. OutputFlags'
  BY <1>0, <1>1, <1>2, <1>4 DEF OutputFlags
<1>14. Senders'
  BY <1>0, <1>1, <1>2, <1>4 DEF Senders
<1>15. Stops'
  BY <1>0, <1>1, <1>2, <1>4 DEF Stops, Places, Slots, Senders
<1>16. Leaves'
  BY <1>0, <1>1, <1>2, <1>4 DEF Leaves
<1>17. View'
  BY <1>0, <1>1, <1>2, <1>4 DEF View
<1>18. QED
  BY <1>1, <1>10, <1>11, <1>12, <1>13, <1>14, <1>15, <1>16, <1>17 DEF InPlace

\* It has: the output is released.
LEMMA ThreadWaitedInPlace ==
  ASSUME TypeOK, InPlace, Patient, ThreadWaited
  PROVE  InPlace'
<1>0. /\ Frames /\ Single /\ Places /\ Slots /\ Connects /\ OutputFlags
      /\ Senders /\ Stops /\ Leaves /\ View
      /\ output \in OutputType /\ stream \in StreamType /\ app \in AppType
      /\ server \in ServerType
  BY Parts
<1>1. LeaverMoves("wait_thread", "destroy")
  <2>1. pc[Main] = "wait_thread" /\ Call(Main, "destroy", "exited") /\ SameHandles
    BY <1>0, StreamOutputAssumption
       DEF ThreadWaited, SameHandles, StreamType, OutputType
  <2>2. stack[Main] = <<>>
    BY <1>0, <2>1, StreamOutputAssumption DEF Frames, FramesAt
  <2>3. <<"exited">> \o <<>> = <<"exited">>
    BY Push1, Push2
  <2>4. <<"exited">> \in FramesAt(Main, "destroy")
    BY StreamOutputAssumption DEF FramesAt
  <2>5. /\ pc' = [pc EXCEPT ![Main] = "destroy"]
        /\ stack' = [stack EXCEPT ![Main] = <<"exited">>]
    BY <2>1, <2>2, <2>3 DEF Call
  <2>6. QED
    BY <1>0, <2>1, <2>4, <2>5, LeaverAdvances
<1>2. app' = [app EXCEPT !.connected = FALSE] /\ UNCHANGED <<output, stream, server>>
  BY DEF ThreadWaited
<1>5. Slot = Dead
  BY <1>0, <1>1 DEF ThreadWaited, SpendsASecond, Slots, Slot
<1>10. Places'
  BY <1>0, <1>1, <1>2, <1>5 DEF Places, AppType
<1>11. Slots'
  BY <1>0, <1>1, <1>2, <1>5 DEF Slots, AppType
<1>12. Connects'
  BY <1>0, <1>1, <1>2, <1>5 DEF Connects, AppType
<1>13. OutputFlags'
  BY <1>0, <1>1, <1>2, <1>5 DEF OutputFlags, AppType
<1>14. Senders'
  BY <1>0, <1>1, <1>2, <1>5 DEF Senders, AppType
<1>15. Stops'
  BY <1>0, <1>1, <1>2, <1>5 DEF Stops, AppType
<1>16. Leaves'
  BY <1>0, <1>1, <1>2, <1>5 DEF Leaves, AppType
<1>17. View'
  BY <1>0, <1>1, <1>2, <1>5 DEF View, AppType
<1>18. QED
  BY <1>1, <1>10, <1>11, <1>12, <1>13, <1>14, <1>15, <1>16, <1>17 DEF InPlace

\* A stream that runs is stopped first,
LEMMA DestroyActiveInPlace ==
  ASSUME TypeOK, InPlace, Patient, Destroy(Main), Silent, output.active
  PROVE  InPlace'
<1>0. /\ Frames /\ Single /\ Places /\ Slots /\ Connects /\ OutputFlags
      /\ Senders /\ Stops /\ Leaves /\ View
      /\ output \in OutputType /\ stream \in StreamType /\ app \in AppType
      /\ server \in ServerType
  BY Parts
<1>1. LeaverMoves("destroy", "actual_force_stop")
  <2>1. /\ pc[Main] = "destroy"
        /\ Call(Main, "actual_force_stop", "destroy_wait")
        /\ SameHandles
    BY <1>0, StreamOutputAssumption DEF Destroy, SameHandles, StreamType, OutputType
  <2>2. stack[Main] = <<"exited">>
    BY <1>0, <2>1, StreamOutputAssumption DEF Frames, FramesAt
  <2>3. <<"destroy_wait">> \o <<"exited">> = <<"destroy_wait", "exited">>
    BY Push1, Push2
  <2>4. <<"destroy_wait", "exited">> \in FramesAt(Main, "actual_force_stop")
    BY StreamOutputAssumption DEF FramesAt
  <2>5. /\ pc' = [pc EXCEPT ![Main] = "actual_force_stop"]
        /\ stack' = [stack EXCEPT ![Main] = <<"destroy_wait", "exited">>]
    BY <2>1, <2>2, <2>3 DEF Call
  <2>6. QED
    BY <1>0, <2>1, <2>4, <2>5, LeaverAdvances
<1>2. UNCHANGED <<output, stream, app, server>>
  BY DEF Destroy
<1>10. Places'
  BY <1>0, <1>1, <1>2 DEF Places
<1>11. Slots'
  BY <1>0, <1>1, <1>2 DEF Slots
<1>12. Connects'
  BY <1>0, <1>1, <1>2 DEF Connects
<1>13. OutputFlags'
  BY <1>0, <1>1, <1>2 DEF OutputFlags
<1>14. Senders'
  BY <1>0, <1>1, <1>2 DEF Senders
<1>15. Stops'
  BY <1>0, <1>1, <1>2 DEF Stops
<1>16. Leaves'
  BY <1>0, <1>1, <1>2 DEF Leaves, Places, Slots, OutputFlags
<1>17. View'
  BY <1>0, <1>1, <1>2 DEF View
<1>18. QED
  BY <1>1, <1>10, <1>11, <1>12, <1>13, <1>14, <1>15, <1>16, <1>17 DEF InPlace

\* one that does not need not be.
LEMMA DestroyIdleInPlace ==
  ASSUME TypeOK, InPlace, Patient, Destroy(Main), Silent, ~output.active
  PROVE  InPlace'
<1>0. /\ Frames /\ Single /\ Places /\ Slots /\ Connects /\ OutputFlags
      /\ Senders /\ Stops /\ Leaves /\ View
      /\ output \in OutputType /\ stream \in StreamType /\ app \in AppType
      /\ server \in ServerType
  BY Parts
<1>1. LeaverMoves("destroy", "destroy_wait")
  <2>1. FramesAt(Main, "destroy") \subseteq FramesAt(Main, "destroy_wait")
    BY StreamOutputAssumption DEF FramesAt
  <2>2. SameHandles /\ pc[Main] = "destroy" /\ Goto(Main, "destroy_wait")
    BY <1>0, StreamOutputAssumption DEF Destroy, SameHandles, StreamType, OutputType
  <2>3. QED
    BY <1>0, <2>1, <2>2, LeaverGoes
<1>2. UNCHANGED <<output, stream, app, server>>
  BY DEF Destroy
<1>10. Places'
  BY <1>0, <1>1, <1>2 DEF Places
<1>11. Slots'
  BY <1>0, <1>1, <1>2 DEF Slots
<1>12. Connects'
  BY <1>0, <1>1, <1>2 DEF Connects
<1>13. OutputFlags'
  BY <1>0, <1>1, <1>2 DEF OutputFlags
<1>14. Senders'
  BY <1>0, <1>1, <1>2 DEF Senders
<1>15. Stops'
  BY <1>0, <1>1, <1>2 DEF Stops
<1>16. Leaves'
  BY <1>0, <1>1, <1>2 DEF Leaves, Places, Slots, OutputFlags, Senders, Stops, Connects
<1>17. View'
  BY <1>0, <1>1, <1>2 DEF View
<1>18. QED
  BY <1>1, <1>10, <1>11, <1>12, <1>13, <1>14, <1>15, <1>16, <1>17 DEF InPlace

\* The main thread resets the event,
LEMMA ActualForceMainInPlace ==
  ASSUME TypeOK, InPlace, Patient, ActualForceStop(Main), Silent
  PROVE  InPlace'
<1>0. /\ Frames /\ Single /\ Places /\ Slots /\ Connects /\ OutputFlags
      /\ Senders /\ Stops /\ Leaves /\ View
      /\ output \in OutputType /\ stream \in StreamType /\ app \in AppType
      /\ server \in ServerType
  BY Parts
<1>1. LeaverMoves("actual_force_stop", "plugin_force_stop")
  <2>1. FramesAt(Main, "actual_force_stop") \subseteq FramesAt(Main, "plugin_force_stop")
    BY StreamOutputAssumption DEF FramesAt
  <2>2. /\ SameHandles
        /\ pc[Main] = "actual_force_stop"
        /\ Goto(Main, "plugin_force_stop")
    BY <1>0, StreamOutputAssumption
       DEF ActualForceStop, SameHandles, StreamType, OutputType
  <2>3. QED
    BY <1>0, <2>1, <2>2, LeaverGoes
<1>2. /\ output' = [output EXCEPT !.stoppingEvent = FALSE]
      /\ UNCHANGED <<stream, app, server>>
  BY DEF ActualForceStop
<1>10. Places'
  BY <1>0, <1>1, <1>2 DEF Places, OutputType
<1>11. Slots'
  BY <1>0, <1>1, <1>2 DEF Slots, OutputType
<1>12. Connects'
  BY <1>0, <1>1, <1>2 DEF Connects, OutputType
<1>13. OutputFlags'
  BY <1>0, <1>1, <1>2
     DEF OutputFlags, Places, Connects, Senders, Slots, Leaves, OutputType
<1>14. Senders'
  BY <1>0, <1>1, <1>2 DEF Senders, OutputType
<1>15. Stops'
  BY <1>0, <1>1, <1>2 DEF Stops, OutputType
<1>16. Leaves'
  BY <1>0, <1>1, <1>2 DEF Leaves, OutputType
<1>17. View'
  BY <1>0, <1>1, <1>2 DEF View, OutputType
<1>18. QED
  BY <1>1, <1>10, <1>11, <1>12, <1>13, <1>14, <1>15, <1>16, <1>17 DEF InPlace

\* raises the other,
LEMMA RtmpForceMainInPlace ==
  ASSUME TypeOK, InPlace, Patient, RtmpForceStop(Main)
  PROVE  InPlace'
<1>0. /\ Frames /\ Single /\ Places /\ Slots /\ Connects /\ OutputFlags
      /\ Senders /\ Stops /\ Leaves /\ View
      /\ output \in OutputType /\ stream \in StreamType /\ app \in AppType
      /\ server \in ServerType
  BY Parts
<1>1. LeaverMoves("plugin_force_stop", "force_post")
  <2>1. FramesAt(Main, "plugin_force_stop") \subseteq FramesAt(Main, "force_post")
    BY StreamOutputAssumption DEF FramesAt
  <2>2. SameHandles /\ pc[Main] = "plugin_force_stop" /\ Goto(Main, "force_post")
    BY <1>0, StreamOutputAssumption
       DEF RtmpForceStop, SameHandles, StreamType, OutputType
  <2>3. QED
    BY <1>0, <2>1, <2>2, LeaverGoes
<1>2. stream' = [stream EXCEPT !.stopTs = "forced", !.stopEvent = TRUE]
      /\ UNCHANGED <<output, app, server>>
  BY DEF RtmpForceStop
<1>10. Places'
  BY <1>0, <1>1, <1>2 DEF Places, StreamType
<1>11. Slots'
  BY <1>0, <1>1, <1>2 DEF Slots, StreamType
<1>12. Connects'
  BY <1>0, <1>1, <1>2 DEF Connects, StreamType
<1>13. OutputFlags'
  BY <1>0, <1>1, <1>2 DEF OutputFlags, StreamType
<1>14. Senders'
  BY <1>0, <1>1, <1>2 DEF Senders, StreamType
<1>15. Stops'
  BY <1>0, <1>1, <1>2
     DEF Stops, Places, Slots, Senders, Connects, Leaves, View, StreamType
<1>16. Leaves'
  BY <1>0, <1>1, <1>2 DEF Leaves, StreamType
<1>17. View'
  BY <1>0, <1>1, <1>2 DEF View, Places, Slots, Connects, StreamType
<1>18. QED
  BY <1>1, <1>10, <1>11, <1>12, <1>13, <1>14, <1>15, <1>16, <1>17 DEF InPlace

\* and posts the semaphore.
LEMMA ForcePostMainInPlace ==
  ASSUME TypeOK, InPlace, Patient, ForcePost(Main)
  PROVE  InPlace'
<1>0. /\ Frames /\ Single /\ Places /\ Slots /\ Connects /\ OutputFlags
      /\ Senders /\ Stops /\ Leaves /\ View
      /\ output \in OutputType /\ stream \in StreamType /\ app \in AppType
      /\ server \in ServerType
  BY Parts
<1>1. LeaverMoves("force_post", "destroy_wait")
  <2>1. pc[Main] = "force_post" /\ Return(Main) /\ SameHandles
    BY <1>0, StreamOutputAssumption DEF ForcePost, SameHandles, StreamType, OutputType
  <2>2. stack[Main] = <<"destroy_wait", "exited">>
    BY <1>0, <2>1, StreamOutputAssumption DEF Frames, FramesAt
  <2>3. Head(stack[Main]) = "destroy_wait" /\ Tail(stack[Main]) = <<"exited">>
    BY ONLY <2>2
  <2>4. <<"exited">> \in FramesAt(Main, "destroy_wait")
    BY StreamOutputAssumption DEF FramesAt
  <2>5. /\ pc' = [pc EXCEPT ![Main] = "destroy_wait"]
        /\ stack' = [stack EXCEPT ![Main] = <<"exited">>]
    BY <2>1, <2>3 DEF Return
  <2>6. QED
    BY <1>0, <2>1, <2>4, <2>5, LeaverAdvances
<1>2. stream' = [stream EXCEPT !.sendSem = IF stream.active THEN @ + 1 ELSE @]
      /\ UNCHANGED <<output, app, server>>
  BY DEF ForcePost
<1>10. Places'
  BY <1>0, <1>1, <1>2 DEF Places, StreamType
<1>11. Slots'
  BY <1>0, <1>1, <1>2 DEF Slots, StreamType
<1>12. Connects'
  BY <1>0, <1>1, <1>2 DEF Connects, StreamType
<1>13. OutputFlags'
  BY <1>0, <1>1, <1>2 DEF OutputFlags, StreamType
<1>14. Senders'
  BY <1>0, <1>1, <1>2
     DEF Senders, Places, Connects, OutputFlags, Slots, Leaves, Stops, StreamType
<1>15. Stops'
  BY <1>0, <1>1, <1>2 DEF Stops, StreamType
<1>16. Leaves'
  BY <1>0, <1>1, <1>2 DEF Leaves, StreamType
<1>17. View'
  BY <1>0, <1>1, <1>2 DEF View, StreamType
<1>18. QED
  BY <1>1, <1>10, <1>11, <1>12, <1>13, <1>14, <1>15, <1>16, <1>17 DEF InPlace

\* The capture is waited for,
LEMMA DestroyWaitInPlace ==
  ASSUME TypeOK, InPlace, Patient, DestroyWait(Main), Silent
  PROVE  InPlace'
<1>0. /\ Frames /\ Single /\ Places /\ Slots /\ Connects /\ OutputFlags
      /\ Senders /\ Stops /\ Leaves /\ View
      /\ output \in OutputType /\ stream \in StreamType /\ app \in AppType
      /\ server \in ServerType
  BY Parts
<1>1. LeaverMoves("destroy_wait", "destroy_join")
  <2>1. FramesAt(Main, "destroy_wait") \subseteq FramesAt(Main, "destroy_join")
    BY StreamOutputAssumption DEF FramesAt
  <2>2. SameHandles /\ pc[Main] = "destroy_wait" /\ Goto(Main, "destroy_join")
    BY <1>0, StreamOutputAssumption
       DEF DestroyWait, SameHandles, StreamType, OutputType
  <2>3. QED
    BY <1>0, <2>1, <2>2, LeaverGoes
<1>2. output.stoppingEvent /\ UNCHANGED <<output, stream, app, server>>
  BY DEF DestroyWait
<1>10. Places'
  BY <1>0, <1>1, <1>2 DEF Places
<1>11. Slots'
  BY <1>0, <1>1, <1>2 DEF Slots
<1>12. Connects'
  BY <1>0, <1>1, <1>2 DEF Connects
<1>13. OutputFlags'
  BY <1>0, <1>1, <1>2 DEF OutputFlags
<1>14. Senders'
  BY <1>0, <1>1, <1>2 DEF Senders
<1>15. Stops'
  BY <1>0, <1>1, <1>2 DEF Stops
<1>16. Leaves'
  BY <1>0, <1>1, <1>2 DEF Leaves
<1>17. View'
  BY <1>0, <1>1, <1>2 DEF View
<1>18. QED
  BY <1>1, <1>10, <1>11, <1>12, <1>13, <1>14, <1>15, <1>16, <1>17 DEF InPlace

\* and its end thread.
LEMMA DestroyJoinInPlace ==
  ASSUME TypeOK, InPlace, Patient, DestroyJoin(Main), Silent
  PROVE  InPlace'
<1>0. /\ Frames /\ Single /\ Places /\ Slots /\ Connects /\ OutputFlags
      /\ Senders /\ Stops /\ Leaves /\ View
      /\ output \in OutputType /\ stream \in StreamType /\ app \in AppType
      /\ server \in ServerType
  BY Parts
<1>1. LeaverMoves("destroy_join", "plugin_destroy")
  <2>1. FramesAt(Main, "destroy_join") \subseteq FramesAt(Main, "plugin_destroy")
    BY StreamOutputAssumption DEF FramesAt
  <2>2. SameHandles /\ pc[Main] = "destroy_join" /\ Goto(Main, "plugin_destroy")
    BY <1>0, StreamOutputAssumption
       DEF DestroyJoin, SameHandles, StreamType, OutputType
  <2>3. QED
    BY <1>0, <2>1, <2>2, LeaverGoes
<1>2. UNCHANGED <<output, stream, app, server>>
  BY DEF DestroyJoin
<1>5. Ender = Dead
  <2>1. EndThreadJoined
    BY DEF DestroyJoin
  <2>2. QED
    BY <1>0, <2>1, EndJoined
<1>10. Places'
  BY <1>0, <1>1, <1>2, <1>5 DEF Places
<1>11. Slots'
  BY <1>0, <1>1, <1>2, <1>5 DEF Slots
<1>12. Connects'
  BY <1>0, <1>1, <1>2, <1>5 DEF Connects
<1>13. OutputFlags'
  BY <1>0, <1>1, <1>2, <1>5 DEF OutputFlags
<1>14. Senders'
  BY <1>0, <1>1, <1>2, <1>5 DEF Senders
<1>15. Stops'
  BY <1>0, <1>1, <1>2, <1>5 DEF Stops
<1>16. Leaves'
  BY <1>0, <1>1, <1>2, <1>5 DEF Leaves
<1>17. View'
  BY <1>0, <1>1, <1>2, <1>5 DEF View
<1>18. QED
  BY <1>1, <1>10, <1>11, <1>12, <1>13, <1>14, <1>15, <1>16, <1>17 DEF InPlace

\* rtmp_stream_destroy joins a send_thread that was told to stop,
LEMMA DestroyToldInPlace ==
  ASSUME TypeOK, InPlace, Patient, RtmpDestroy, stream.stopEvent, ~stream.connecting
  PROVE  InPlace'
<1>0. /\ Frames /\ Single /\ Places /\ Slots /\ Connects /\ OutputFlags
      /\ Senders /\ Stops /\ Leaves /\ View
      /\ output \in OutputType /\ stream \in StreamType /\ app \in AppType
      /\ server \in ServerType
  BY Parts
<1>1. LeaverMoves("plugin_destroy", "join_sender")
  <2>1. FramesAt(Main, "plugin_destroy") \subseteq FramesAt(Main, "join_sender")
    BY StreamOutputAssumption DEF FramesAt
  <2>2. SameHandles /\ pc[Main] = "plugin_destroy" /\ Goto(Main, "join_sender")
    BY <1>0, StreamOutputAssumption
       DEF RtmpDestroy, SameHandles, StreamType, OutputType
  <2>3. QED
    BY <1>0, <2>1, <2>2, LeaverGoes
<1>2. UNCHANGED <<output, stream, app, server>>
  BY DEF RtmpDestroy
<1>10. Places'
  BY <1>0, <1>1, <1>2 DEF Places
<1>11. Slots'
  BY <1>0, <1>1, <1>2 DEF Slots
<1>12. Connects'
  BY <1>0, <1>1, <1>2 DEF Connects
<1>13. OutputFlags'
  BY <1>0, <1>1, <1>2 DEF OutputFlags
<1>14. Senders'
  BY <1>0, <1>1, <1>2 DEF Senders, Places, Connects, OutputFlags, Slots, Leaves, Stops
<1>15. Stops'
  BY <1>0, <1>1, <1>2 DEF Stops
<1>16. Leaves'
  BY <1>0, <1>1, <1>2 DEF Leaves
<1>17. View'
  BY <1>0, <1>1, <1>2 DEF View
<1>18. QED
  BY <1>1, <1>10, <1>11, <1>12, <1>13, <1>14, <1>15, <1>16, <1>17 DEF InPlace

\* a connect_thread,
LEMMA DestroyConnectingInPlace ==
  ASSUME TypeOK, InPlace, Patient, RtmpDestroy, stream.connecting
  PROVE  InPlace'
<1>0. /\ Frames /\ Single /\ Places /\ Slots /\ Connects /\ OutputFlags
      /\ Senders /\ Stops /\ Leaves /\ View
      /\ output \in OutputType /\ stream \in StreamType /\ app \in AppType
      /\ server \in ServerType
  BY Parts
<1>1. LeaverMoves("plugin_destroy", "join_connect")
  <2>1. FramesAt(Main, "plugin_destroy") \subseteq FramesAt(Main, "join_connect")
    BY StreamOutputAssumption DEF FramesAt
  <2>2. SameHandles /\ pc[Main] = "plugin_destroy" /\ Goto(Main, "join_connect")
    BY <1>0, StreamOutputAssumption
       DEF RtmpDestroy, SameHandles, StreamType, OutputType
  <2>3. QED
    BY <1>0, <2>1, <2>2, LeaverGoes
<1>2. UNCHANGED <<output, stream, app, server>>
  BY DEF RtmpDestroy
<1>10. Places'
  BY <1>0, <1>1, <1>2 DEF Places
<1>11. Slots'
  BY <1>0, <1>1, <1>2 DEF Slots
<1>12. Connects'
  BY <1>0, <1>1, <1>2 DEF Connects
<1>13. OutputFlags'
  BY <1>0, <1>1, <1>2 DEF OutputFlags
<1>14. Senders'
  BY <1>0, <1>1, <1>2 DEF Senders
<1>15. Stops'
  BY <1>0, <1>1, <1>2 DEF Stops
<1>16. Leaves'
  BY <1>0, <1>1, <1>2 DEF Leaves
<1>17. View'
  BY <1>0, <1>1, <1>2 DEF View
<1>18. QED
  BY <1>1, <1>10, <1>11, <1>12, <1>13, <1>14, <1>15, <1>16, <1>17 DEF InPlace

\* stops what is left,
LEMMA DestroySendingInPlace ==
  ASSUME TypeOK, InPlace, Patient, RtmpDestroy, stream.active, ~stream.stopEvent,
         ~stream.connecting
  PROVE  InPlace'
<1>0. /\ Frames /\ Single /\ Places /\ Slots /\ Connects /\ OutputFlags
      /\ Senders /\ Stops /\ Leaves /\ View
      /\ output \in OutputType /\ stream \in StreamType /\ app \in AppType
      /\ server \in ServerType
  BY Parts
<1>1. LeaverMoves("plugin_destroy", "destroy_stop")
  <2>1. FramesAt(Main, "plugin_destroy") \subseteq FramesAt(Main, "destroy_stop")
    BY StreamOutputAssumption DEF FramesAt
  <2>2. SameHandles /\ pc[Main] = "plugin_destroy" /\ Goto(Main, "destroy_stop")
    BY <1>0, StreamOutputAssumption
       DEF RtmpDestroy, SameHandles, StreamType, OutputType
  <2>3. QED
    BY <1>0, <2>1, <2>2, LeaverGoes
<1>2. UNCHANGED <<output, stream, app, server>>
  BY DEF RtmpDestroy
<1>10. Places'
  BY <1>0, <1>1, <1>2 DEF Places
<1>11. Slots'
  BY <1>0, <1>1, <1>2 DEF Slots
<1>12. Connects'
  BY <1>0, <1>1, <1>2 DEF Connects
<1>13. OutputFlags'
  BY <1>0, <1>1, <1>2 DEF OutputFlags
<1>14. Senders'
  BY <1>0, <1>1, <1>2 DEF Senders
<1>15. Stops'
  BY <1>0, <1>1, <1>2 DEF Stops
<1>16. Leaves'
  BY <1>0, <1>1, <1>2 DEF Leaves
<1>17. View'
  BY <1>0, <1>1, <1>2 DEF View
<1>18. QED
  BY <1>1, <1>10, <1>11, <1>12, <1>13, <1>14, <1>15, <1>16, <1>17 DEF InPlace

\* or finds nothing.
LEMMA DestroyNothingInPlace ==
  ASSUME TypeOK, InPlace, Patient, RtmpDestroy, ~stream.active, ~stream.stopEvent,
         ~stream.connecting
  PROVE  InPlace'
<1>0. /\ Frames /\ Single /\ Places /\ Slots /\ Connects /\ OutputFlags
      /\ Senders /\ Stops /\ Leaves /\ View
      /\ output \in OutputType /\ stream \in StreamType /\ app \in AppType
      /\ server \in ServerType
  BY Parts
<1>1. LeaverMoves("plugin_destroy", "exited")
  <2>1. pc[Main] = "plugin_destroy" /\ Return(Main) /\ SameHandles
    BY <1>0, StreamOutputAssumption
       DEF RtmpDestroy, SameHandles, StreamType, OutputType
  <2>2. stack[Main] = <<"exited">>
    BY <1>0, <2>1, StreamOutputAssumption DEF Frames, FramesAt
  <2>3. Head(stack[Main]) = "exited" /\ Tail(stack[Main]) = <<>>
    BY ONLY <2>2
  <2>4. <<>> \in FramesAt(Main, "exited")
    BY StreamOutputAssumption DEF FramesAt
  <2>5. pc' = [pc EXCEPT ![Main] = "exited"] /\ stack' = [stack EXCEPT ![Main] = <<>>]
    BY <2>1, <2>3 DEF Return
  <2>6. QED
    BY <1>0, <2>1, <2>4, <2>5, LeaverAdvances
<1>2. UNCHANGED <<output, stream, app, server>>
  BY DEF RtmpDestroy
<1>10. Places'
  BY <1>0, <1>1, <1>2 DEF Places
<1>11. Slots'
  BY <1>0, <1>1, <1>2 DEF Slots
<1>12. Connects'
  BY <1>0, <1>1, <1>2 DEF Connects
<1>13. OutputFlags'
  BY <1>0, <1>1, <1>2 DEF OutputFlags
<1>14. Senders'
  BY <1>0, <1>1, <1>2 DEF Senders
<1>15. Stops'
  BY <1>0, <1>1, <1>2 DEF Stops
<1>16. Leaves'
  BY <1>0, <1>1, <1>2 DEF Leaves, Places, Slots, OutputFlags, Senders, Stops, Connects
<1>17. View'
  BY <1>0, <1>1, <1>2 DEF View
<1>18. QED
  BY <1>1, <1>10, <1>11, <1>12, <1>13, <1>14, <1>15, <1>16, <1>17 DEF InPlace

\* The connect_thread is joined.
LEMMA JoinConnectInPlace ==
  ASSUME TypeOK, InPlace, Patient, JoinConnect
  PROVE  InPlace'
<1>0. /\ Frames /\ Single /\ Places /\ Slots /\ Connects /\ OutputFlags
      /\ Senders /\ Stops /\ Leaves /\ View
      /\ output \in OutputType /\ stream \in StreamType /\ app \in AppType
      /\ server \in ServerType
  BY Parts
<1>1. LeaverMoves("join_connect", "destroy_stop")
  <2>1. FramesAt(Main, "join_connect") \subseteq FramesAt(Main, "destroy_stop")
    BY StreamOutputAssumption DEF FramesAt
  <2>2. SameHandles /\ pc[Main] = "join_connect" /\ Goto(Main, "destroy_stop")
    BY <1>0, StreamOutputAssumption
       DEF JoinConnect, SameHandles, StreamType, OutputType
  <2>3. QED
    BY <1>0, <2>1, <2>2, LeaverGoes
<1>2. UNCHANGED <<output, stream, app, server>>
  BY DEF JoinConnect
<1>10. Places'
  BY <1>0, <1>1, <1>2 DEF Places
<1>11. Slots'
  BY <1>0, <1>1, <1>2 DEF Slots
<1>12. Connects'
  BY <1>0, <1>1, <1>2 DEF Connects
<1>13. OutputFlags'
  BY <1>0, <1>1, <1>2 DEF OutputFlags
<1>14. Senders'
  BY <1>0, <1>1, <1>2 DEF Senders
<1>15. Stops'
  BY <1>0, <1>1, <1>2 DEF Stops
<1>16. Leaves'
  BY <1>0, <1>1, <1>2 DEF Leaves
<1>17. View'
  BY <1>0, <1>1, <1>2 DEF View
<1>18. QED
  BY <1>1, <1>10, <1>11, <1>12, <1>13, <1>14, <1>15, <1>16, <1>17 DEF InPlace

\* The event is raised by force.
LEMMA DestroyStopInPlace ==
  ASSUME TypeOK, InPlace, Patient, DestroyStop
  PROVE  InPlace'
<1>0. /\ Frames /\ Single /\ Places /\ Slots /\ Connects /\ OutputFlags
      /\ Senders /\ Stops /\ Leaves /\ View
      /\ output \in OutputType /\ stream \in StreamType /\ app \in AppType
      /\ server \in ServerType
  BY Parts
<1>1. LeaverMoves("destroy_stop", "destroy_post")
  <2>1. FramesAt(Main, "destroy_stop") \subseteq FramesAt(Main, "destroy_post")
    BY StreamOutputAssumption DEF FramesAt
  <2>2. SameHandles /\ pc[Main] = "destroy_stop" /\ Goto(Main, "destroy_post")
    BY <1>0, StreamOutputAssumption
       DEF DestroyStop, SameHandles, StreamType, OutputType
  <2>3. QED
    BY <1>0, <2>1, <2>2, LeaverGoes
<1>2. stream' = [stream EXCEPT !.stopTs = "forced", !.stopEvent = TRUE]
      /\ UNCHANGED <<output, app, server>>
  BY DEF DestroyStop
<1>10. Places'
  BY <1>0, <1>1, <1>2 DEF Places, StreamType
<1>11. Slots'
  BY <1>0, <1>1, <1>2 DEF Slots, StreamType
<1>12. Connects'
  BY <1>0, <1>1, <1>2 DEF Connects, StreamType
<1>13. OutputFlags'
  BY <1>0, <1>1, <1>2 DEF OutputFlags, StreamType
<1>14. Senders'
  BY <1>0, <1>1, <1>2 DEF Senders, StreamType
<1>15. Stops'
  BY <1>0, <1>1, <1>2
     DEF Stops, Places, Slots, Senders, Connects, Leaves, View, StreamType
<1>16. Leaves'
  BY <1>0, <1>1, <1>2 DEF Leaves, StreamType
<1>17. View'
  BY <1>0, <1>1, <1>2 DEF View, Places, Slots, Connects, StreamType
<1>18. QED
  BY <1>1, <1>10, <1>11, <1>12, <1>13, <1>14, <1>15, <1>16, <1>17 DEF InPlace

\* A send_thread that is left is woken,
LEMMA DestroyPostInPlace ==
  ASSUME TypeOK, InPlace, Patient, DestroyPost, stream.active
  PROVE  InPlace'
<1>0. /\ Frames /\ Single /\ Places /\ Slots /\ Connects /\ OutputFlags
      /\ Senders /\ Stops /\ Leaves /\ View
      /\ output \in OutputType /\ stream \in StreamType /\ app \in AppType
      /\ server \in ServerType
  BY Parts
<1>1. LeaverMoves("destroy_post", "end_check")
  <2>1. /\ pc[Main] = "destroy_post"
        /\ Call(Main, "end_check", "join_sender")
        /\ SameHandles
    BY <1>0, StreamOutputAssumption
       DEF DestroyPost, SameHandles, StreamType, OutputType
  <2>2. stack[Main] = <<"exited">>
    BY <1>0, <2>1, StreamOutputAssumption DEF Frames, FramesAt
  <2>3. <<"join_sender">> \o <<"exited">> = <<"join_sender", "exited">>
    BY Push1, Push2
  <2>4. <<"join_sender", "exited">> \in FramesAt(Main, "end_check")
    BY StreamOutputAssumption DEF FramesAt
  <2>5. /\ pc' = [pc EXCEPT ![Main] = "end_check"]
        /\ stack' = [stack EXCEPT ![Main] = <<"join_sender", "exited">>]
    BY <2>1, <2>2, <2>3 DEF Call
  <2>6. QED
    BY <1>0, <2>1, <2>4, <2>5, LeaverAdvances
<1>2. stream' = [stream EXCEPT !.sendSem = @ + 1] /\ UNCHANGED <<output, app, server>>
  BY DEF DestroyPost
<1>10. Places'
  BY <1>0, <1>1, <1>2 DEF Places, StreamType
<1>11. Slots'
  BY <1>0, <1>1, <1>2 DEF Slots, StreamType
<1>12. Connects'
  BY <1>0, <1>1, <1>2 DEF Connects, StreamType
<1>13. OutputFlags'
  BY <1>0, <1>1, <1>2 DEF OutputFlags, StreamType
<1>14. Senders'
  BY <1>0, <1>1, <1>2 DEF Senders, StreamType
<1>15. Stops'
  BY <1>0, <1>1, <1>2 DEF Stops, StreamType
<1>16. Leaves'
  BY <1>0, <1>1, <1>2 DEF Leaves, StreamType
<1>17. View'
  BY <1>0, <1>1, <1>2 DEF View, StreamType
<1>18. QED
  BY <1>1, <1>10, <1>11, <1>12, <1>13, <1>14, <1>15, <1>16, <1>17 DEF InPlace

\* if there is one.
LEMMA DestroyPostNothingInPlace ==
  ASSUME TypeOK, InPlace, Patient, DestroyPost, ~stream.active
  PROVE  InPlace'
<1>0. /\ Frames /\ Single /\ Places /\ Slots /\ Connects /\ OutputFlags
      /\ Senders /\ Stops /\ Leaves /\ View
      /\ output \in OutputType /\ stream \in StreamType /\ app \in AppType
      /\ server \in ServerType
  BY Parts
<1>1. LeaverMoves("destroy_post", "exited")
  <2>1. pc[Main] = "destroy_post" /\ Return(Main) /\ SameHandles
    BY <1>0, StreamOutputAssumption
       DEF DestroyPost, SameHandles, StreamType, OutputType
  <2>2. stack[Main] = <<"exited">>
    BY <1>0, <2>1, StreamOutputAssumption DEF Frames, FramesAt
  <2>3. Head(stack[Main]) = "exited" /\ Tail(stack[Main]) = <<>>
    BY ONLY <2>2
  <2>4. <<>> \in FramesAt(Main, "exited")
    BY StreamOutputAssumption DEF FramesAt
  <2>5. pc' = [pc EXCEPT ![Main] = "exited"] /\ stack' = [stack EXCEPT ![Main] = <<>>]
    BY <2>1, <2>3 DEF Return
  <2>6. QED
    BY <1>0, <2>1, <2>4, <2>5, LeaverAdvances
<1>2. UNCHANGED <<output, stream, app, server>>
  BY DEF DestroyPost
<1>10. Places'
  BY <1>0, <1>1, <1>2 DEF Places
<1>11. Slots'
  BY <1>0, <1>1, <1>2 DEF Slots
<1>12. Connects'
  BY <1>0, <1>1, <1>2 DEF Connects
<1>13. OutputFlags'
  BY <1>0, <1>1, <1>2 DEF OutputFlags
<1>14. Senders'
  BY <1>0, <1>1, <1>2 DEF Senders, Places, Connects, OutputFlags
<1>15. Stops'
  BY <1>0, <1>1, <1>2 DEF Stops, Places, Slots, Senders
<1>16. Leaves'
  BY <1>0, <1>1, <1>2 DEF Leaves, Places, Slots, OutputFlags, Senders, Stops, Connects
<1>17. View'
  BY <1>0, <1>1, <1>2 DEF View
<1>18. QED
  BY <1>1, <1>10, <1>11, <1>12, <1>13, <1>14, <1>15, <1>16, <1>17 DEF InPlace

\* There is no capture to end.
LEMMA EndCheckMainInPlace ==
  ASSUME TypeOK, InPlace, Patient, EndCheck(Main), Silent
  PROVE  InPlace'
<1>0. /\ Frames /\ Single /\ Places /\ Slots /\ Connects /\ OutputFlags
      /\ Senders /\ Stops /\ Leaves /\ View
      /\ output \in OutputType /\ stream \in StreamType /\ app \in AppType
      /\ server \in ServerType
  BY Parts
<1>4. ~output.dataActive
  BY <1>0 DEF EndCheck, Leaves, Leaver, OutputType
<1>1. LeaverMoves("end_check", "end_inactive")
  <2>1. FramesAt(Main, "end_check") \subseteq FramesAt(Main, "end_inactive")
    BY StreamOutputAssumption DEF FramesAt
  <2>2. SameHandles /\ pc[Main] = "end_check" /\ Goto(Main, "end_inactive")
    BY <1>0, <1>4, StreamOutputAssumption
       DEF EndCheck, SameHandles, StreamType, OutputType
  <2>3. QED
    BY <1>0, <2>1, <2>2, LeaverGoes
<1>2. UNCHANGED <<output, stream, app, server>>
  BY <1>4 DEF EndCheck
<1>10. Places'
  BY <1>0, <1>1, <1>2, <1>4 DEF Places
<1>11. Slots'
  BY <1>0, <1>1, <1>2, <1>4 DEF Slots
<1>12. Connects'
  BY <1>0, <1>1, <1>2, <1>4 DEF Connects
<1>13. OutputFlags'
  BY <1>0, <1>1, <1>2, <1>4 DEF OutputFlags
<1>14. Senders'
  BY <1>0, <1>1, <1>2, <1>4 DEF Senders
<1>15. Stops'
  BY <1>0, <1>1, <1>2, <1>4 DEF Stops
<1>16. Leaves'
  BY <1>0, <1>1, <1>2, <1>4 DEF Leaves
<1>17. View'
  BY <1>0, <1>1, <1>2, <1>4 DEF View
<1>18. QED
  BY <1>1, <1>10, <1>11, <1>12, <1>13, <1>14, <1>15, <1>16, <1>17 DEF InPlace

\* The send_thread is joined.
LEMMA JoinSenderInPlace ==
  ASSUME TypeOK, InPlace, Patient, JoinSender
  PROVE  InPlace'
<1>0. /\ Frames /\ Single /\ Places /\ Slots /\ Connects /\ OutputFlags
      /\ Senders /\ Stops /\ Leaves /\ View
      /\ output \in OutputType /\ stream \in StreamType /\ app \in AppType
      /\ server \in ServerType
  BY Parts
<1>1. LeaverMoves("join_sender", "exited")
  <2>1. pc[Main] = "join_sender" /\ Return(Main) /\ SameHandles
    BY <1>0, StreamOutputAssumption
       DEF JoinSender, SameHandles, StreamType, OutputType
  <2>2. stack[Main] = <<"exited">>
    BY <1>0, <2>1, StreamOutputAssumption DEF Frames, FramesAt
  <2>3. Head(stack[Main]) = "exited" /\ Tail(stack[Main]) = <<>>
    BY ONLY <2>2
  <2>4. <<>> \in FramesAt(Main, "exited")
    BY StreamOutputAssumption DEF FramesAt
  <2>5. pc' = [pc EXCEPT ![Main] = "exited"] /\ stack' = [stack EXCEPT ![Main] = <<>>]
    BY <2>1, <2>3 DEF Return
  <2>6. QED
    BY <1>0, <2>1, <2>4, <2>5, LeaverAdvances
<1>2. UNCHANGED <<output, stream, app, server>>
  BY DEF JoinSender
<1>5. Sender = Dead
  <2>1. Joined(stream.sendThread)
    BY DEF JoinSender
  <2>2. Sender # Dead => ~LetGo
    BY <1>0, <1>1 DEF Stops
  <2>3. QED
    BY <1>0, <2>1, <2>2, SenderJoined
<1>10. Places'
  BY <1>0, <1>1, <1>2, <1>5 DEF Places
<1>11. Slots'
  BY <1>0, <1>1, <1>2, <1>5 DEF Slots
<1>12. Connects'
  BY <1>0, <1>1, <1>2, <1>5 DEF Connects
<1>13. OutputFlags'
  BY <1>0, <1>1, <1>2, <1>5 DEF OutputFlags
<1>14. Senders'
  BY <1>0, <1>1, <1>2, <1>5 DEF Senders
<1>15. Stops'
  BY <1>0, <1>1, <1>2, <1>5 DEF Stops
<1>16. Leaves'
  BY <1>0, <1>1, <1>2, <1>5 DEF Leaves
<1>17. View'
  BY <1>0, <1>1, <1>2, <1>5 DEF View
<1>18. QED
  BY <1>1, <1>10, <1>11, <1>12, <1>13, <1>14, <1>15, <1>16, <1>17 DEF InPlace

\* A send_thread that was told to stop is waited for.
LEMMA InitConnectInPlace ==
  ASSUME TypeOK, InPlace, Patient, NEW c \in ConnectThreads, InitConnect(c)
  PROVE  InPlace'
<1>0. /\ Frames /\ Single /\ Places /\ Slots /\ Connects /\ OutputFlags
      /\ Senders /\ Stops /\ Leaves /\ View
      /\ output \in OutputType /\ stream \in StreamType /\ app \in AppType
      /\ server \in ServerType
  BY Parts
<1>1. ConnectorMoves("init_connect", "connect")
  <2>1. FramesAt(c, "init_connect") \subseteq FramesAt(c, "connect")
    BY StreamOutputAssumption DEF FramesAt
  <2>2. SameHandles /\ pc[c] = "init_connect" /\ Goto(c, "connect")
    BY <1>0, StreamOutputAssumption
       DEF InitConnect, SameHandles, StreamType, OutputType
  <2>3. QED
    BY <1>0, <2>1, <2>2, ConnectorGoes
<1>2. /\ /\ UNCHANGED <<stream.connecting, stream.active, stream.stopEvent, stream.sendThread,
                  stream.detached, stream.sendSem, stream.inCallback>>
      /\ stream'.packets = <<>> /\ UNCHANGED <<output, app, server>>
  BY <1>0 DEF InitConnect, StreamType
<1>5. ~stream.stopEvent
  <2>1. SUFFICES ASSUME stream.stopEvent PROVE FALSE
    OBVIOUS
  <2>2. Joined(stream.sendThread)
    BY <2>1 DEF InitConnect
  <2>3. Sender # Dead /\ ~LetGo
    BY <1>0, <1>1, <2>1 DEF Stops, Connects
  <2>4. QED
    BY <1>0, <2>2, <2>3, SenderJoined
<1>10. Places'
  BY <1>0, <1>1, <1>2, <1>5 DEF Places
<1>11. Slots'
  BY <1>0, <1>1, <1>2, <1>5 DEF Slots
<1>12. Connects'
  BY <1>0, <1>1, <1>2, <1>5 DEF Connects
<1>13. OutputFlags'
  BY <1>0, <1>1, <1>2, <1>5 DEF OutputFlags
<1>14. Senders'
  BY <1>0, <1>1, <1>2, <1>5 DEF Senders
<1>15. Stops'
  BY <1>0, <1>1, <1>2, <1>5 DEF Stops
<1>16. Leaves'
  BY <1>0, <1>1, <1>2, <1>5 DEF Leaves
<1>17. View'
  BY <1>0, <1>1, <1>2, <1>5 DEF View
<1>18. QED
  BY <1>1, <1>10, <1>11, <1>12, <1>13, <1>14, <1>15, <1>16, <1>17 DEF InPlace

\* The server is reached.
LEMMA ConnectInPlace ==
  ASSUME TypeOK, InPlace, Patient, NEW c \in ConnectThreads, Connect(c)
  PROVE  InPlace'
<1>0. /\ Frames /\ Single /\ Places /\ Slots /\ Connects /\ OutputFlags
      /\ Senders /\ Stops /\ Leaves /\ View
      /\ output \in OutputType /\ stream \in StreamType /\ app \in AppType
      /\ server \in ServerType
  BY Parts
<1>1. ConnectorMoves("connect", "init_send")
  <2>1. FramesAt(c, "connect") \subseteq FramesAt(c, "init_send")
    BY StreamOutputAssumption DEF FramesAt
  <2>2. SameHandles /\ pc[c] = "connect" /\ Goto(c, "init_send")
    BY <1>0, StreamOutputAssumption DEF Connect, SameHandles, StreamType, OutputType
  <2>3. QED
    BY <1>0, <2>1, <2>2, ConnectorGoes
<1>2. UNCHANGED <<output, stream, app, server>>
  BY DEF Connect
<1>5. Sender \in {Dead} \cup LoopLabels
  BY <1>0, AtRest DEF Connect, Patient
<1>10. Places'
  BY <1>0, <1>1, <1>2, <1>5 DEF Places
<1>11. Slots'
  BY <1>0, <1>1, <1>2, <1>5 DEF Slots
<1>12. Connects'
  BY <1>0, <1>1, <1>2, <1>5 DEF Connects
<1>13. OutputFlags'
  BY <1>0, <1>1, <1>2, <1>5 DEF OutputFlags
<1>14. Senders'
  BY <1>0, <1>1, <1>2, <1>5 DEF Senders
<1>15. Stops'
  BY <1>0, <1>1, <1>2, <1>5 DEF Stops
<1>16. Leaves'
  BY <1>0, <1>1, <1>2, <1>5 DEF Leaves
<1>17. View'
  BY <1>0, <1>1, <1>2, <1>5 DEF View
<1>18. QED
  BY <1>1, <1>10, <1>11, <1>12, <1>13, <1>14, <1>15, <1>16, <1>17 DEF InPlace

\* It is not.
LEMMA ConnectFailsInPlace ==
  ASSUME TypeOK, InPlace, Patient, NEW c \in ConnectThreads, ConnectFails(c)
  PROVE  InPlace'
<1>0. /\ Frames /\ Single /\ Places /\ Slots /\ Connects /\ OutputFlags
      /\ Senders /\ Stops /\ Leaves /\ View
      /\ output \in OutputType /\ stream \in StreamType /\ app \in AppType
      /\ server \in ServerType
  BY Parts
<1>1. ConnectorMoves("connect", "end_check")
  <2>1. pc[c] = "connect" /\ Call(c, "end_check", "connect_return") /\ SameHandles
    BY <1>0, StreamOutputAssumption
       DEF ConnectFails, ConnectionFails, SignalStop, SameHandles, StreamType,
           OutputType
  <2>2. stack[c] = <<>>
    BY <1>0, <2>1, StreamOutputAssumption DEF Frames, FramesAt
  <2>3. <<"connect_return">> \o <<>> = <<"connect_return">>
    BY Push1, Push2
  <2>4. <<"connect_return">> \in FramesAt(c, "end_check")
    BY StreamOutputAssumption DEF FramesAt
  <2>5. /\ pc' = [pc EXCEPT ![c] = "end_check"]
        /\ stack' = [stack EXCEPT ![c] = <<"connect_return">>]
    BY <2>1, <2>2, <2>3 DEF Call
  <2>6. QED
    BY <1>0, <2>1, <2>4, <2>5, ConnectorAdvances
<1>2. /\ output' = [output EXCEPT !.stopCode = "connect_failed"]
      /\ UNCHANGED <<stream, app, server>>
  BY DEF ConnectFails, ConnectionFails, SignalStop
<1>10. Places'
  BY <1>0, <1>1, <1>2 DEF Places, OutputType
<1>11. Slots'
  BY <1>0, <1>1, <1>2 DEF Slots, OutputType
<1>12. Connects'
  BY <1>0, <1>1, <1>2 DEF Connects, OutputType
<1>13. OutputFlags'
  BY <1>0, <1>1, <1>2 DEF OutputFlags, OutputType
<1>14. Senders'
  BY <1>0, <1>1, <1>2 DEF Senders, OutputType
<1>15. Stops'
  BY <1>0, <1>1, <1>2 DEF Stops, OutputType
<1>16. Leaves'
  BY <1>0, <1>1, <1>2 DEF Leaves, OutputType
<1>17. View'
  BY <1>0, <1>1, <1>2 DEF View, OutputType
<1>18. QED
  BY <1>1, <1>10, <1>11, <1>12, <1>13, <1>14, <1>15, <1>16, <1>17 DEF InPlace

\* The send_thread cannot be created.
LEMMA InitSendFailsInPlace ==
  ASSUME TypeOK, InPlace, Patient, NEW c \in ConnectThreads, InitSendFails(c)
  PROVE  InPlace'
<1>0. /\ Frames /\ Single /\ Places /\ Slots /\ Connects /\ OutputFlags
      /\ Senders /\ Stops /\ Leaves /\ View
      /\ output \in OutputType /\ stream \in StreamType /\ app \in AppType
      /\ server \in ServerType
  BY Parts
<1>4. ResetSemaphore = [stream EXCEPT !.sendSem = 0]
  <2>1. \A n \in SendThreads : pc[n] = "send_wait" => n \in stream.orphans
    BY DEF InitSendFails, Patient, InLoop
  <2>2. stream.orphans \cup {n \in SendThreads : pc[n] = "send_wait"} = stream.orphans
    BY <2>1
  <2>3. QED
    BY <1>0, <2>2 DEF ResetSemaphore, StreamType
<1>1. ConnectorMoves("init_send", "end_check")
  <2>1. pc[c] = "init_send" /\ Call(c, "end_check", "connect_return") /\ SameHandles
    BY <1>0, <1>4, StreamOutputAssumption
       DEF InitSendFails, SignalStop, SameHandles, StreamType, OutputType
  <2>2. stack[c] = <<>>
    BY <1>0, <2>1, StreamOutputAssumption DEF Frames, FramesAt
  <2>3. <<"connect_return">> \o <<>> = <<"connect_return">>
    BY Push1, Push2
  <2>4. <<"connect_return">> \in FramesAt(c, "end_check")
    BY StreamOutputAssumption DEF FramesAt
  <2>5. /\ pc' = [pc EXCEPT ![c] = "end_check"]
        /\ stack' = [stack EXCEPT ![c] = <<"connect_return">>]
    BY <2>1, <2>2, <2>3 DEF Call
  <2>6. QED
    BY <1>0, <2>1, <2>4, <2>5, ConnectorAdvances
<1>2. /\ output' = [output EXCEPT !.stopCode = "error"] /\ UNCHANGED <<app, server>>
      /\ stream' = [stream EXCEPT !.sendSem = 0]
  BY <1>4 DEF InitSendFails, SignalStop
<1>5. Sender = Dead
  <2>1. ASSUME NEW n \in Live(Present) PROVE FALSE
    <3>1. Sender = pc[n] /\ n \in SendThreads /\ n \notin stream.orphans
      BY <1>0, <2>1, AtAlone DEF Single, Sender, Live, Present
    <3>2. pc[n] # Dead /\ ~InLoop(n)
      BY <2>1, <3>1 DEF Live, InitSendFails, Patient
    <3>3. QED
      BY <1>0, <1>1, <3>1, <3>2 DEF InLoop, Connects
  <2>2. QED
    BY <2>1 DEF Sender, At
<1>10. Places'
  BY <1>0, <1>1, <1>2, <1>4, <1>5 DEF Places, OutputType, StreamType
<1>11. Slots'
  BY <1>0, <1>1, <1>2, <1>4, <1>5 DEF Slots, OutputType, StreamType
<1>12. Connects'
  BY <1>0, <1>1, <1>2, <1>4, <1>5 DEF Connects, OutputType, StreamType
<1>13. OutputFlags'
  BY <1>0, <1>1, <1>2, <1>4, <1>5 DEF OutputFlags, OutputType, StreamType
<1>14. Senders'
  BY <1>0, <1>1, <1>2, <1>4, <1>5 DEF Senders, OutputType, StreamType
<1>15. Stops'
  BY <1>0, <1>1, <1>2, <1>4, <1>5 DEF Stops, OutputType, StreamType
<1>16. Leaves'
  BY <1>0, <1>1, <1>2, <1>4, <1>5 DEF Leaves, OutputType, StreamType
<1>17. View'
  BY <1>0, <1>1, <1>2, <1>4, <1>5 DEF View, OutputType, StreamType
<1>18. QED
  BY <1>1, <1>10, <1>11, <1>12, <1>13, <1>14, <1>15, <1>16, <1>17 DEF InPlace

\* The stream becomes active.
LEMMA SetActiveInPlace ==
  ASSUME TypeOK, InPlace, Patient, NEW c \in ConnectThreads, SetActive(c)
  PROVE  InPlace'
<1>0. /\ Frames /\ Single /\ Places /\ Slots /\ Connects /\ OutputFlags
      /\ Senders /\ Stops /\ Leaves /\ View
      /\ output \in OutputType /\ stream \in StreamType /\ app \in AppType
      /\ server \in ServerType
  BY Parts
<1>1. ConnectorMoves("set_active", "send_meta_data")
  <2>1. FramesAt(c, "set_active") \subseteq FramesAt(c, "send_meta_data")
    BY StreamOutputAssumption DEF FramesAt
  <2>2. SameHandles /\ pc[c] = "set_active" /\ Goto(c, "send_meta_data")
    BY <1>0, StreamOutputAssumption DEF SetActive, SameHandles, StreamType, OutputType
  <2>3. QED
    BY <1>0, <2>1, <2>2, ConnectorGoes
<1>2. stream' = [stream EXCEPT !.active = TRUE] /\ UNCHANGED <<output, app, server>>
  BY DEF SetActive
<1>10. Places'
  BY <1>0, <1>1, <1>2 DEF Places, StreamType
<1>11. Slots'
  BY <1>0, <1>1, <1>2 DEF Slots, StreamType
<1>12. Connects'
  BY <1>0, <1>1, <1>2 DEF Connects, StreamType
<1>13. OutputFlags'
  BY <1>0, <1>1, <1>2 DEF OutputFlags, StreamType
<1>14. Senders'
  BY <1>0, <1>1, <1>2 DEF Senders, Places, Connects, StreamType
<1>15. Stops'
  BY <1>0, <1>1, <1>2 DEF Stops, StreamType
<1>16. Leaves'
  BY <1>0, <1>1, <1>2 DEF Leaves, StreamType
<1>17. View'
  BY <1>0, <1>1, <1>2 DEF View, StreamType
<1>18. QED
  BY <1>1, <1>10, <1>11, <1>12, <1>13, <1>14, <1>15, <1>16, <1>17 DEF InPlace

\* The metadata is sent.
LEMMA SendMetaInPlace ==
  ASSUME TypeOK, InPlace, Patient, NEW c \in ConnectThreads, SendMetaData(c)
  PROVE  InPlace'
<1>0. /\ Frames /\ Single /\ Places /\ Slots /\ Connects /\ OutputFlags
      /\ Senders /\ Stops /\ Leaves /\ View
      /\ output \in OutputType /\ stream \in StreamType /\ app \in AppType
      /\ server \in ServerType
  BY Parts
<1>1. ConnectorMoves("send_meta_data", "begin_capture")
  <2>1. FramesAt(c, "send_meta_data") \subseteq FramesAt(c, "begin_capture")
    BY StreamOutputAssumption DEF FramesAt
  <2>2. SameHandles /\ pc[c] = "send_meta_data" /\ Goto(c, "begin_capture")
    BY <1>0, StreamOutputAssumption
       DEF SendMetaData, SameHandles, StreamType, OutputType
  <2>3. QED
    BY <1>0, <2>1, <2>2, ConnectorGoes
<1>2. UNCHANGED <<output, stream, app, server>>
  BY DEF SendMetaData
<1>10. Places'
  BY <1>0, <1>1, <1>2 DEF Places
<1>11. Slots'
  BY <1>0, <1>1, <1>2 DEF Slots
<1>12. Connects'
  BY <1>0, <1>1, <1>2 DEF Connects
<1>13. OutputFlags'
  BY <1>0, <1>1, <1>2 DEF OutputFlags
<1>14. Senders'
  BY <1>0, <1>1, <1>2 DEF Senders
<1>15. Stops'
  BY <1>0, <1>1, <1>2 DEF Stops
<1>16. Leaves'
  BY <1>0, <1>1, <1>2 DEF Leaves
<1>17. View'
  BY <1>0, <1>1, <1>2 DEF View
<1>18. QED
  BY <1>1, <1>10, <1>11, <1>12, <1>13, <1>14, <1>15, <1>16, <1>17 DEF InPlace

\* It is not: the send_thread is left waiting.
LEMMA SendMetaFailsInPlace ==
  ASSUME TypeOK, InPlace, Patient, NEW c \in ConnectThreads, SendMetaDataFails(c)
  PROVE  InPlace'
<1>0. /\ Frames /\ Single /\ Places /\ Slots /\ Connects /\ OutputFlags
      /\ Senders /\ Stops /\ Leaves /\ View
      /\ output \in OutputType /\ stream \in StreamType /\ app \in AppType
      /\ server \in ServerType
  BY Parts
<1>1. ConnectorMoves("send_meta_data", "end_check")
  <2>1. /\ pc[c] = "send_meta_data"
        /\ Call(c, "end_check", "connect_return")
        /\ SameHandles
    BY <1>0, StreamOutputAssumption
       DEF SendMetaDataFails, ConnectionFails, SignalStop, SameHandles, StreamType,
           OutputType
  <2>2. stack[c] = <<>>
    BY <1>0, <2>1, StreamOutputAssumption DEF Frames, FramesAt
  <2>3. <<"connect_return">> \o <<>> = <<"connect_return">>
    BY Push1, Push2
  <2>4. <<"connect_return">> \in FramesAt(c, "end_check")
    BY StreamOutputAssumption DEF FramesAt
  <2>5. /\ pc' = [pc EXCEPT ![c] = "end_check"]
        /\ stack' = [stack EXCEPT ![c] = <<"connect_return">>]
    BY <2>1, <2>2, <2>3 DEF Call
  <2>6. QED
    BY <1>0, <2>1, <2>4, <2>5, ConnectorAdvances
<1>2. /\ output' = [output EXCEPT !.stopCode = "disconnected"]
      /\ UNCHANGED <<stream, app, server>>
  BY DEF SendMetaDataFails, ConnectionFails, SignalStop
<1>10. Places'
  BY <1>0, <1>1, <1>2 DEF Places, OutputType
<1>11. Slots'
  BY <1>0, <1>1, <1>2 DEF Slots, OutputType
<1>12. Connects'
  BY <1>0, <1>1, <1>2 DEF Connects, OutputType
<1>13. OutputFlags'
  BY <1>0, <1>1, <1>2 DEF OutputFlags, OutputType
<1>14. Senders'
  BY <1>0, <1>1, <1>2 DEF Senders, OutputType
<1>15. Stops'
  BY <1>0, <1>1, <1>2 DEF Stops, OutputType
<1>16. Leaves'
  BY <1>0, <1>1, <1>2 DEF Leaves, OutputType
<1>17. View'
  BY <1>0, <1>1, <1>2 DEF View, OutputType
<1>18. QED
  BY <1>1, <1>10, <1>11, <1>12, <1>13, <1>14, <1>15, <1>16, <1>17 DEF InPlace

\* The callbacks are connected.
LEMMA BeginCaptureInPlace ==
  ASSUME TypeOK, InPlace, Patient, NEW c \in ConnectThreads,
         BeginDataCapture(c, "connect_return"), Silent
  PROVE  InPlace'
<1>0. /\ Frames /\ Single /\ Places /\ Slots /\ Connects /\ OutputFlags
      /\ Senders /\ Stops /\ Leaves /\ View
      /\ output \in OutputType /\ stream \in StreamType /\ app \in AppType
      /\ server \in ServerType
  BY Parts
<1>4. ~output.active
  <2>1. Connector = "begin_capture"
    BY <1>0, AtAlone DEF BeginDataCapture, Single, Connector
  <2>2. QED
    BY <1>0, <2>1 DEF Connects
<1>1. ConnectorMoves("begin_capture", "begin_activate")
  <2>1. FramesAt(c, "begin_capture") \subseteq FramesAt(c, "begin_activate")
    BY StreamOutputAssumption DEF FramesAt
  <2>2. SameHandles /\ pc[c] = "begin_capture" /\ Goto(c, "begin_activate")
    BY <1>0, <1>4, StreamOutputAssumption
       DEF BeginDataCapture, SameHandles, StreamType, OutputType
  <2>3. QED
    BY <1>0, <2>1, <2>2, ConnectorGoes
<1>2. /\ output' = [output EXCEPT !.dataActive = TRUE, !.hooked = TRUE]
      /\ UNCHANGED <<stream, app, server>>
  BY <1>4 DEF BeginDataCapture
<1>10. Places'
  BY <1>0, <1>1, <1>2, <1>4 DEF Places, OutputType
<1>11. Slots'
  BY <1>0, <1>1, <1>2, <1>4 DEF Slots, OutputType
<1>12. Connects'
  BY <1>0, <1>1, <1>2, <1>4 DEF Connects, Places, Slots, OutputFlags, OutputType
<1>13. OutputFlags'
  BY <1>0, <1>1, <1>2, <1>4 DEF OutputFlags, Places, Connects, OutputType
<1>14. Senders'
  BY <1>0, <1>1, <1>2, <1>4 DEF Senders, Places, Connects, OutputType
<1>15. Stops'
  BY <1>0, <1>1, <1>2, <1>4 DEF Stops, OutputType
<1>16. Leaves'
  BY <1>0, <1>1, <1>2, <1>4
     DEF Leaves, Places, Slots, OutputFlags, Senders, Stops, Connects, OutputType
<1>17. View'
  BY <1>0, <1>1, <1>2, <1>4
     DEF View, Places, Slots, Connects, OutputFlags, Senders, Leaves, Stops,
         OutputType
<1>18. QED
  BY <1>1, <1>10, <1>11, <1>12, <1>13, <1>14, <1>15, <1>16, <1>17 DEF InPlace

\* The output becomes active and the start is signalled.
LEMMA BeginActivateInPlace ==
  ASSUME TypeOK, InPlace, Patient, NEW c \in ConnectThreads,
         BeginActivate(c, "connect_return"), Notify(c, "started"), UNCHANGED stream
  PROVE  InPlace'
<1>0. /\ Frames /\ Single /\ Places /\ Slots /\ Connects /\ OutputFlags
      /\ Senders /\ Stops /\ Leaves /\ View
      /\ output \in OutputType /\ stream \in StreamType /\ app \in AppType
      /\ server \in ServerType
  BY Parts
<1>1. ConnectorMoves("begin_activate", "connect_return")
  <2>1. FramesAt(c, "begin_activate") \subseteq FramesAt(c, "connect_return")
    BY StreamOutputAssumption DEF FramesAt
  <2>2. SameHandles /\ pc[c] = "begin_activate" /\ Goto(c, "connect_return")
    BY <1>0, StreamOutputAssumption
       DEF BeginActivate, SameHandles, StreamType, OutputType
  <2>3. QED
    BY <1>0, <2>1, <2>2, ConnectorGoes
<1>2. output' = [output EXCEPT !.active = TRUE] /\ UNCHANGED stream
  BY DEF BeginActivate
<1>5. /\ /\ app'.posted = <<"started">>
      /\ UNCHANGED <<app.connected, app.quitting, server>>
  <2>1. app.connected /\ Quiet
    BY <1>0, <1>1 DEF Connects, Slots, View
  <2>2. c # OBS
    BY StreamOutputAssumption
  <2>3. app' = [app EXCEPT !.posted = <<"started">>] /\ UNCHANGED server
    BY <2>1, <2>2, Posted DEF Notify
  <2>4. QED
    BY <1>0, <2>3 DEF AppType
<1>10. Places'
  BY <1>0, <1>1, <1>2, <1>5 DEF Places, OutputType
<1>11. Slots'
  BY <1>0, <1>1, <1>2, <1>5 DEF Slots, OutputType
<1>12. Connects'
  BY <1>0, <1>1, <1>2, <1>5 DEF Connects, OutputType
<1>13. OutputFlags'
  BY <1>0, <1>1, <1>2, <1>5 DEF OutputFlags, Places, Connects, OutputType
<1>14. Senders'
  BY <1>0, <1>1, <1>2, <1>5 DEF Senders, OutputType
<1>15. Stops'
  BY <1>0, <1>1, <1>2, <1>5 DEF Stops, OutputType
<1>16. Leaves'
  BY <1>0, <1>1, <1>2, <1>5 DEF Leaves, OutputType
<1>17. View'
  BY <1>0, <1>1, <1>2, <1>5, OneNotice DEF View, Places, Slots, Connects, OutputType
<1>18. QED
  BY <1>1, <1>10, <1>11, <1>12, <1>13, <1>14, <1>15, <1>16, <1>17 DEF InPlace

\* A connection that failed has no capture to end.
LEMMA EndCheckConnectInPlace ==
  ASSUME TypeOK, InPlace, Patient, NEW c \in ConnectThreads, EndCheck(c), Silent
  PROVE  InPlace'
<1>0. /\ Frames /\ Single /\ Places /\ Slots /\ Connects /\ OutputFlags
      /\ Senders /\ Stops /\ Leaves /\ View
      /\ output \in OutputType /\ stream \in StreamType /\ app \in AppType
      /\ server \in ServerType
  BY Parts
<1>4. ~output.active
  <2>1. Connector = "end_check"
    BY <1>0, AtAlone DEF EndCheck, Single, Connector
  <2>2. QED
    BY <1>0, <2>1 DEF Connects
<1>1. ConnectorMoves("end_check", "end_inactive")
  <2>1. FramesAt(c, "end_check") \subseteq FramesAt(c, "end_inactive")
    BY StreamOutputAssumption DEF FramesAt
  <2>2. SameHandles /\ pc[c] = "end_check" /\ Goto(c, "end_inactive")
    BY <1>0, <1>4, StreamOutputAssumption
       DEF EndCheck, SameHandles, StreamType, OutputType
  <2>3. QED
    BY <1>0, <2>1, <2>2, ConnectorGoes
<1>2. UNCHANGED <<output, stream, app, server>>
  BY <1>4 DEF EndCheck
<1>10. Places'
  BY <1>0, <1>1, <1>2, <1>4 DEF Places
<1>11. Slots'
  BY <1>0, <1>1, <1>2, <1>4 DEF Slots
<1>12. Connects'
  BY <1>0, <1>1, <1>2, <1>4 DEF Connects
<1>13. OutputFlags'
  BY <1>0, <1>1, <1>2, <1>4 DEF OutputFlags
<1>14. Senders'
  BY <1>0, <1>1, <1>2, <1>4 DEF Senders
<1>15. Stops'
  BY <1>0, <1>1, <1>2, <1>4 DEF Stops
<1>16. Leaves'
  BY <1>0, <1>1, <1>2, <1>4 DEF Leaves
<1>17. View'
  BY <1>0, <1>1, <1>2, <1>4 DEF View
<1>18. QED
  BY <1>1, <1>10, <1>11, <1>12, <1>13, <1>14, <1>15, <1>16, <1>17 DEF InPlace

\* It is reported.
LEMMA EndInactiveConnectInPlace ==
  ASSUME TypeOK, InPlace, Patient, NEW c \in ConnectThreads, EndInactive(c),
         StreamingStopped(c), UNCHANGED stream
  PROVE  InPlace'
<1>0. /\ Frames /\ Single /\ Places /\ Slots /\ Connects /\ OutputFlags
      /\ Senders /\ Stops /\ Leaves /\ View
      /\ output \in OutputType /\ stream \in StreamType /\ app \in AppType
      /\ server \in ServerType
  BY Parts
<1>1. ConnectorMoves("end_inactive", "connect_return")
  <2>1. pc[c] = "end_inactive" /\ Return(c) /\ SameHandles
    BY <1>0, StreamOutputAssumption
       DEF EndInactive, SameHandles, StreamType, OutputType
  <2>2. stack[c] = <<"connect_return">>
    BY <1>0, <2>1, StreamOutputAssumption DEF Frames, FramesAt
  <2>3. Head(stack[c]) = "connect_return" /\ Tail(stack[c]) = <<>>
    BY ONLY <2>2
  <2>4. <<>> \in FramesAt(c, "connect_return")
    BY StreamOutputAssumption DEF FramesAt
  <2>5. /\ pc' = [pc EXCEPT ![c] = "connect_return"]
        /\ stack' = [stack EXCEPT ![c] = <<>>]
    BY <2>1, <2>3 DEF Return
  <2>6. QED
    BY <1>0, <2>1, <2>4, <2>5, ConnectorAdvances
<1>2. output' = [output EXCEPT !.stopCode = "success", !.stoppingEvent = TRUE]
      /\ UNCHANGED stream
  BY DEF EndInactive
<1>5. Answered' /\ UNCHANGED <<app.connected, app.quitting, server>>
  <2>1. app.connected /\ Quiet
    BY <1>0, <1>1 DEF Connects, Slots, View
  <2>2. c # OBS
    BY StreamOutputAssumption
  <2>3. PICK m \in {"stopped", "error"} : Notify(c, m)
    BY DEF StreamingStopped
  <2>4. app' = [app EXCEPT !.posted = <<m>>] /\ UNCHANGED server
    BY <2>1, <2>2, <2>3, Posted DEF Notify
  <2>5. QED
    BY <1>0, <2>4 DEF AppType
<1>10. Places'
  BY <1>0, <1>1, <1>2, <1>5 DEF Places, OutputType
<1>11. Slots'
  BY <1>0, <1>1, <1>2, <1>5 DEF Slots, OutputType
<1>12. Connects'
  BY <1>0, <1>1, <1>2, <1>5 DEF Connects, OutputType
<1>13. OutputFlags'
  BY <1>0, <1>1, <1>2, <1>5 DEF OutputFlags, OutputType
<1>14. Senders'
  BY <1>0, <1>1, <1>2, <1>5 DEF Senders, OutputType
<1>15. Stops'
  BY <1>0, <1>1, <1>2, <1>5 DEF Stops, OutputType
<1>16. Leaves'
  BY <1>0, <1>1, <1>2, <1>5
     DEF Leaves, Places, Slots, OutputFlags, Senders, Stops, Connects, OutputType
<1>17. View'
  BY <1>0, <1>1, <1>2, <1>5, OneNotice DEF View, Places, Slots, OutputType
<1>18. QED
  BY <1>1, <1>10, <1>11, <1>12, <1>13, <1>14, <1>15, <1>16, <1>17 DEF InPlace

\* connect_thread lets go of its handle, unless somebody joins it.
LEMMA ConnectReturnInPlace ==
  ASSUME TypeOK, InPlace, Patient, NEW c \in ConnectThreads, ConnectReturn(c)
  PROVE  InPlace'
<1>0. /\ Frames /\ Single /\ Places /\ Slots /\ Connects /\ OutputFlags
      /\ Senders /\ Stops /\ Leaves /\ View
      /\ output \in OutputType /\ stream \in StreamType /\ app \in AppType
      /\ server \in ServerType
  BY Parts
<1>1. ConnectorMoves("connect_return", "clear_connecting")
  <2>1. FramesAt(c, "connect_return") \subseteq FramesAt(c, "clear_connecting")
    BY StreamOutputAssumption DEF FramesAt
  <2>2. SameHandles /\ pc[c] = "connect_return" /\ Goto(c, "clear_connecting")
    BY <1>0, StreamOutputAssumption
       DEF ConnectReturn, SameHandles, StreamType, OutputType
  <2>3. QED
    BY <1>0, <2>1, <2>2, ConnectorGoes
<1>2. /\ \E d : stream' = [stream EXCEPT !.detached = d]
      /\ UNCHANGED <<output, app, server>>
  BY <1>0 DEF ConnectReturn, StreamType
<1>5. LetGo' <=> LetGo
  <2>1. stream.connectThread = c /\ c # stream.sendThread
    <3>1. c \in Live(ConnectThreads) /\ c # NoThread /\ c \notin SendThreads
      BY ThreadsAssumption, StreamOutputAssumption DEF ConnectReturn, Live
    <3>2. QED
      BY <1>0, <3>1 DEF Single, StreamType
  <2>2. QED
    BY <1>0, <2>1 DEF ConnectReturn, StreamType
<1>10. Places'
  BY <1>0, <1>1, <1>2, <1>5 DEF Places, StreamType
<1>11. Slots'
  BY <1>0, <1>1, <1>2, <1>5 DEF Slots, StreamType
<1>12. Connects'
  BY <1>0, <1>1, <1>2, <1>5 DEF Connects, StreamType
<1>13. OutputFlags'
  BY <1>0, <1>1, <1>2, <1>5 DEF OutputFlags, StreamType
<1>14. Senders'
  BY <1>0, <1>1, <1>2, <1>5 DEF Senders, StreamType
<1>15. Stops'
  BY <1>0, <1>1, <1>2, <1>5 DEF Stops, StreamType
<1>16. Leaves'
  BY <1>0, <1>1, <1>2, <1>5 DEF Leaves, StreamType
<1>17. View'
  BY <1>0, <1>1, <1>2, <1>5 DEF View, StreamType
<1>18. QED
  BY <1>1, <1>10, <1>11, <1>12, <1>13, <1>14, <1>15, <1>16, <1>17 DEF InPlace

\* connect_thread returns.
LEMMA ClearConnectingInPlace ==
  ASSUME TypeOK, InPlace, Patient, NEW c \in ConnectThreads, ClearConnecting(c)
  PROVE  InPlace'
<1>0. /\ Frames /\ Single /\ Places /\ Slots /\ Connects /\ OutputFlags
      /\ Senders /\ Stops /\ Leaves /\ View
      /\ output \in OutputType /\ stream \in StreamType /\ app \in AppType
      /\ server \in ServerType
  BY Parts
<1>1. ConnectorMoves("clear_connecting", "dead")
  <2>1. FramesAt(c, "clear_connecting") \subseteq FramesAt(c, "dead")
    BY StreamOutputAssumption DEF FramesAt
  <2>2. SameHandles /\ pc[c] = "clear_connecting" /\ Goto(c, "dead")
    BY <1>0, StreamOutputAssumption
       DEF ClearConnecting, SameHandles, StreamType, OutputType
  <2>3. QED
    BY <1>0, <2>1, <2>2, ConnectorGoes
<1>2. /\ stream' = [stream EXCEPT !.connecting = FALSE]
      /\ UNCHANGED <<output, app, server>>
  BY DEF ClearConnecting
<1>10. Places'
  BY <1>0, <1>1, <1>2 DEF Places, StreamType
<1>11. Slots'
  BY <1>0, <1>1, <1>2 DEF Slots, StreamType
<1>12. Connects'
  BY <1>0, <1>1, <1>2 DEF Connects, StreamType
<1>13. OutputFlags'
  BY <1>0, <1>1, <1>2 DEF OutputFlags, StreamType
<1>14. Senders'
  BY <1>0, <1>1, <1>2 DEF Senders, StreamType
<1>15. Stops'
  BY <1>0, <1>1, <1>2 DEF Stops, StreamType
<1>16. Leaves'
  BY <1>0, <1>1, <1>2 DEF Leaves, StreamType
<1>17. View'
  BY <1>0, <1>1, <1>2 DEF View, StreamType
<1>18. QED
  BY <1>1, <1>10, <1>11, <1>12, <1>13, <1>14, <1>15, <1>16, <1>17 DEF InPlace

\* A forced stop ends the loop,
LEMMA SendStopsInPlace ==
  ASSUME TypeOK, InPlace, Patient, NEW n \in Present, SendWait(n), ForcedToStop
  PROVE  InPlace'
<1>0. /\ Frames /\ Single /\ Places /\ Slots /\ Connects /\ OutputFlags
      /\ Senders /\ Stops /\ Leaves /\ View
      /\ output \in OutputType /\ stream \in StreamType /\ app \in AppType
      /\ server \in ServerType
  BY Parts
<1>1. SenderMoves("send_wait", "send_close")
  <2>1. FramesAt(n, "send_wait") \subseteq FramesAt(n, "send_close")
    BY StreamOutputAssumption DEF Present, FramesAt
  <2>2. SameHandles /\ pc[n] = "send_wait" /\ Goto(n, "send_close")
    BY <1>0, StreamOutputAssumption DEF SendWait, SameHandles, StreamType, OutputType
  <2>3. QED
    BY <1>0, <2>1, <2>2, SenderGoes
<1>2. /\ stream.sendSem > 0
      /\ stream' = [stream EXCEPT !.sendSem = @ - 1]
      /\ UNCHANGED <<output, app, server>>
  BY DEF SendWait
<1>10. Places'
  BY <1>0, <1>1, <1>2 DEF Places, StreamType
<1>11. Slots'
  BY <1>0, <1>1, <1>2
     DEF Slots, Places, Connects, OutputFlags, Leaves, View, Stops, Senders,
         StreamType
<1>12. Connects'
  BY <1>0, <1>1, <1>2
     DEF Connects, Places, Slots, OutputFlags, Senders, Stops, StreamType
<1>13. OutputFlags'
  BY <1>0, <1>1, <1>2 DEF OutputFlags, StreamType
<1>14. Senders'
  BY <1>0, <1>1, <1>2 DEF Senders, StreamType
<1>15. Stops'
  BY <1>0, <1>1, <1>2 DEF Stops, StreamType
<1>16. Leaves'
  BY <1>0, <1>1, <1>2 DEF Leaves, StreamType
<1>17. View'
  BY <1>0, <1>1, <1>2 DEF View, StreamType
<1>18. QED
  BY <1>1, <1>10, <1>11, <1>12, <1>13, <1>14, <1>15, <1>16, <1>17 DEF InPlace

\* otherwise a packet is taken.
LEMMA SendWokenInPlace ==
  ASSUME TypeOK, InPlace, Patient, NEW n \in Present, SendWait(n), ~ForcedToStop
  PROVE  InPlace'
<1>0. /\ Frames /\ Single /\ Places /\ Slots /\ Connects /\ OutputFlags
      /\ Senders /\ Stops /\ Leaves /\ View
      /\ output \in OutputType /\ stream \in StreamType /\ app \in AppType
      /\ server \in ServerType
  BY Parts
<1>1. SenderMoves("send_wait", "next_packet")
  <2>1. FramesAt(n, "send_wait") \subseteq FramesAt(n, "next_packet")
    BY StreamOutputAssumption DEF Present, FramesAt
  <2>2. SameHandles /\ pc[n] = "send_wait" /\ Goto(n, "next_packet")
    BY <1>0, StreamOutputAssumption DEF SendWait, SameHandles, StreamType, OutputType
  <2>3. QED
    BY <1>0, <2>1, <2>2, SenderGoes
<1>2. /\ stream.sendSem > 0
      /\ stream' = [stream EXCEPT !.sendSem = @ - 1]
      /\ UNCHANGED <<output, app, server>>
  BY DEF SendWait
<1>10. Places'
  BY <1>0, <1>1, <1>2 DEF Places, StreamType
<1>11. Slots'
  BY <1>0, <1>1, <1>2
     DEF Slots, Places, Connects, OutputFlags, Leaves, View, Stops, Senders,
         StreamType
<1>12. Connects'
  BY <1>0, <1>1, <1>2
     DEF Connects, Places, Slots, OutputFlags, Senders, Stops, StreamType
<1>13. OutputFlags'
  BY <1>0, <1>1, <1>2 DEF OutputFlags, StreamType
<1>14. Senders'
  BY <1>0, <1>1, <1>2 DEF Senders, StreamType
<1>15. Stops'
  BY <1>0, <1>1, <1>2 DEF Stops, StreamType
<1>16. Leaves'
  BY <1>0, <1>1, <1>2 DEF Leaves, StreamType
<1>17. View'
  BY <1>0, <1>1, <1>2 DEF View, StreamType
<1>18. QED
  BY <1>1, <1>10, <1>11, <1>12, <1>13, <1>14, <1>15, <1>16, <1>17 DEF InPlace

\* It lies past the stop,
LEMMA NextPacketLastInPlace ==
  ASSUME TypeOK, InPlace, Patient, NEW n \in Present, NextPacket(n),
         stream.stopEvent /\ (PastStop(Head(stream.packets)) \/ TimedOut)
  PROVE  InPlace'
<1>0. /\ Frames /\ Single /\ Places /\ Slots /\ Connects /\ OutputFlags
      /\ Senders /\ Stops /\ Leaves /\ View
      /\ output \in OutputType /\ stream \in StreamType /\ app \in AppType
      /\ server \in ServerType
  BY Parts
<1>1. SenderMoves("next_packet", "send_close")
  <2>1. FramesAt(n, "next_packet") \subseteq FramesAt(n, "send_close")
    BY StreamOutputAssumption DEF Present, FramesAt
  <2>2. SameHandles /\ pc[n] = "next_packet" /\ Goto(n, "send_close")
    BY <1>0, StreamOutputAssumption
       DEF NextPacket, SameHandles, StreamType, OutputType
  <2>3. QED
    BY <1>0, <2>1, <2>2, SenderGoes
<1>2. /\ stream.stopEvent
      /\ stream' = [stream EXCEPT !.packets = Tail(@)]
      /\ UNCHANGED <<output, app, server>>
  BY DEF NextPacket
<1>10. Places'
  BY <1>0, <1>1, <1>2 DEF Places, StreamType
<1>11. Slots'
  BY <1>0, <1>1, <1>2 DEF Slots, StreamType
<1>12. Connects'
  BY <1>0, <1>1, <1>2 DEF Connects, StreamType
<1>13. OutputFlags'
  BY <1>0, <1>1, <1>2 DEF OutputFlags, StreamType
<1>14. Senders'
  BY <1>0, <1>1, <1>2 DEF Senders, StreamType
<1>15. Stops'
  BY <1>0, <1>1, <1>2 DEF Stops, StreamType
<1>16. Leaves'
  BY <1>0, <1>1, <1>2 DEF Leaves, StreamType
<1>17. View'
  BY <1>0, <1>1, <1>2 DEF View, StreamType
<1>18. QED
  BY <1>1, <1>10, <1>11, <1>12, <1>13, <1>14, <1>15, <1>16, <1>17 DEF InPlace

\* or is to be sent.
LEMMA NextPacketInPlace ==
  ASSUME TypeOK, InPlace, Patient, NEW n \in Present, NextPacket(n),
         ~(stream.stopEvent /\ (PastStop(Head(stream.packets)) \/ TimedOut))
  PROVE  InPlace'
<1>0. /\ Frames /\ Single /\ Places /\ Slots /\ Connects /\ OutputFlags
      /\ Senders /\ Stops /\ Leaves /\ View
      /\ output \in OutputType /\ stream \in StreamType /\ app \in AppType
      /\ server \in ServerType
  BY Parts
<1>1. SenderMoves("next_packet", "send_packet")
  <2>1. FramesAt(n, "next_packet") \subseteq FramesAt(n, "send_packet")
    BY StreamOutputAssumption DEF Present, FramesAt
  <2>2. SameHandles /\ pc[n] = "next_packet" /\ Goto(n, "send_packet")
    BY <1>0, StreamOutputAssumption
       DEF NextPacket, SameHandles, StreamType, OutputType
  <2>3. QED
    BY <1>0, <2>1, <2>2, SenderGoes
<1>2. /\ stream' = [stream EXCEPT !.packets = Tail(@)]
      /\ UNCHANGED <<output, app, server>>
  BY DEF NextPacket
<1>10. Places'
  BY <1>0, <1>1, <1>2 DEF Places, StreamType
<1>11. Slots'
  BY <1>0, <1>1, <1>2 DEF Slots, StreamType
<1>12. Connects'
  BY <1>0, <1>1, <1>2 DEF Connects, StreamType
<1>13. OutputFlags'
  BY <1>0, <1>1, <1>2 DEF OutputFlags, StreamType
<1>14. Senders'
  BY <1>0, <1>1, <1>2 DEF Senders, StreamType
<1>15. Stops'
  BY <1>0, <1>1, <1>2 DEF Stops, StreamType
<1>16. Leaves'
  BY <1>0, <1>1, <1>2 DEF Leaves, StreamType
<1>17. View'
  BY <1>0, <1>1, <1>2 DEF View, StreamType
<1>18. QED
  BY <1>1, <1>10, <1>11, <1>12, <1>13, <1>14, <1>15, <1>16, <1>17 DEF InPlace

\* There is none.
LEMMA NoPacketInPlace ==
  ASSUME TypeOK, InPlace, Patient, NEW n \in Present, NoPacket(n)
  PROVE  InPlace'
<1>0. /\ Frames /\ Single /\ Places /\ Slots /\ Connects /\ OutputFlags
      /\ Senders /\ Stops /\ Leaves /\ View
      /\ output \in OutputType /\ stream \in StreamType /\ app \in AppType
      /\ server \in ServerType
  BY Parts
<1>1. SenderMoves("next_packet", "send_wait")
  <2>1. FramesAt(n, "next_packet") \subseteq FramesAt(n, "send_wait")
    BY StreamOutputAssumption DEF Present, FramesAt
  <2>2. SameHandles /\ pc[n] = "next_packet" /\ Goto(n, "send_wait")
    BY <1>0, StreamOutputAssumption DEF NoPacket, SameHandles, StreamType, OutputType
  <2>3. QED
    BY <1>0, <2>1, <2>2, SenderGoes
<1>2. UNCHANGED <<output, stream, app, server>>
  BY DEF NoPacket
<1>10. Places'
  BY <1>0, <1>1, <1>2 DEF Places
<1>11. Slots'
  BY <1>0, <1>1, <1>2 DEF Slots
<1>12. Connects'
  BY <1>0, <1>1, <1>2 DEF Connects
<1>13. OutputFlags'
  BY <1>0, <1>1, <1>2 DEF OutputFlags
<1>14. Senders'
  BY <1>0, <1>1, <1>2 DEF Senders
<1>15. Stops'
  BY <1>0, <1>1, <1>2 DEF Stops
<1>16. Leaves'
  BY <1>0, <1>1, <1>2 DEF Leaves
<1>17. View'
  BY <1>0, <1>1, <1>2 DEF View
<1>18. QED
  BY <1>1, <1>10, <1>11, <1>12, <1>13, <1>14, <1>15, <1>16, <1>17 DEF InPlace

\* The packet is sent,
LEMMA SendPacketInPlace ==
  ASSUME TypeOK, InPlace, Patient, NEW n \in Present, SendPacket(n)
  PROVE  InPlace'
<1>0. /\ Frames /\ Single /\ Places /\ Slots /\ Connects /\ OutputFlags
      /\ Senders /\ Stops /\ Leaves /\ View
      /\ output \in OutputType /\ stream \in StreamType /\ app \in AppType
      /\ server \in ServerType
  BY Parts
<1>1. SenderMoves("send_packet", "send_wait")
  <2>1. FramesAt(n, "send_packet") \subseteq FramesAt(n, "send_wait")
    BY StreamOutputAssumption DEF Present, FramesAt
  <2>2. SameHandles /\ pc[n] = "send_packet" /\ Goto(n, "send_wait")
    BY <1>0, StreamOutputAssumption
       DEF SendPacket, SameHandles, StreamType, OutputType
  <2>3. QED
    BY <1>0, <2>1, <2>2, SenderGoes
<1>2. UNCHANGED <<output, stream, app, server>>
  BY DEF SendPacket
<1>10. Places'
  BY <1>0, <1>1, <1>2 DEF Places
<1>11. Slots'
  BY <1>0, <1>1, <1>2 DEF Slots
<1>12. Connects'
  BY <1>0, <1>1, <1>2 DEF Connects
<1>13. OutputFlags'
  BY <1>0, <1>1, <1>2 DEF OutputFlags
<1>14. Senders'
  BY <1>0, <1>1, <1>2 DEF Senders
<1>15. Stops'
  BY <1>0, <1>1, <1>2 DEF Stops
<1>16. Leaves'
  BY <1>0, <1>1, <1>2 DEF Leaves
<1>17. View'
  BY <1>0, <1>1, <1>2 DEF View
<1>18. QED
  BY <1>1, <1>10, <1>11, <1>12, <1>13, <1>14, <1>15, <1>16, <1>17 DEF InPlace

\* or the connection is lost: nothing else goes on then.
LEMMA SendFailsInPlace ==
  ASSUME TypeOK, InPlace, Patient, NEW n \in Present, SendFails(n)
  PROVE  InPlace'
<1>0. /\ Frames /\ Single /\ Places /\ Slots /\ Connects /\ OutputFlags
      /\ Senders /\ Stops /\ Leaves /\ View
      /\ output \in OutputType /\ stream \in StreamType /\ app \in AppType
      /\ server \in ServerType
  BY Parts
<1>1. SenderMoves("send_packet", "send_close")
  <2>1. FramesAt(n, "send_packet") \subseteq FramesAt(n, "send_close")
    BY StreamOutputAssumption DEF Present, FramesAt
  <2>2. SameHandles /\ pc[n] = "send_packet" /\ Goto(n, "send_close")
    BY <1>0, StreamOutputAssumption DEF SendFails, SameHandles, StreamType, OutputType
  <2>3. QED
    BY <1>0, <2>1, <2>2, SenderGoes
<1>2. /\ stream' = [stream EXCEPT !.disconnected = TRUE]
      /\ UNCHANGED <<output, app, server>>
  BY DEF SendFails
<1>5. Connector = Dead /\ Leaver = "loop" /\ Slot \notin Asking \cup Asked
  <2>1. Live(ConnectThreads) = {} /\ ~app.quitting /\ Slot \notin StopLabels
    BY DEF SendFails, Patient, MidStop, Slot
  <2>2. QED
    BY <1>0, <2>1 DEF Connector, At, Slots, StopLabels
<1>10. Places'
  BY <1>0, <1>1, <1>2, <1>5 DEF Places, StreamType
<1>11. Slots'
  BY <1>0, <1>1, <1>2, <1>5 DEF Slots, StreamType
<1>12. Connects'
  BY <1>0, <1>1, <1>2, <1>5 DEF Connects, StreamType
<1>13. OutputFlags'
  BY <1>0, <1>1, <1>2, <1>5 DEF OutputFlags, StreamType
<1>14. Senders'
  BY <1>0, <1>1, <1>2, <1>5 DEF Senders, StreamType
<1>15. Stops'
  BY <1>0, <1>1, <1>2, <1>5 DEF Stops, Places, Slots, StreamType
<1>16. Leaves'
  BY <1>0, <1>1, <1>2, <1>5 DEF Leaves, StreamType
<1>17. View'
  BY <1>0, <1>1, <1>2, <1>5 DEF View, StreamType
<1>18. QED
  BY <1>1, <1>10, <1>11, <1>12, <1>13, <1>14, <1>15, <1>16, <1>17 DEF InPlace

\* A thread that was told to stop ends the capture,
LEMMA SendCloseToldInPlace ==
  ASSUME TypeOK, InPlace, Patient, NEW n \in Present, SendClose(n), stream.stopEvent
  PROVE  InPlace'
<1>0. /\ Frames /\ Single /\ Places /\ Slots /\ Connects /\ OutputFlags
      /\ Senders /\ Stops /\ Leaves /\ View
      /\ output \in OutputType /\ stream \in StreamType /\ app \in AppType
      /\ server \in ServerType
  BY Parts
<1>1. SenderMoves("send_close", "end_check")
  <2>1. pc[n] = "send_close" /\ Call(n, "end_check", "send_free") /\ SameHandles
    BY <1>0, StreamOutputAssumption DEF SendClose, SameHandles, StreamType, OutputType
  <2>2. stack[n] = <<>>
    BY <1>0, <2>1, StreamOutputAssumption DEF Frames, Present, FramesAt
  <2>3. <<"send_free">> \o <<>> = <<"send_free">>
    BY Push1, Push2
  <2>4. <<"send_free">> \in FramesAt(n, "end_check")
    BY StreamOutputAssumption DEF Present, FramesAt
  <2>5. /\ pc' = [pc EXCEPT ![n] = "end_check"]
        /\ stack' = [stack EXCEPT ![n] = <<"send_free">>]
    BY <2>1, <2>2, <2>3 DEF Call
  <2>6. QED
    BY <1>0, <2>1, <2>4, <2>5, SenderAdvances
<1>2. UNCHANGED <<output, stream, app, server>>
  BY DEF SendClose
<1>10. Places'
  BY <1>0, <1>1, <1>2 DEF Places
<1>11. Slots'
  BY <1>0, <1>1, <1>2 DEF Slots
<1>12. Connects'
  BY <1>0, <1>1, <1>2 DEF Connects
<1>13. OutputFlags'
  BY <1>0, <1>1, <1>2 DEF OutputFlags
<1>14. Senders'
  BY <1>0, <1>1, <1>2 DEF Senders
<1>15. Stops'
  BY <1>0, <1>1, <1>2 DEF Stops
<1>16. Leaves'
  BY <1>0, <1>1, <1>2 DEF Leaves
<1>17. View'
  BY <1>0, <1>1, <1>2 DEF View
<1>18. QED
  BY <1>1, <1>10, <1>11, <1>12, <1>13, <1>14, <1>15, <1>16, <1>17 DEF InPlace

\* one that was not lets go of its handle first.
LEMMA SendCloseInPlace ==
  ASSUME TypeOK, InPlace, Patient, NEW n \in Present, SendClose(n), ~stream.stopEvent
  PROVE  InPlace'
<1>0. /\ Frames /\ Single /\ Places /\ Slots /\ Connects /\ OutputFlags
      /\ Senders /\ Stops /\ Leaves /\ View
      /\ output \in OutputType /\ stream \in StreamType /\ app \in AppType
      /\ server \in ServerType
  BY Parts
<1>1. SenderMoves("send_close", "end_check")
  <2>1. pc[n] = "send_close" /\ Call(n, "end_check", "send_free") /\ SameHandles
    BY <1>0, StreamOutputAssumption
       DEF SendClose, SignalStop, SameHandles, StreamType, OutputType
  <2>2. stack[n] = <<>>
    BY <1>0, <2>1, StreamOutputAssumption DEF Frames, Present, FramesAt
  <2>3. <<"send_free">> \o <<>> = <<"send_free">>
    BY Push1, Push2
  <2>4. <<"send_free">> \in FramesAt(n, "end_check")
    BY StreamOutputAssumption DEF Present, FramesAt
  <2>5. /\ pc' = [pc EXCEPT ![n] = "end_check"]
        /\ stack' = [stack EXCEPT ![n] = <<"send_free">>]
    BY <2>1, <2>2, <2>3 DEF Call
  <2>6. QED
    BY <1>0, <2>1, <2>4, <2>5, SenderAdvances
<1>2. /\ output' = [output EXCEPT !.stopCode = "disconnected"]
      /\ UNCHANGED <<app, server>>
      /\ \E d : stream' = [stream EXCEPT !.detached = d]
  BY DEF SendClose, SignalStop
<1>10. Places'
  BY <1>0, <1>1, <1>2 DEF Places, OutputType, StreamType
<1>11. Slots'
  BY <1>0, <1>1, <1>2 DEF Slots, OutputType, StreamType
<1>12. Connects'
  BY <1>0, <1>1, <1>2 DEF Connects, OutputType, StreamType
<1>13. OutputFlags'
  BY <1>0, <1>1, <1>2 DEF OutputFlags, OutputType, StreamType
<1>14. Senders'
  BY <1>0, <1>1, <1>2 DEF Senders, OutputType, StreamType
<1>15. Stops'
  BY <1>0, <1>1, <1>2 DEF Stops, OutputType, StreamType
<1>16. Leaves'
  BY <1>0, <1>1, <1>2 DEF Leaves, OutputType, StreamType
<1>17. View'
  BY <1>0, <1>1, <1>2 DEF View, OutputType, StreamType
<1>18. QED
  BY <1>1, <1>10, <1>11, <1>12, <1>13, <1>14, <1>15, <1>16, <1>17 DEF InPlace

\* What is queued is freed,
LEMMA SendFreeInPlace ==
  ASSUME TypeOK, InPlace, Patient, NEW n \in Present, SendFree(n)
  PROVE  InPlace'
<1>0. /\ Frames /\ Single /\ Places /\ Slots /\ Connects /\ OutputFlags
      /\ Senders /\ Stops /\ Leaves /\ View
      /\ output \in OutputType /\ stream \in StreamType /\ app \in AppType
      /\ server \in ServerType
  BY Parts
<1>1. SenderMoves("send_free", "send_reset")
  <2>1. FramesAt(n, "send_free") \subseteq FramesAt(n, "send_reset")
    BY StreamOutputAssumption DEF Present, FramesAt
  <2>2. SameHandles /\ pc[n] = "send_free" /\ Goto(n, "send_reset")
    BY <1>0, StreamOutputAssumption DEF SendFree, SameHandles, StreamType, OutputType
  <2>3. QED
    BY <1>0, <2>1, <2>2, SenderGoes
<1>2. stream' = [stream EXCEPT !.packets = <<>>] /\ UNCHANGED <<output, app, server>>
  BY DEF SendFree
<1>10. Places'
  BY <1>0, <1>1, <1>2 DEF Places, StreamType
<1>11. Slots'
  BY <1>0, <1>1, <1>2 DEF Slots, StreamType
<1>12. Connects'
  BY <1>0, <1>1, <1>2 DEF Connects, StreamType
<1>13. OutputFlags'
  BY <1>0, <1>1, <1>2 DEF OutputFlags, StreamType
<1>14. Senders'
  BY <1>0, <1>1, <1>2 DEF Senders, StreamType
<1>15. Stops'
  BY <1>0, <1>1, <1>2 DEF Stops, StreamType
<1>16. Leaves'
  BY <1>0, <1>1, <1>2 DEF Leaves, StreamType
<1>17. View'
  BY <1>0, <1>1, <1>2 DEF View, StreamType
<1>18. QED
  BY <1>1, <1>10, <1>11, <1>12, <1>13, <1>14, <1>15, <1>16, <1>17 DEF InPlace

\* the stop event reset,
LEMMA SendResetInPlace ==
  ASSUME TypeOK, InPlace, Patient, NEW n \in Present, SendReset(n)
  PROVE  InPlace'
<1>0. /\ Frames /\ Single /\ Places /\ Slots /\ Connects /\ OutputFlags
      /\ Senders /\ Stops /\ Leaves /\ View
      /\ output \in OutputType /\ stream \in StreamType /\ app \in AppType
      /\ server \in ServerType
  BY Parts
<1>1. SenderMoves("send_reset", "send_inactive")
  <2>1. FramesAt(n, "send_reset") \subseteq FramesAt(n, "send_inactive")
    BY StreamOutputAssumption DEF Present, FramesAt
  <2>2. SameHandles /\ pc[n] = "send_reset" /\ Goto(n, "send_inactive")
    BY <1>0, StreamOutputAssumption DEF SendReset, SameHandles, StreamType, OutputType
  <2>3. QED
    BY <1>0, <2>1, <2>2, SenderGoes
<1>2. /\ stream' = [stream EXCEPT !.stopEvent = FALSE]
      /\ UNCHANGED <<output, app, server>>
  BY DEF SendReset
<1>10. Places'
  BY <1>0, <1>1, <1>2 DEF Places, StreamType
<1>11. Slots'
  BY <1>0, <1>1, <1>2 DEF Slots, StreamType
<1>12. Connects'
  BY <1>0, <1>1, <1>2 DEF Connects, StreamType
<1>13. OutputFlags'
  BY <1>0, <1>1, <1>2 DEF OutputFlags, StreamType
<1>14. Senders'
  BY <1>0, <1>1, <1>2 DEF Senders, StreamType
<1>15. Stops'
  BY <1>0, <1>1, <1>2 DEF Stops, StreamType
<1>16. Leaves'
  BY <1>0, <1>1, <1>2 DEF Leaves, StreamType
<1>17. View'
  BY <1>0, <1>1, <1>2 DEF View, StreamType
<1>18. QED
  BY <1>1, <1>10, <1>11, <1>12, <1>13, <1>14, <1>15, <1>16, <1>17 DEF InPlace

\* and the stream inactive.
LEMMA SendInactiveInPlace ==
  ASSUME TypeOK, InPlace, Patient, NEW n \in Present, SendInactive(n)
  PROVE  InPlace'
<1>0. /\ Frames /\ Single /\ Places /\ Slots /\ Connects /\ OutputFlags
      /\ Senders /\ Stops /\ Leaves /\ View
      /\ output \in OutputType /\ stream \in StreamType /\ app \in AppType
      /\ server \in ServerType
  BY Parts
<1>1. SenderMoves("send_inactive", "dead")
  <2>1. FramesAt(n, "send_inactive") \subseteq FramesAt(n, "dead")
    BY StreamOutputAssumption DEF Present, FramesAt
  <2>2. SameHandles /\ pc[n] = "send_inactive" /\ Goto(n, "dead")
    BY <1>0, StreamOutputAssumption
       DEF SendInactive, SameHandles, StreamType, OutputType
  <2>3. QED
    BY <1>0, <2>1, <2>2, SenderGoes
<1>2. stream' = [stream EXCEPT !.active = FALSE] /\ UNCHANGED <<output, app, server>>
  BY DEF SendInactive
<1>10. Places'
  BY <1>0, <1>1, <1>2 DEF Places, StreamType
<1>11. Slots'
  BY <1>0, <1>1, <1>2 DEF Slots, StreamType
<1>12. Connects'
  BY <1>0, <1>1, <1>2 DEF Connects, StreamType
<1>13. OutputFlags'
  BY <1>0, <1>1, <1>2 DEF OutputFlags, StreamType
<1>14. Senders'
  BY <1>0, <1>1, <1>2 DEF Senders, StreamType
<1>15. Stops'
  BY <1>0, <1>1, <1>2 DEF Stops, StreamType
<1>16. Leaves'
  BY <1>0, <1>1, <1>2 DEF Leaves, StreamType
<1>17. View'
  BY <1>0, <1>1, <1>2 DEF View, StreamType
<1>18. QED
  BY <1>1, <1>10, <1>11, <1>12, <1>13, <1>14, <1>15, <1>16, <1>17 DEF InPlace

\* There is a capture to end,
LEMMA EndCheckSendInPlace ==
  ASSUME TypeOK, InPlace, Patient, NEW n \in Present, EndCheck(n), Silent,
         output.dataActive
  PROVE  InPlace'
<1>0. /\ Frames /\ Single /\ Places /\ Slots /\ Connects /\ OutputFlags
      /\ Senders /\ Stops /\ Leaves /\ View
      /\ output \in OutputType /\ stream \in StreamType /\ app \in AppType
      /\ server \in ServerType
  BY Parts
<1>4. output.active
  <2>1. Sender = "end_check"
    BY <1>0, AtAlone DEF EndCheck, Single, Sender
  <2>2. QED
    BY <1>0, <2>1 DEF OutputFlags, Connects
<1>1. SenderMoves("end_check", "end_clear")
  <2>1. FramesAt(n, "end_check") \subseteq FramesAt(n, "end_clear")
    BY StreamOutputAssumption DEF Present, FramesAt
  <2>2. SameHandles /\ pc[n] = "end_check" /\ Goto(n, "end_clear")
    BY <1>0, <1>4, StreamOutputAssumption
       DEF EndCheck, SameHandles, StreamType, OutputType
  <2>3. QED
    BY <1>0, <2>1, <2>2, SenderGoes
<1>2. UNCHANGED <<output, stream, app, server>>
  BY <1>4 DEF EndCheck
<1>10. Places'
  BY <1>0, <1>1, <1>2, <1>4 DEF Places
<1>11. Slots'
  BY <1>0, <1>1, <1>2, <1>4 DEF Slots
<1>12. Connects'
  BY <1>0, <1>1, <1>2, <1>4 DEF Connects
<1>13. OutputFlags'
  BY <1>0, <1>1, <1>2, <1>4 DEF OutputFlags
<1>14. Senders'
  BY <1>0, <1>1, <1>2, <1>4 DEF Senders
<1>15. Stops'
  BY <1>0, <1>1, <1>2, <1>4 DEF Stops
<1>16. Leaves'
  BY <1>0, <1>1, <1>2, <1>4 DEF Leaves
<1>17. View'
  BY <1>0, <1>1, <1>2, <1>4 DEF View
<1>18. QED
  BY <1>1, <1>10, <1>11, <1>12, <1>13, <1>14, <1>15, <1>16, <1>17 DEF InPlace

\* or, as the process leaves, none.
LEMMA EndNothingInPlace ==
  ASSUME TypeOK, InPlace, Patient, NEW n \in Present, EndCheck(n), Silent,
         ~output.dataActive
  PROVE  InPlace'
<1>0. /\ Frames /\ Single /\ Places /\ Slots /\ Connects /\ OutputFlags
      /\ Senders /\ Stops /\ Leaves /\ View
      /\ output \in OutputType /\ stream \in StreamType /\ app \in AppType
      /\ server \in ServerType
  BY Parts
<1>1. SenderMoves("end_check", "end_inactive")
  <2>1. FramesAt(n, "end_check") \subseteq FramesAt(n, "end_inactive")
    BY StreamOutputAssumption DEF Present, FramesAt
  <2>2. SameHandles /\ pc[n] = "end_check" /\ Goto(n, "end_inactive")
    BY <1>0, StreamOutputAssumption DEF EndCheck, SameHandles, StreamType, OutputType
  <2>3. QED
    BY <1>0, <2>1, <2>2, SenderGoes
<1>2. UNCHANGED <<output, stream, app, server>>
  BY DEF EndCheck
<1>10. Places'
  BY <1>0, <1>1, <1>2 DEF Places
<1>11. Slots'
  BY <1>0, <1>1, <1>2 DEF Slots
<1>12. Connects'
  BY <1>0, <1>1, <1>2 DEF Connects
<1>13. OutputFlags'
  BY <1>0, <1>1, <1>2 DEF OutputFlags
<1>14. Senders'
  BY <1>0, <1>1, <1>2 DEF Senders
<1>15. Stops'
  BY <1>0, <1>1, <1>2 DEF Stops
<1>16. Leaves'
  BY <1>0, <1>1, <1>2 DEF Leaves
<1>17. View'
  BY <1>0, <1>1, <1>2 DEF View
<1>18. QED
  BY <1>1, <1>10, <1>11, <1>12, <1>13, <1>14, <1>15, <1>16, <1>17 DEF InPlace

\* Nobody is told then.
LEMMA EndInactiveSendInPlace ==
  ASSUME TypeOK, InPlace, Patient, NEW n \in Present, EndInactive(n),
         StreamingStopped(n), UNCHANGED stream
  PROVE  InPlace'
<1>0. /\ Frames /\ Single /\ Places /\ Slots /\ Connects /\ OutputFlags
      /\ Senders /\ Stops /\ Leaves /\ View
      /\ output \in OutputType /\ stream \in StreamType /\ app \in AppType
      /\ server \in ServerType
  BY Parts
<1>1. SenderMoves("end_inactive", "send_free")
  <2>1. pc[n] = "end_inactive" /\ Return(n) /\ SameHandles
    BY <1>0, StreamOutputAssumption
       DEF EndInactive, SameHandles, StreamType, OutputType
  <2>2. stack[n] = <<"send_free">>
    BY <1>0, <2>1, StreamOutputAssumption DEF Frames, Present, FramesAt
  <2>3. Head(stack[n]) = "send_free" /\ Tail(stack[n]) = <<>>
    BY ONLY <2>2
  <2>4. <<>> \in FramesAt(n, "send_free")
    BY StreamOutputAssumption DEF Present, FramesAt
  <2>5. pc' = [pc EXCEPT ![n] = "send_free"] /\ stack' = [stack EXCEPT ![n] = <<>>]
    BY <2>1, <2>3 DEF Return
  <2>6. QED
    BY <1>0, <2>1, <2>4, <2>5, SenderAdvances
<1>2. output' = [output EXCEPT !.stopCode = "success", !.stoppingEvent = TRUE]
      /\ UNCHANGED stream
  BY DEF EndInactive
<1>5. UNCHANGED <<app, server>>
  <2>1. ~app.connected
    BY <1>0, <1>1 DEF Senders, Slots
  <2>2. QED
    BY <2>1 DEF StreamingStopped, Notify
<1>10. Places'
  BY <1>0, <1>1, <1>2, <1>5 DEF Places, OutputType
<1>11. Slots'
  BY <1>0, <1>1, <1>2, <1>5 DEF Slots, OutputType
<1>12. Connects'
  BY <1>0, <1>1, <1>2, <1>5 DEF Connects, OutputType
<1>13. OutputFlags'
  BY <1>0, <1>1, <1>2, <1>5 DEF OutputFlags, OutputType
<1>14. Senders'
  BY <1>0, <1>1, <1>2, <1>5 DEF Senders, OutputType
<1>15. Stops'
  BY <1>0, <1>1, <1>2, <1>5 DEF Stops, OutputType
<1>16. Leaves'
  BY <1>0, <1>1, <1>2, <1>5
     DEF Leaves, Places, Slots, OutputFlags, Senders, Stops, Connects, OutputType
<1>17. View'
  BY <1>0, <1>1, <1>2, <1>5 DEF View, OutputType
<1>18. QED
  BY <1>1, <1>10, <1>11, <1>12, <1>13, <1>14, <1>15, <1>16, <1>17 DEF InPlace

\* The capture is cleared.
LEMMA EndClearInPlace ==
  ASSUME TypeOK, InPlace, Patient, NEW n \in Present, EndClear(n), Silent
  PROVE  InPlace'
<1>0. /\ Frames /\ Single /\ Places /\ Slots /\ Connects /\ OutputFlags
      /\ Senders /\ Stops /\ Leaves /\ View
      /\ output \in OutputType /\ stream \in StreamType /\ app \in AppType
      /\ server \in ServerType
  BY Parts
<1>1. SenderMoves("end_clear", "end_join")
  <2>1. FramesAt(n, "end_clear") \subseteq FramesAt(n, "end_join")
    BY StreamOutputAssumption DEF Present, FramesAt
  <2>2. SameHandles /\ pc[n] = "end_clear" /\ Goto(n, "end_join")
    BY <1>0, StreamOutputAssumption DEF EndClear, SameHandles, StreamType, OutputType
  <2>3. QED
    BY <1>0, <2>1, <2>2, SenderGoes
<1>2. /\ output' = [output EXCEPT !.dataActive = FALSE]
      /\ UNCHANGED <<stream, app, server>>
  BY DEF EndClear
<1>10. Places'
  BY <1>0, <1>1, <1>2 DEF Places, OutputType
<1>11. Slots'
  BY <1>0, <1>1, <1>2 DEF Slots, OutputType
<1>12. Connects'
  BY <1>0, <1>1, <1>2 DEF Connects, OutputType
<1>13. OutputFlags'
  BY <1>0, <1>1, <1>2 DEF OutputFlags, OutputType
<1>14. Senders'
  BY <1>0, <1>1, <1>2 DEF Senders, OutputType
<1>15. Stops'
  BY <1>0, <1>1, <1>2 DEF Stops, OutputType
<1>16. Leaves'
  BY <1>0, <1>1, <1>2
     DEF Leaves, Places, Slots, OutputFlags, Senders, Stops, Connects, OutputType
<1>17. View'
  BY <1>0, <1>1, <1>2
     DEF View, Places, Slots, Connects, OutputFlags, Senders, Leaves, Stops,
         OutputType
<1>18. QED
  BY <1>1, <1>10, <1>11, <1>12, <1>13, <1>14, <1>15, <1>16, <1>17 DEF InPlace

\* The flag of the end thread is raised.
LEMMA EndJoinInPlace ==
  ASSUME TypeOK, InPlace, Patient, NEW n \in Present, EndJoin(n), Silent
  PROVE  InPlace'
<1>0. /\ Frames /\ Single /\ Places /\ Slots /\ Connects /\ OutputFlags
      /\ Senders /\ Stops /\ Leaves /\ View
      /\ output \in OutputType /\ stream \in StreamType /\ app \in AppType
      /\ server \in ServerType
  BY Parts
<1>1. SenderMoves("end_join", "end_create")
  <2>1. FramesAt(n, "end_join") \subseteq FramesAt(n, "end_create")
    BY StreamOutputAssumption DEF Present, FramesAt
  <2>2. SameHandles /\ pc[n] = "end_join" /\ Goto(n, "end_create")
    BY <1>0, StreamOutputAssumption DEF EndJoin, SameHandles, StreamType, OutputType
  <2>3. QED
    BY <1>0, <2>1, <2>2, SenderGoes
<1>2. /\ output' = [output EXCEPT !.endThreadActive = TRUE]
      /\ UNCHANGED <<stream, app, server>>
  BY DEF EndJoin
<1>10. Places'
  BY <1>0, <1>1, <1>2 DEF Places, OutputType
<1>11. Slots'
  BY <1>0, <1>1, <1>2 DEF Slots, OutputType
<1>12. Connects'
  BY <1>0, <1>1, <1>2 DEF Connects, OutputType
<1>13. OutputFlags'
  BY <1>0, <1>1, <1>2 DEF OutputFlags, OutputType
<1>14. Senders'
  BY <1>0, <1>1, <1>2 DEF Senders, OutputType
<1>15. Stops'
  BY <1>0, <1>1, <1>2 DEF Stops, OutputType
<1>16. Leaves'
  BY <1>0, <1>1, <1>2 DEF Leaves, OutputType
<1>17. View'
  BY <1>0, <1>1, <1>2 DEF View, OutputType
<1>18. QED
  BY <1>1, <1>10, <1>11, <1>12, <1>13, <1>14, <1>15, <1>16, <1>17 DEF InPlace

\* Without an end thread its code runs in the caller.
LEMMA EndCreateFailsInPlace ==
  ASSUME TypeOK, InPlace, Patient, NEW n \in Present, EndCreateFails(n), Silent
  PROVE  InPlace'
<1>0. /\ Frames /\ Single /\ Places /\ Slots /\ Connects /\ OutputFlags
      /\ Senders /\ Stops /\ Leaves /\ View
      /\ output \in OutputType /\ stream \in StreamType /\ app \in AppType
      /\ server \in ServerType
  BY Parts
<1>1. SenderMoves("end_create", "end_disconnect")
  <2>1. pc[n] = "end_create" /\ Call(n, "end_disconnect", "end_signal") /\ SameHandles
    BY <1>0, StreamOutputAssumption
       DEF EndCreateFails, SameHandles, StreamType, OutputType
  <2>2. stack[n] = <<"send_free">>
    BY <1>0, <2>1, StreamOutputAssumption DEF Frames, Present, FramesAt
  <2>3. <<"end_signal">> \o <<"send_free">> = <<"end_signal", "send_free">>
    BY Push1, Push2
  <2>4. <<"end_signal", "send_free">> \in FramesAt(n, "end_disconnect")
    BY StreamOutputAssumption DEF Present, FramesAt
  <2>5. /\ pc' = [pc EXCEPT ![n] = "end_disconnect"]
        /\ stack' = [stack EXCEPT ![n] = <<"end_signal", "send_free">>]
    BY <2>1, <2>2, <2>3 DEF Call
  <2>6. QED
    BY <1>0, <2>1, <2>4, <2>5, SenderAdvances
<1>2. UNCHANGED <<output, stream, app, server>>
  BY DEF EndCreateFails
<1>10. Places'
  BY <1>0, <1>1, <1>2 DEF Places
<1>11. Slots'
  BY <1>0, <1>1, <1>2 DEF Slots
<1>12. Connects'
  BY <1>0, <1>1, <1>2 DEF Connects
<1>13. OutputFlags'
  BY <1>0, <1>1, <1>2 DEF OutputFlags
<1>14. Senders'
  BY <1>0, <1>1, <1>2 DEF Senders
<1>15. Stops'
  BY <1>0, <1>1, <1>2 DEF Stops
<1>16. Leaves'
  BY <1>0, <1>1, <1>2 DEF Leaves
<1>17. View'
  BY <1>0, <1>1, <1>2 DEF View
<1>18. QED
  BY <1>1, <1>10, <1>11, <1>12, <1>13, <1>14, <1>15, <1>16, <1>17 DEF InPlace

\* The end is reported, while the signals are connected.
LEMMA EndSignalInPlace ==
  ASSUME TypeOK, InPlace, Patient, NEW n \in Present, EndSignal(n),
         StreamingStopped(n), UNCHANGED stream
  PROVE  InPlace'
<1>0. /\ Frames /\ Single /\ Places /\ Slots /\ Connects /\ OutputFlags
      /\ Senders /\ Stops /\ Leaves /\ View
      /\ output \in OutputType /\ stream \in StreamType /\ app \in AppType
      /\ server \in ServerType
  BY Parts
<1>1. SenderMoves("end_signal", "send_free")
  <2>1. pc[n] = "end_signal" /\ Return(n) /\ SameHandles
    BY <1>0, StreamOutputAssumption DEF EndSignal, SameHandles, StreamType, OutputType
  <2>2. stack[n] = <<"send_free">>
    BY <1>0, <2>1, StreamOutputAssumption DEF Frames, Present, FramesAt
  <2>3. Head(stack[n]) = "send_free" /\ Tail(stack[n]) = <<>>
    BY ONLY <2>2
  <2>4. <<>> \in FramesAt(n, "send_free")
    BY StreamOutputAssumption DEF Present, FramesAt
  <2>5. pc' = [pc EXCEPT ![n] = "send_free"] /\ stack' = [stack EXCEPT ![n] = <<>>]
    BY <2>1, <2>3 DEF Return
  <2>6. QED
    BY <1>0, <2>1, <2>4, <2>5, SenderAdvances
<1>2. output' = [output EXCEPT !.stopCode = "success"] /\ UNCHANGED stream
  BY DEF EndSignal
<1>5. /\ UNCHANGED <<app.connected, app.quitting, server>>
      /\ \/ ~app.connected /\ UNCHANGED app.posted
         \/ app.connected /\ Quiet /\ Answered'
         \/ app.connected /\ Hailed /\ Both'
  <2>1. Quiet \/ Hailed
    BY <1>0, <1>1 DEF View
  <2>2. n # OBS
    BY StreamOutputAssumption DEF Present
  <2>3. PICK m \in {"stopped", "error"} : Notify(n, m)
    BY DEF StreamingStopped
  <2>4. CASE ~app.connected
    BY <2>3, <2>4 DEF Notify
  <2>5. CASE app.connected
    <3>1. app' = [app EXCEPT !.posted = Append(app.posted, m)] /\ UNCHANGED server
      BY <2>2, <2>3, <2>5 DEF Notify
    <3>2. /\ app'.posted = Append(app.posted, m)
          /\ UNCHANGED <<app.connected, app.quitting>>
      BY <1>0, <3>1 DEF AppType
    <3>3. CASE Quiet
      BY <2>5, <3>1, <3>2, <3>3, Posted
    <3>4. CASE Hailed
      BY <2>5, <3>1, <3>2, <3>4, Posted
    <3>5. QED
      BY <2>1, <3>3, <3>4
  <2>6. QED
    BY <2>4, <2>5
<1>10. Places'
  BY <1>0, <1>1, <1>2, <1>5 DEF Places, OutputType
<1>11. Slots'
  BY <1>0, <1>1, <1>2, <1>5 DEF Slots, OutputType
<1>12. Connects'
  BY <1>0, <1>1, <1>2, <1>5 DEF Connects, OutputType
<1>13. OutputFlags'
  BY <1>0, <1>1, <1>2, <1>5 DEF OutputFlags, OutputType
<1>14. Senders'
  BY <1>0, <1>1, <1>2, <1>5 DEF Senders, OutputType
<1>15. Stops'
  BY <1>0, <1>1, <1>2, <1>5 DEF Stops, OutputType
<1>16. Leaves'
  BY <1>0, <1>1, <1>2, <1>5 DEF Leaves, OutputType
<1>17. View'
  BY <1>0, <1>1, <1>2, <1>5, OneNotice
     DEF View, Places, Slots, Connects, OutputFlags, Senders, Leaves, Stops,
         OutputType
<1>18. QED
  BY <1>1, <1>10, <1>11, <1>12, <1>13, <1>14, <1>15, <1>16, <1>17 DEF InPlace

\* Nor is anybody told by the main thread.
LEMMA EndInactiveMainInPlace ==
  ASSUME TypeOK, InPlace, Patient, EndInactive(Main), StreamingStopped(Main),
         UNCHANGED stream
  PROVE  InPlace'
<1>0. /\ Frames /\ Single /\ Places /\ Slots /\ Connects /\ OutputFlags
      /\ Senders /\ Stops /\ Leaves /\ View
      /\ output \in OutputType /\ stream \in StreamType /\ app \in AppType
      /\ server \in ServerType
  BY Parts
<1>1. LeaverMoves("end_inactive", "join_sender")
  <2>1. pc[Main] = "end_inactive" /\ Return(Main) /\ SameHandles
    BY <1>0, StreamOutputAssumption
       DEF EndInactive, SameHandles, StreamType, OutputType
  <2>2. stack[Main] = <<"join_sender", "exited">>
    BY <1>0, <2>1, StreamOutputAssumption DEF Frames, FramesAt
  <2>3. Head(stack[Main]) = "join_sender" /\ Tail(stack[Main]) = <<"exited">>
    BY ONLY <2>2
  <2>4. <<"exited">> \in FramesAt(Main, "join_sender")
    BY StreamOutputAssumption DEF FramesAt
  <2>5. /\ pc' = [pc EXCEPT ![Main] = "join_sender"]
        /\ stack' = [stack EXCEPT ![Main] = <<"exited">>]
    BY <2>1, <2>3 DEF Return
  <2>6. QED
    BY <1>0, <2>1, <2>4, <2>5, LeaverAdvances
<1>2. output' = [output EXCEPT !.stopCode = "success", !.stoppingEvent = TRUE]
      /\ UNCHANGED stream
  BY DEF EndInactive
<1>5. UNCHANGED <<app, server>>
  <2>1. ~app.connected
    BY <1>0, <1>1 DEF Slots
  <2>2. QED
    BY <2>1 DEF StreamingStopped, Notify
<1>10. Places'
  BY <1>0, <1>1, <1>2, <1>5 DEF Places, OutputType
<1>11. Slots'
  BY <1>0, <1>1, <1>2, <1>5 DEF Slots, OutputType
<1>12. Connects'
  BY <1>0, <1>1, <1>2, <1>5 DEF Connects, OutputType
<1>13. OutputFlags'
  BY <1>0, <1>1, <1>2, <1>5 DEF OutputFlags, OutputType
<1>14. Senders'
  BY <1>0, <1>1, <1>2, <1>5 DEF Senders, OutputType
<1>15. Stops'
  BY <1>0, <1>1, <1>2, <1>5 DEF Stops, OutputType
<1>16. Leaves'
  BY <1>0, <1>1, <1>2, <1>5 DEF Leaves, OutputType
<1>17. View'
  BY <1>0, <1>1, <1>2, <1>5 DEF View, OutputType
<1>18. QED
  BY <1>1, <1>10, <1>11, <1>12, <1>13, <1>14, <1>15, <1>16, <1>17 DEF InPlace

\* The end thread disconnects the callbacks,
LEMMA EndDisconnectInPlace ==
  ASSUME TypeOK, InPlace, Patient, NEW e \in EndThreads, EndDisconnect(e), Silent,
         ~stream.inCallback
  PROVE  InPlace'
<1>0. /\ Frames /\ Single /\ Places /\ Slots /\ Connects /\ OutputFlags
      /\ Senders /\ Stops /\ Leaves /\ View
      /\ output \in OutputType /\ stream \in StreamType /\ app \in AppType
      /\ server \in ServerType
  BY Parts
<1>1. EnderMoves("end_disconnect", "end_deactivate")
  <2>1. FramesAt(e, "end_disconnect") \subseteq FramesAt(e, "end_deactivate")
    BY StreamOutputAssumption DEF FramesAt
  <2>2. SameHandles /\ pc[e] = "end_disconnect" /\ Goto(e, "end_deactivate")
    BY <1>0, StreamOutputAssumption
       DEF EndDisconnect, SameHandles, StreamType, OutputType
  <2>3. QED
    BY <1>0, <2>1, <2>2, EnderGoes
<1>2. output' = [output EXCEPT !.hooked = FALSE] /\ UNCHANGED <<stream, app, server>>
  BY DEF EndDisconnect
<1>10. Places'
  BY <1>0, <1>1, <1>2 DEF Places, OutputType
<1>11. Slots'
  BY <1>0, <1>1, <1>2 DEF Slots, OutputType
<1>12. Connects'
  BY <1>0, <1>1, <1>2 DEF Connects, OutputType
<1>13. OutputFlags'
  BY <1>0, <1>1, <1>2 DEF OutputFlags, OutputType
<1>14. Senders'
  BY <1>0, <1>1, <1>2 DEF Senders, OutputType
<1>15. Stops'
  BY <1>0, <1>1, <1>2 DEF Stops, OutputType
<1>16. Leaves'
  BY <1>0, <1>1, <1>2 DEF Leaves, OutputType
<1>17. View'
  BY <1>0, <1>1, <1>2 DEF View, OutputType
<1>18. QED
  BY <1>1, <1>10, <1>11, <1>12, <1>13, <1>14, <1>15, <1>16, <1>17 DEF InPlace

\* makes the output inactive,
LEMMA EndDeactivateInPlace ==
  ASSUME TypeOK, InPlace, Patient, NEW e \in EndThreads, EndDeactivate(e), Silent
  PROVE  InPlace'
<1>0. /\ Frames /\ Single /\ Places /\ Slots /\ Connects /\ OutputFlags
      /\ Senders /\ Stops /\ Leaves /\ View
      /\ output \in OutputType /\ stream \in StreamType /\ app \in AppType
      /\ server \in ServerType
  BY Parts
<1>1. EnderMoves("end_deactivate", "end_event")
  <2>1. FramesAt(e, "end_deactivate") \subseteq FramesAt(e, "end_event")
    BY StreamOutputAssumption DEF FramesAt
  <2>2. SameHandles /\ pc[e] = "end_deactivate" /\ Goto(e, "end_event")
    BY <1>0, StreamOutputAssumption
       DEF EndDeactivate, SameHandles, StreamType, OutputType
  <2>3. QED
    BY <1>0, <2>1, <2>2, EnderGoes
<1>2. output' = [output EXCEPT !.active = FALSE] /\ UNCHANGED <<stream, app, server>>
  BY DEF EndDeactivate
<1>10. Places'
  BY <1>0, <1>1, <1>2 DEF Places, OutputType
<1>11. Slots'
  BY <1>0, <1>1, <1>2 DEF Slots, OutputType
<1>12. Connects'
  BY <1>0, <1>1, <1>2 DEF Connects, OutputType
<1>13. OutputFlags'
  BY <1>0, <1>1, <1>2 DEF OutputFlags, OutputType
<1>14. Senders'
  BY <1>0, <1>1, <1>2 DEF Senders, OutputType
<1>15. Stops'
  BY <1>0, <1>1, <1>2 DEF Stops, OutputType
<1>16. Leaves'
  BY <1>0, <1>1, <1>2 DEF Leaves, OutputType
<1>17. View'
  BY <1>0, <1>1, <1>2 DEF View, OutputType
<1>18. QED
  BY <1>1, <1>10, <1>11, <1>12, <1>13, <1>14, <1>15, <1>16, <1>17 DEF InPlace

\* signals its event
LEMMA EndEventInPlace ==
  ASSUME TypeOK, InPlace, Patient, NEW e \in EndThreads, EndEvent(e), Silent
  PROVE  InPlace'
<1>0. /\ Frames /\ Single /\ Places /\ Slots /\ Connects /\ OutputFlags
      /\ Senders /\ Stops /\ Leaves /\ View
      /\ output \in OutputType /\ stream \in StreamType /\ app \in AppType
      /\ server \in ServerType
  BY Parts
<1>1. EnderMoves("end_event", "end_return")
  <2>1. FramesAt(e, "end_event") \subseteq FramesAt(e, "end_return")
    BY StreamOutputAssumption DEF FramesAt
  <2>2. SameHandles /\ pc[e] = "end_event" /\ Goto(e, "end_return")
    BY <1>0, StreamOutputAssumption DEF EndEvent, SameHandles, StreamType, OutputType
  <2>3. QED
    BY <1>0, <2>1, <2>2, EnderGoes
<1>2. /\ output' = [output EXCEPT !.stoppingEvent = TRUE]
      /\ UNCHANGED <<stream, app, server>>
  BY DEF EndEvent
<1>10. Places'
  BY <1>0, <1>1, <1>2 DEF Places, OutputType
<1>11. Slots'
  BY <1>0, <1>1, <1>2 DEF Slots, OutputType
<1>12. Connects'
  BY <1>0, <1>1, <1>2 DEF Connects, OutputType
<1>13. OutputFlags'
  BY <1>0, <1>1, <1>2 DEF OutputFlags, OutputType
<1>14. Senders'
  BY <1>0, <1>1, <1>2 DEF Senders, OutputType
<1>15. Stops'
  BY <1>0, <1>1, <1>2 DEF Stops, OutputType
<1>16. Leaves'
  BY <1>0, <1>1, <1>2 DEF Leaves, Places, Slots, OutputFlags, OutputType
<1>17. View'
  BY <1>0, <1>1, <1>2 DEF View, OutputType
<1>18. QED
  BY <1>1, <1>10, <1>11, <1>12, <1>13, <1>14, <1>15, <1>16, <1>17 DEF InPlace

\* and returns.
LEMMA EndReturnInPlace ==
  ASSUME TypeOK, InPlace, Patient, NEW e \in EndThreads, EndReturn(e), Silent
  PROVE  InPlace'
<1>0. /\ Frames /\ Single /\ Places /\ Slots /\ Connects /\ OutputFlags
      /\ Senders /\ Stops /\ Leaves /\ View
      /\ output \in OutputType /\ stream \in StreamType /\ app \in AppType
      /\ server \in ServerType
  BY Parts
<1>1. EnderMoves("end_return", "dead")
  <2>1. FramesAt(e, "end_return") \subseteq FramesAt(e, "dead")
    BY StreamOutputAssumption DEF FramesAt
  <2>2. SameHandles /\ pc[e] = "end_return" /\ Goto(e, "dead")
    BY <1>0, StreamOutputAssumption DEF EndReturn, SameHandles, StreamType, OutputType
  <2>3. QED
    BY <1>0, <2>1, <2>2, EnderGoes
<1>2. /\ output' = [output EXCEPT !.endThreadActive = FALSE]
      /\ UNCHANGED <<stream, app, server>>
  BY DEF EndReturn
<1>10. Places'
  BY <1>0, <1>1, <1>2 DEF Places, OutputType
<1>11. Slots'
  BY <1>0, <1>1, <1>2 DEF Slots, OutputType
<1>12. Connects'
  BY <1>0, <1>1, <1>2 DEF Connects, OutputType
<1>13. OutputFlags'
  BY <1>0, <1>1, <1>2 DEF OutputFlags, OutputType
<1>14. Senders'
  BY <1>0, <1>1, <1>2 DEF Senders, OutputType
<1>15. Stops'
  BY <1>0, <1>1, <1>2 DEF Stops, OutputType
<1>16. Leaves'
  BY <1>0, <1>1, <1>2 DEF Leaves, OutputType
<1>17. View'
  BY <1>0, <1>1, <1>2 DEF View, OutputType
<1>18. QED
  BY <1>1, <1>10, <1>11, <1>12, <1>13, <1>14, <1>15, <1>16, <1>17 DEF InPlace

\* Without one, send_thread does.
LEMMA SendDisconnectInPlace ==
  ASSUME TypeOK, InPlace, Patient, NEW n \in Present, EndDisconnect(n), Silent,
         ~stream.inCallback
  PROVE  InPlace'
<1>0. /\ Frames /\ Single /\ Places /\ Slots /\ Connects /\ OutputFlags
      /\ Senders /\ Stops /\ Leaves /\ View
      /\ output \in OutputType /\ stream \in StreamType /\ app \in AppType
      /\ server \in ServerType
  BY Parts
<1>1. SenderMoves("end_disconnect", "end_deactivate")
  <2>1. FramesAt(n, "end_disconnect") \subseteq FramesAt(n, "end_deactivate")
    BY StreamOutputAssumption DEF Present, FramesAt
  <2>2. SameHandles /\ pc[n] = "end_disconnect" /\ Goto(n, "end_deactivate")
    BY <1>0, StreamOutputAssumption
       DEF EndDisconnect, SameHandles, StreamType, OutputType
  <2>3. QED
    BY <1>0, <2>1, <2>2, SenderGoes
<1>2. output' = [output EXCEPT !.hooked = FALSE] /\ UNCHANGED <<stream, app, server>>
  BY DEF EndDisconnect
<1>10. Places'
  BY <1>0, <1>1, <1>2 DEF Places, OutputType
<1>11. Slots'
  BY <1>0, <1>1, <1>2 DEF Slots, OutputType
<1>12. Connects'
  BY <1>0, <1>1, <1>2 DEF Connects, OutputType
<1>13. OutputFlags'
  BY <1>0, <1>1, <1>2 DEF OutputFlags, OutputType
<1>14. Senders'
  BY <1>0, <1>1, <1>2 DEF Senders, OutputType
<1>15. Stops'
  BY <1>0, <1>1, <1>2 DEF Stops, OutputType
<1>16. Leaves'
  BY <1>0, <1>1, <1>2 DEF Leaves, OutputType
<1>17. View'
  BY <1>0, <1>1, <1>2 DEF View, OutputType
<1>18. QED
  BY <1>1, <1>10, <1>11, <1>12, <1>13, <1>14, <1>15, <1>16, <1>17 DEF InPlace

\* It makes the output inactive,
LEMMA SendDeactivateInPlace ==
  ASSUME TypeOK, InPlace, Patient, NEW n \in Present, EndDeactivate(n), Silent
  PROVE  InPlace'
<1>0. /\ Frames /\ Single /\ Places /\ Slots /\ Connects /\ OutputFlags
      /\ Senders /\ Stops /\ Leaves /\ View
      /\ output \in OutputType /\ stream \in StreamType /\ app \in AppType
      /\ server \in ServerType
  BY Parts
<1>1. SenderMoves("end_deactivate", "end_event")
  <2>1. FramesAt(n, "end_deactivate") \subseteq FramesAt(n, "end_event")
    BY StreamOutputAssumption DEF Present, FramesAt
  <2>2. SameHandles /\ pc[n] = "end_deactivate" /\ Goto(n, "end_event")
    BY <1>0, StreamOutputAssumption
       DEF EndDeactivate, SameHandles, StreamType, OutputType
  <2>3. QED
    BY <1>0, <2>1, <2>2, SenderGoes
<1>2. output' = [output EXCEPT !.active = FALSE] /\ UNCHANGED <<stream, app, server>>
  BY DEF EndDeactivate
<1>10. Places'
  BY <1>0, <1>1, <1>2 DEF Places, OutputType
<1>11. Slots'
  BY <1>0, <1>1, <1>2 DEF Slots, OutputType
<1>12. Connects'
  BY <1>0, <1>1, <1>2 DEF Connects, OutputType
<1>13. OutputFlags'
  BY <1>0, <1>1, <1>2 DEF OutputFlags, Places, Connects, Senders, OutputType
<1>14. Senders'
  BY <1>0, <1>1, <1>2 DEF Senders, OutputType
<1>15. Stops'
  BY <1>0, <1>1, <1>2 DEF Stops, OutputType
<1>16. Leaves'
  BY <1>0, <1>1, <1>2 DEF Leaves, OutputType
<1>17. View'
  BY <1>0, <1>1, <1>2 DEF View, OutputType
<1>18. QED
  BY <1>1, <1>10, <1>11, <1>12, <1>13, <1>14, <1>15, <1>16, <1>17 DEF InPlace

\* signals its event
LEMMA SendEventInPlace ==
  ASSUME TypeOK, InPlace, Patient, NEW n \in Present, EndEvent(n), Silent
  PROVE  InPlace'
<1>0. /\ Frames /\ Single /\ Places /\ Slots /\ Connects /\ OutputFlags
      /\ Senders /\ Stops /\ Leaves /\ View
      /\ output \in OutputType /\ stream \in StreamType /\ app \in AppType
      /\ server \in ServerType
  BY Parts
<1>1. SenderMoves("end_event", "end_return")
  <2>1. FramesAt(n, "end_event") \subseteq FramesAt(n, "end_return")
    BY StreamOutputAssumption DEF Present, FramesAt
  <2>2. SameHandles /\ pc[n] = "end_event" /\ Goto(n, "end_return")
    BY <1>0, StreamOutputAssumption DEF EndEvent, SameHandles, StreamType, OutputType
  <2>3. QED
    BY <1>0, <2>1, <2>2, SenderGoes
<1>2. /\ output' = [output EXCEPT !.stoppingEvent = TRUE]
      /\ UNCHANGED <<stream, app, server>>
  BY DEF EndEvent
<1>10. Places'
  BY <1>0, <1>1, <1>2 DEF Places, OutputType
<1>11. Slots'
  BY <1>0, <1>1, <1>2 DEF Slots, OutputType
<1>12. Connects'
  BY <1>0, <1>1, <1>2 DEF Connects, OutputType
<1>13. OutputFlags'
  BY <1>0, <1>1, <1>2 DEF OutputFlags, OutputType
<1>14. Senders'
  BY <1>0, <1>1, <1>2 DEF Senders, OutputType
<1>15. Stops'
  BY <1>0, <1>1, <1>2 DEF Stops, OutputType
<1>16. Leaves'
  BY <1>0, <1>1, <1>2
     DEF Leaves, Places, Slots, OutputFlags, Senders, Stops, Connects, OutputType
<1>17. View'
  BY <1>0, <1>1, <1>2 DEF View, OutputType
<1>18. QED
  BY <1>1, <1>10, <1>11, <1>12, <1>13, <1>14, <1>15, <1>16, <1>17 DEF InPlace

\* and goes on.
LEMMA SendReturnInPlace ==
  ASSUME TypeOK, InPlace, Patient, NEW n \in Present, EndReturn(n), Silent
  PROVE  InPlace'
<1>0. /\ Frames /\ Single /\ Places /\ Slots /\ Connects /\ OutputFlags
      /\ Senders /\ Stops /\ Leaves /\ View
      /\ output \in OutputType /\ stream \in StreamType /\ app \in AppType
      /\ server \in ServerType
  BY Parts
<1>4. n \notin EndThreads
  BY StreamOutputAssumption DEF Present
<1>1. SenderMoves("end_return", "end_signal")
  <2>1. pc[n] = "end_return" /\ Return(n) /\ SameHandles
    BY <1>0, <1>4, StreamOutputAssumption
       DEF EndReturn, SameHandles, StreamType, OutputType
  <2>2. stack[n] = <<"end_signal", "send_free">>
    BY <1>0, <2>1, StreamOutputAssumption DEF Frames, Present, FramesAt
  <2>3. Head(stack[n]) = "end_signal" /\ Tail(stack[n]) = <<"send_free">>
    BY ONLY <2>2
  <2>4. <<"send_free">> \in FramesAt(n, "end_signal")
    BY StreamOutputAssumption DEF Present, FramesAt
  <2>5. /\ pc' = [pc EXCEPT ![n] = "end_signal"]
        /\ stack' = [stack EXCEPT ![n] = <<"send_free">>]
    BY <2>1, <2>3 DEF Return
  <2>6. QED
    BY <1>0, <2>1, <2>4, <2>5, SenderAdvances
<1>2. /\ output' = [output EXCEPT !.endThreadActive = FALSE]
      /\ UNCHANGED <<stream, app, server>>
  BY <1>4 DEF EndReturn
<1>10. Places'
  BY <1>0, <1>1, <1>2, <1>4 DEF Places, OutputType
<1>11. Slots'
  BY <1>0, <1>1, <1>2, <1>4 DEF Slots, OutputType
<1>12. Connects'
  BY <1>0, <1>1, <1>2, <1>4 DEF Connects, OutputType
<1>13. OutputFlags'
  BY <1>0, <1>1, <1>2, <1>4 DEF OutputFlags, OutputType
<1>14. Senders'
  BY <1>0, <1>1, <1>2, <1>4 DEF Senders, OutputType
<1>15. Stops'
  BY <1>0, <1>1, <1>2, <1>4 DEF Stops, OutputType
<1>16. Leaves'
  BY <1>0, <1>1, <1>2, <1>4 DEF Leaves, OutputType
<1>17. View'
  BY <1>0, <1>1, <1>2, <1>4 DEF View, OutputType
<1>18. QED
  BY <1>1, <1>10, <1>11, <1>12, <1>13, <1>14, <1>15, <1>16, <1>17 DEF InPlace

\* The server asks for a stream.
LEMMA StartStreamingInPlace ==
  ASSUME TypeOK, InPlace, Patient, StartStreaming
  PROVE  InPlace'
<1>0. /\ Frames /\ Single /\ Places /\ Slots /\ Connects /\ OutputFlags
      /\ Senders /\ Stops /\ Leaves /\ View
      /\ output \in OutputType /\ stream \in StreamType /\ app \in AppType
      /\ server \in ServerType
  BY Parts
<1>1. SlotMoves("idle", "actual_start")
  <2>1. pc[OBS] = "idle" /\ Call(OBS, "actual_start", "idle") /\ SameHandles
    BY <1>0, StreamOutputAssumption
       DEF StartStreaming, SameHandles, StreamType, OutputType
  <2>2. stack[OBS] = <<>>
    BY <1>0, <2>1, StreamOutputAssumption DEF Frames, FramesAt
  <2>3. <<"idle">> \o <<>> = <<"idle">>
    BY Push1, Push2
  <2>4. <<"idle">> \in FramesAt(OBS, "actual_start")
    BY StreamOutputAssumption DEF FramesAt
  <2>5. /\ pc' = [pc EXCEPT ![OBS] = "actual_start"]
        /\ stack' = [stack EXCEPT ![OBS] = <<"idle">>]
    BY <2>1, <2>2, <2>3 DEF Call
  <2>6. QED
    BY <1>0, <2>1, <2>4, <2>5, SlotAdvances
<1>2. server' = [view |-> "starting", commands |-> server.commands + 1]
      /\ UNCHANGED <<output, stream, app>>
  BY DEF StartStreaming
<1>5. server.view = "idle" /\ ~app.quitting /\ Connector = Dead
  BY DEF StartStreaming, StartPermitted, Patient, Connector, At
<1>10. Places'
  BY <1>0, <1>1, <1>2, <1>5 DEF Places
<1>11. Slots'
  BY <1>0, <1>1, <1>2, <1>5
     DEF Slots, Places, Connects, OutputFlags, Leaves, View, Stops, Senders
<1>12. Connects'
  BY <1>0, <1>1, <1>2, <1>5 DEF Connects
<1>13. OutputFlags'
  BY <1>0, <1>1, <1>2, <1>5 DEF OutputFlags
<1>14. Senders'
  BY <1>0, <1>1, <1>2, <1>5 DEF Senders
<1>15. Stops'
  BY <1>0, <1>1, <1>2, <1>5 DEF Stops, Places, Slots, Senders, Connects, Leaves, View
<1>16. Leaves'
  BY <1>0, <1>1, <1>2, <1>5 DEF Leaves
<1>17. View'
  BY <1>0, <1>1, <1>2, <1>5 DEF View
<1>18. QED
  BY <1>1, <1>10, <1>11, <1>12, <1>13, <1>14, <1>15, <1>16, <1>17 DEF InPlace

\* It asks without a server or a key.
LEMMA StartEmptyInPlace ==
  ASSUME TypeOK, InPlace, Patient, StartStreamingEmpty
  PROVE  InPlace'
<1>0. /\ Frames /\ Single /\ Places /\ Slots /\ Connects /\ OutputFlags
      /\ Senders /\ Stops /\ Leaves /\ View
      /\ output \in OutputType /\ stream \in StreamType /\ app \in AppType
      /\ server \in ServerType
  BY Parts
<1>1. /\ UNCHANGED <<Connector, Sender, Ender, Slot, Leaver>>
      /\ Frames' /\ Single'
  <2>1. SameHandles /\ UNCHANGED control
    BY <1>0 DEF StartStreamingEmpty, SameHandles, StreamType, OutputType
  <2>2. QED
    BY <1>0, <2>1, StaysPut
<1>2. server' = [view |-> "idle", commands |-> server.commands + 1]
      /\ UNCHANGED <<output, stream, app>>
  BY DEF StartStreamingEmpty
<1>5. server.view = "idle"
  BY DEF StartStreamingEmpty, StartPermitted, Patient
<1>10. Places'
  BY <1>0, <1>1, <1>2, <1>5 DEF Places
<1>11. Slots'
  BY <1>0, <1>1, <1>2, <1>5 DEF Slots
<1>12. Connects'
  BY <1>0, <1>1, <1>2, <1>5 DEF Connects
<1>13. OutputFlags'
  BY <1>0, <1>1, <1>2, <1>5 DEF OutputFlags
<1>14. Senders'
  BY <1>0, <1>1, <1>2, <1>5 DEF Senders
<1>15. Stops'
  BY <1>0, <1>1, <1>2, <1>5 DEF Stops
<1>16. Leaves'
  BY <1>0, <1>1, <1>2, <1>5 DEF Leaves
<1>17. View'
  BY <1>0, <1>1, <1>2, <1>5 DEF View
<1>18. QED
  BY <1>1, <1>10, <1>11, <1>12, <1>13, <1>14, <1>15, <1>16, <1>17 DEF InPlace

\* It asks for a stop of a stream that runs,
LEMMA StopStreamingInPlace ==
  ASSUME TypeOK, InPlace, Patient, StopStreaming(FALSE), output.active
  PROVE  InPlace'
<1>0. /\ Frames /\ Single /\ Places /\ Slots /\ Connects /\ OutputFlags
      /\ Senders /\ Stops /\ Leaves /\ View
      /\ output \in OutputType /\ stream \in StreamType /\ app \in AppType
      /\ server \in ServerType
  BY Parts
<1>1. SlotMoves("idle", "obs_stop")
  <2>1. pc[OBS] = "idle" /\ Call(OBS, "obs_stop", "idle") /\ SameHandles
    BY <1>0, StreamOutputAssumption
       DEF StopStreaming, SameHandles, StreamType, OutputType
  <2>2. stack[OBS] = <<>>
    BY <1>0, <2>1, StreamOutputAssumption DEF Frames, FramesAt
  <2>3. <<"idle">> \o <<>> = <<"idle">>
    BY Push1, Push2
  <2>4. <<"idle">> \in FramesAt(OBS, "obs_stop")
    BY StreamOutputAssumption DEF FramesAt
  <2>5. /\ pc' = [pc EXCEPT ![OBS] = "obs_stop"]
        /\ stack' = [stack EXCEPT ![OBS] = <<"idle">>]
    BY <2>1, <2>2, <2>3 DEF Call
  <2>6. QED
    BY <1>0, <2>1, <2>4, <2>5, SlotAdvances
<1>2. server' = [view |-> IF server.view = "idle" THEN "idle" ELSE "stopping",
                  commands |-> server.commands + 1]
      /\ UNCHANGED <<output, stream, app>>
  BY DEF StopStreaming
<1>5. /\ server.view = "streaming" /\ ~app.quitting /\ Ender = Dead
      /\ Sender \in {Dead} \cup LoopLabels
  <2>1. server.view = "streaming" /\ ~app.quitting /\ Settled
    BY DEF StopStreaming, StopPermitted, Patient
  <2>2. Sender \in {Dead} \cup LoopLabels
    BY <1>0, <2>1, AtRest DEF Settled
  <2>3. QED
    BY <2>1, <2>2 DEF Settled, Ender, At
<1>10. Places'
  BY <1>0, <1>1, <1>2, <1>5 DEF Places
<1>11. Slots'
  BY <1>0, <1>1, <1>2, <1>5
     DEF Slots, Places, Connects, OutputFlags, Leaves, View, Stops, Senders
<1>12. Connects'
  BY <1>0, <1>1, <1>2, <1>5 DEF Connects
<1>13. OutputFlags'
  BY <1>0, <1>1, <1>2, <1>5 DEF OutputFlags
<1>14. Senders'
  BY <1>0, <1>1, <1>2, <1>5 DEF Senders
<1>15. Stops'
  BY <1>0, <1>1, <1>2, <1>5 DEF Stops
<1>16. Leaves'
  BY <1>0, <1>1, <1>2, <1>5 DEF Leaves
<1>17. View'
  BY <1>0, <1>1, <1>2, <1>5 DEF View
<1>18. QED
  BY <1>1, <1>10, <1>11, <1>12, <1>13, <1>14, <1>15, <1>16, <1>17 DEF InPlace

\* for a forced one,
LEMMA ForceStreamingInPlace ==
  ASSUME TypeOK, InPlace, Patient, StopStreaming(TRUE), output.active
  PROVE  InPlace'
<1>0. /\ Frames /\ Single /\ Places /\ Slots /\ Connects /\ OutputFlags
      /\ Senders /\ Stops /\ Leaves /\ View
      /\ output \in OutputType /\ stream \in StreamType /\ app \in AppType
      /\ server \in ServerType
  BY Parts
<1>1. SlotMoves("idle", "obs_force_stop")
  <2>1. pc[OBS] = "idle" /\ Call(OBS, "obs_force_stop", "idle") /\ SameHandles
    BY <1>0, StreamOutputAssumption
       DEF StopStreaming, SameHandles, StreamType, OutputType
  <2>2. stack[OBS] = <<>>
    BY <1>0, <2>1, StreamOutputAssumption DEF Frames, FramesAt
  <2>3. <<"idle">> \o <<>> = <<"idle">>
    BY Push1, Push2
  <2>4. <<"idle">> \in FramesAt(OBS, "obs_force_stop")
    BY StreamOutputAssumption DEF FramesAt
  <2>5. /\ pc' = [pc EXCEPT ![OBS] = "obs_force_stop"]
        /\ stack' = [stack EXCEPT ![OBS] = <<"idle">>]
    BY <2>1, <2>2, <2>3 DEF Call
  <2>6. QED
    BY <1>0, <2>1, <2>4, <2>5, SlotAdvances
<1>2. server' = [view |-> IF server.view = "idle" THEN "idle" ELSE "stopping",
                  commands |-> server.commands + 1]
      /\ UNCHANGED <<output, stream, app>>
  BY DEF StopStreaming
<1>5. /\ server.view = "streaming" /\ ~app.quitting /\ Ender = Dead
      /\ Sender \in {Dead} \cup LoopLabels
  <2>1. server.view = "streaming" /\ ~app.quitting /\ Settled
    BY DEF StopStreaming, StopPermitted, Patient
  <2>2. Sender \in {Dead} \cup LoopLabels
    BY <1>0, <2>1, AtRest DEF Settled
  <2>3. QED
    BY <2>1, <2>2 DEF Settled, Ender, At
<1>10. Places'
  BY <1>0, <1>1, <1>2, <1>5 DEF Places
<1>11. Slots'
  BY <1>0, <1>1, <1>2, <1>5
     DEF Slots, Places, Connects, OutputFlags, Leaves, View, Stops, Senders
<1>12. Connects'
  BY <1>0, <1>1, <1>2, <1>5 DEF Connects
<1>13. OutputFlags'
  BY <1>0, <1>1, <1>2, <1>5 DEF OutputFlags
<1>14. Senders'
  BY <1>0, <1>1, <1>2, <1>5 DEF Senders
<1>15. Stops'
  BY <1>0, <1>1, <1>2, <1>5 DEF Stops
<1>16. Leaves'
  BY <1>0, <1>1, <1>2, <1>5 DEF Leaves
<1>17. View'
  BY <1>0, <1>1, <1>2, <1>5 DEF View
<1>18. QED
  BY <1>1, <1>10, <1>11, <1>12, <1>13, <1>14, <1>15, <1>16, <1>17 DEF InPlace

\* or for one of a stream that does not.
LEMMA StopNothingInPlace ==
  ASSUME TypeOK, InPlace, Patient, NEW force \in BOOLEAN, ~output.active,
         StopStreaming(force)
  PROVE  InPlace'
<1>0. /\ Frames /\ Single /\ Places /\ Slots /\ Connects /\ OutputFlags
      /\ Senders /\ Stops /\ Leaves /\ View
      /\ output \in OutputType /\ stream \in StreamType /\ app \in AppType
      /\ server \in ServerType
  BY Parts
<1>1. /\ UNCHANGED <<Connector, Sender, Ender, Slot, Leaver>>
      /\ Frames' /\ Single'
  <2>1. SameHandles /\ UNCHANGED control
    BY <1>0 DEF StopStreaming, SameHandles, StreamType, OutputType
  <2>2. QED
    BY <1>0, <2>1, StaysPut
<1>2. server' = [view |-> IF server.view = "idle" THEN "idle" ELSE "stopping",
                  commands |-> server.commands + 1]
      /\ UNCHANGED <<output, stream, app>>
  BY DEF StopStreaming
<1>5. /\ server.view = "streaming" /\ ~app.quitting /\ Ender = Dead
      /\ Sender \in {Dead} \cup LoopLabels
  <2>1. server.view = "streaming" /\ ~app.quitting /\ Settled
    BY DEF StopStreaming, StopPermitted, Patient
  <2>2. Sender \in {Dead} \cup LoopLabels
    BY <1>0, <2>1, AtRest DEF Settled
  <2>3. QED
    BY <2>1, <2>2 DEF Settled, Ender, At
<1>10. Places'
  BY <1>0, <1>1, <1>2, <1>5 DEF Places
<1>11. Slots'
  BY <1>0, <1>1, <1>2, <1>5 DEF Slots
<1>12. Connects'
  BY <1>0, <1>1, <1>2, <1>5 DEF Connects
<1>13. OutputFlags'
  BY <1>0, <1>1, <1>2, <1>5 DEF OutputFlags
<1>14. Senders'
  BY <1>0, <1>1, <1>2, <1>5 DEF Senders
<1>15. Stops'
  BY <1>0, <1>1, <1>2, <1>5 DEF Stops
<1>16. Leaves'
  BY <1>0, <1>1, <1>2, <1>5 DEF Leaves
<1>17. View'
  BY <1>0, <1>1, <1>2, <1>5, OneNotice DEF View
<1>18. QED
  BY <1>1, <1>10, <1>11, <1>12, <1>13, <1>14, <1>15, <1>16, <1>17 DEF InPlace

\* The server hears that the stream has started,
LEMMA DeliverStartInPlace ==
  ASSUME TypeOK, InPlace, Patient, Hailed, Deliver
  PROVE  InPlace'
<1>0. /\ Frames /\ Single /\ Places /\ Slots /\ Connects /\ OutputFlags
      /\ Senders /\ Stops /\ Leaves /\ View
      /\ output \in OutputType /\ stream \in StreamType /\ app \in AppType
      /\ server \in ServerType
  BY Parts
<1>1. /\ UNCHANGED <<Connector, Sender, Ender, Slot, Leaver>>
      /\ Frames' /\ Single'
  <2>1. SameHandles /\ UNCHANGED control
    BY <1>0 DEF Deliver, SameHandles, StreamType, OutputType
  <2>2. QED
    BY <1>0, <2>1, StaysPut
<1>2. UNCHANGED <<output, stream>>
  BY DEF Deliver
<1>5. /\ Slot = "idle" /\ Quiet' /\ UNCHANGED <<app.connected, app.quitting>>
      /\ server' = [server EXCEPT !.view = "streaming"]
  <2>1. PICK m \in {"stopped", "error"} : app.posted = <<"started">>
    OBVIOUS
  <2>2. Head(app.posted) = "started" /\ Tail(app.posted) = <<>>
    BY ONLY <2>1
  <2>3. app' = [app EXCEPT !.posted = <<>>] /\ Received("started")
    BY <2>2 DEF Deliver
  <2>4. QED
    BY <1>0, <2>3 DEF AppType, Received, Deliver, Slot
<1>10. Places'
  BY <1>0, <1>1, <1>2, <1>5 DEF Places, ServerType
<1>11. Slots'
  BY <1>0, <1>1, <1>2, <1>5 DEF Slots, ServerType
<1>12. Connects'
  BY <1>0, <1>1, <1>2, <1>5 DEF Connects, ServerType
<1>13. OutputFlags'
  BY <1>0, <1>1, <1>2, <1>5 DEF OutputFlags, ServerType
<1>14. Senders'
  BY <1>0, <1>1, <1>2, <1>5 DEF Senders, ServerType
<1>15. Stops'
  BY <1>0, <1>1, <1>2, <1>5 DEF Stops, ServerType
<1>16. Leaves'
  BY <1>0, <1>1, <1>2, <1>5 DEF Leaves, ServerType
<1>17. View'
  BY <1>0, <1>1, <1>2, <1>5, OneNotice DEF View, ServerType
<1>18. QED
  BY <1>1, <1>10, <1>11, <1>12, <1>13, <1>14, <1>15, <1>16, <1>17 DEF InPlace

\* that one has that meanwhile ended,
LEMMA DeliverStartedInPlace ==
  ASSUME TypeOK, InPlace, Patient, Both, Deliver
  PROVE  InPlace'
<1>0. /\ Frames /\ Single /\ Places /\ Slots /\ Connects /\ OutputFlags
      /\ Senders /\ Stops /\ Leaves /\ View
      /\ output \in OutputType /\ stream \in StreamType /\ app \in AppType
      /\ server \in ServerType
  BY Parts
<1>1. /\ UNCHANGED <<Connector, Sender, Ender, Slot, Leaver>>
      /\ Frames' /\ Single'
  <2>1. SameHandles /\ UNCHANGED control
    BY <1>0 DEF Deliver, SameHandles, StreamType, OutputType
  <2>2. QED
    BY <1>0, <2>1, StaysPut
<1>2. UNCHANGED <<output, stream>>
  BY DEF Deliver
<1>5. /\ Slot = "idle" /\ Answered' /\ UNCHANGED <<app.connected, app.quitting>>
      /\ server' = [server EXCEPT !.view = "streaming"]
  <2>1. PICK m \in {"stopped", "error"} : app.posted = <<"started", m>>
    OBVIOUS
  <2>2. Head(app.posted) = "started" /\ Tail(app.posted) = <<m>>
    BY ONLY <2>1
  <2>3. app' = [app EXCEPT !.posted = <<m>>] /\ Received("started")
    BY <2>2 DEF Deliver
  <2>4. QED
    BY <1>0, <2>3 DEF AppType, Received, Deliver, Slot
<1>10. Places'
  BY <1>0, <1>1, <1>2, <1>5 DEF Places, ServerType
<1>11. Slots'
  BY <1>0, <1>1, <1>2, <1>5 DEF Slots, ServerType
<1>12. Connects'
  BY <1>0, <1>1, <1>2, <1>5 DEF Connects, ServerType
<1>13. OutputFlags'
  BY <1>0, <1>1, <1>2, <1>5 DEF OutputFlags, ServerType
<1>14. Senders'
  BY <1>0, <1>1, <1>2, <1>5 DEF Senders, ServerType
<1>15. Stops'
  BY <1>0, <1>1, <1>2, <1>5 DEF Stops, ServerType
<1>16. Leaves'
  BY <1>0, <1>1, <1>2, <1>5 DEF Leaves, ServerType
<1>17. View'
  BY <1>0, <1>1, <1>2, <1>5, OneNotice DEF View, ServerType
<1>18. QED
  BY <1>1, <1>10, <1>11, <1>12, <1>13, <1>14, <1>15, <1>16, <1>17 DEF InPlace

\* and how it ended.
LEMMA DeliverEndInPlace ==
  ASSUME TypeOK, InPlace, Patient, Answered, Deliver
  PROVE  InPlace'
<1>0. /\ Frames /\ Single /\ Places /\ Slots /\ Connects /\ OutputFlags
      /\ Senders /\ Stops /\ Leaves /\ View
      /\ output \in OutputType /\ stream \in StreamType /\ app \in AppType
      /\ server \in ServerType
  BY Parts
<1>1. /\ UNCHANGED <<Connector, Sender, Ender, Slot, Leaver>>
      /\ Frames' /\ Single'
  <2>1. SameHandles /\ UNCHANGED control
    BY <1>0 DEF Deliver, SameHandles, StreamType, OutputType
  <2>2. QED
    BY <1>0, <2>1, StaysPut
<1>2. UNCHANGED <<output, stream>>
  BY DEF Deliver
<1>5. /\ Slot = "idle" /\ Quiet' /\ UNCHANGED <<app.connected, app.quitting>>
      /\ server' = [server EXCEPT !.view = "idle"]
  <2>1. PICK m \in {"stopped", "error"} : app.posted = <<m>>
    OBVIOUS
  <2>2. Head(app.posted) = m /\ Tail(app.posted) = <<>>
    BY ONLY <2>1
  <2>3. app' = [app EXCEPT !.posted = <<>>] /\ Received(m)
    BY <2>2 DEF Deliver
  <2>4. QED
    BY <1>0, <2>3 DEF AppType, Received, Deliver, Slot
<1>10. Places'
  BY <1>0, <1>1, <1>2, <1>5 DEF Places, ServerType
<1>11. Slots'
  BY <1>0, <1>1, <1>2, <1>5 DEF Slots, ServerType
<1>12. Connects'
  BY <1>0, <1>1, <1>2, <1>5 DEF Connects, ServerType
<1>13. OutputFlags'
  BY <1>0, <1>1, <1>2, <1>5 DEF OutputFlags, ServerType
<1>14. Senders'
  BY <1>0, <1>1, <1>2, <1>5 DEF Senders, ServerType
<1>15. Stops'
  BY <1>0, <1>1, <1>2, <1>5 DEF Stops, ServerType
<1>16. Leaves'
  BY <1>0, <1>1, <1>2, <1>5 DEF Leaves, ServerType
<1>17. View'
  BY <1>0, <1>1, <1>2, <1>5, OneNotice DEF View, ServerType
<1>18. QED
  BY <1>1, <1>10, <1>11, <1>12, <1>13, <1>14, <1>15, <1>16, <1>17 DEF InPlace

\* A packet comes,
LEMMA DataEnterInPlace ==
  ASSUME TypeOK, InPlace, Patient, DataEnter
  PROVE  InPlace'
<1>0. /\ Frames /\ Single /\ Places /\ Slots /\ Connects /\ OutputFlags
      /\ Senders /\ Stops /\ Leaves /\ View
      /\ output \in OutputType /\ stream \in StreamType /\ app \in AppType
      /\ server \in ServerType
  BY Parts
<1>1. /\ UNCHANGED <<Connector, Sender, Ender, Slot, Leaver>>
      /\ Frames' /\ Single'
  <2>1. SameHandles /\ UNCHANGED control
    BY <1>0 DEF DataEnter, SameHandles, StreamType, OutputType
  <2>2. QED
    BY <1>0, <2>1, StaysPut
<1>2. /\ output.hooked
      /\ output.active
      /\ stream' = [stream EXCEPT !.inCallback = TRUE]
      /\ UNCHANGED <<output, app, server>>
  BY DEF DataEnter
<1>10. Places'
  BY <1>0, <1>1, <1>2 DEF Places, StreamType
<1>11. Slots'
  BY <1>0, <1>1, <1>2 DEF Slots, StreamType
<1>12. Connects'
  BY <1>0, <1>1, <1>2 DEF Connects, StreamType
<1>13. OutputFlags'
  BY <1>0, <1>1, <1>2 DEF OutputFlags, StreamType
<1>14. Senders'
  BY <1>0, <1>1, <1>2 DEF Senders, StreamType
<1>15. Stops'
  BY <1>0, <1>1, <1>2 DEF Stops, StreamType
<1>16. Leaves'
  BY <1>0, <1>1, <1>2 DEF Leaves, StreamType
<1>17. View'
  BY <1>0, <1>1, <1>2 DEF View, StreamType
<1>18. QED
  BY <1>1, <1>10, <1>11, <1>12, <1>13, <1>14, <1>15, <1>16, <1>17 DEF InPlace

\* and is queued, unless the connection is lost.
LEMMA DataAddInPlace ==
  ASSUME TypeOK, InPlace, Patient, NEW when \in {"early", "late"}, DataAdd(when)
  PROVE  InPlace'
<1>0. /\ Frames /\ Single /\ Places /\ Slots /\ Connects /\ OutputFlags
      /\ Senders /\ Stops /\ Leaves /\ View
      /\ output \in OutputType /\ stream \in StreamType /\ app \in AppType
      /\ server \in ServerType
  BY Parts
<1>1. /\ UNCHANGED <<Connector, Sender, Ender, Slot, Leaver>>
      /\ Frames' /\ Single'
  <2>1. SameHandles /\ UNCHANGED control
    BY <1>0 DEF DataAdd, SameHandles, StreamType, OutputType
  <2>2. QED
    BY <1>0, <2>1, StaysPut
<1>2. /\ /\ UNCHANGED <<stream.connecting, stream.active, stream.stopEvent, stream.stopTs,
                  stream.sendThread, stream.detached>>
      /\ ~stream'.inCallback /\ UNCHANGED <<output, app, server>>
  BY <1>0 DEF DataAdd, StreamType
<1>5. /\ ~(Sender \in LoopLabels /\ ~output.dataActive)
      /\ Connector \notin {"connect", "init_send", "begin_activate"} \cup Making
  <2>1. stream.inCallback
    BY DEF DataAdd
  <2>2. QED
    BY <1>0, <2>1 DEF OutputFlags, Connects, Senders
<1>10. Places'
  BY <1>0, <1>1, <1>2, <1>5 DEF Places
<1>11. Slots'
  BY <1>0, <1>1, <1>2, <1>5 DEF Slots
<1>12. Connects'
  BY <1>0, <1>1, <1>2, <1>5 DEF Connects, Places, Slots, OutputFlags
<1>13. OutputFlags'
  BY <1>0, <1>1, <1>2, <1>5 DEF OutputFlags
<1>14. Senders'
  BY <1>0, <1>1, <1>2, <1>5
     DEF Senders, Places, Slots, Connects, OutputFlags, Stops, Leaves, View
<1>15. Stops'
  BY <1>0, <1>1, <1>2, <1>5 DEF Stops
<1>16. Leaves'
  BY <1>0, <1>1, <1>2, <1>5 DEF Leaves
<1>17. View'
  BY <1>0, <1>1, <1>2, <1>5 DEF View
<1>18. QED
  BY <1>1, <1>10, <1>11, <1>12, <1>13, <1>14, <1>15, <1>16, <1>17 DEF InPlace

\* The time-out passes.
LEMMA TimePassesInPlace ==
  ASSUME TypeOK, InPlace, Patient, TimePasses
  PROVE  InPlace'
<1>0. /\ Frames /\ Single /\ Places /\ Slots /\ Connects /\ OutputFlags
      /\ Senders /\ Stops /\ Leaves /\ View
      /\ output \in OutputType /\ stream \in StreamType /\ app \in AppType
      /\ server \in ServerType
  BY Parts
<1>1. /\ UNCHANGED <<Connector, Sender, Ender, Slot, Leaver>>
      /\ Frames' /\ Single'
  <2>1. SameHandles /\ UNCHANGED control
    BY <1>0 DEF TimePasses, SameHandles, StreamType, OutputType
  <2>2. QED
    BY <1>0, <2>1, StaysPut
<1>2. /\ stream' = [stream EXCEPT !.timeout = "reached"]
      /\ UNCHANGED <<output, app, server>>
  BY DEF TimePasses
<1>10. Places'
  BY <1>0, <1>1, <1>2 DEF Places, StreamType
<1>11. Slots'
  BY <1>0, <1>1, <1>2 DEF Slots, StreamType
<1>12. Connects'
  BY <1>0, <1>1, <1>2 DEF Connects, StreamType
<1>13. OutputFlags'
  BY <1>0, <1>1, <1>2 DEF OutputFlags, StreamType
<1>14. Senders'
  BY <1>0, <1>1, <1>2 DEF Senders, StreamType
<1>15. Stops'
  BY <1>0, <1>1, <1>2 DEF Stops, StreamType
<1>16. Leaves'
  BY <1>0, <1>1, <1>2 DEF Leaves, StreamType
<1>17. View'
  BY <1>0, <1>1, <1>2 DEF View, StreamType
<1>18. QED
  BY <1>1, <1>10, <1>11, <1>12, <1>13, <1>14, <1>15, <1>16, <1>17 DEF InPlace

\* The start slot creates connect_thread and returns.
LEMMA CreateConnectInPlace ==
  ASSUME TypeOK, InPlace, Patient, NEW c \in ConnectThreads,
         CreateConnectAs(c)
  PROVE  InPlace'
<1>0. /\ Frames /\ Single /\ Places /\ Slots /\ Connects /\ OutputFlags
      /\ Senders /\ Stops /\ Leaves /\ View
      /\ output \in OutputType /\ stream \in StreamType /\ app \in AppType
      /\ server \in ServerType
  BY Parts
<1>1. /\ Slot = "create_connect" /\ Slot' = "idle" /\ Connector = Dead
      /\ Connector' = "init_connect" /\ UNCHANGED <<Sender, Ender, Leaver>>
      /\ Frames' /\ Single'
  <2>1. Slot = "create_connect" /\ Connector = Dead
    BY <1>0 DEF CreateConnectAs, Slot, Slots
  <2>2. stack[OBS] = <<"idle">>
    BY <1>0, StreamOutputAssumption DEF CreateConnectAs, Frames, FramesAt
  <2>3. Head(stack[OBS]) = "idle" /\ Tail(stack[OBS]) = <<>>
    BY ONLY <2>2
  <2>4. /\ pc' = [pc EXCEPT ![OBS] = "idle", ![c] = "init_connect"]
        /\ stack' = [stack EXCEPT ![OBS] = <<>>]
    BY <2>3 DEF CreateConnectAs
  <2>5. /\ OBS \in Threads
        /\ c \in Threads
        /\ c \notin {OBS, Main}
        /\ OBS \notin stream.orphans
    BY <1>0, StreamOutputAssumption DEF StreamType
  <2>6. <<>> \in FramesAt(OBS, "idle") /\ <<>> \in FramesAt(c, "init_connect")
    BY StreamOutputAssumption DEF FramesAt
  <2>7. Creates(OBS, "idle", <<>>, c, "init_connect")
    BY <2>4, <2>5, <2>6 DEF Creates, CreateConnectAs
  <2>8. /\ Frames' /\ pc'[OBS] = "idle" /\ pc'[c] = "init_connect"
        /\ \A v \in Threads : v \notin {OBS, c} => pc'[v] = pc[v]
    BY <1>0, <2>5, <2>7, Created
  <2>9. \A u \in ConnectThreads : pc[u] = Dead
    BY <1>0, <2>1, Nobody DEF Single, Connector
  <2>10. /\ Connector' = "init_connect" /\ Alone(ConnectThreads)'
         /\ Live(ConnectThreads)' \subseteq {c}
    BY <2>8, <2>9, OnlyOne, StreamOutputAssumption DEF Connector
  <2>11. Ender' = Ender /\ Alone(EndThreads)' /\ Live(EndThreads)' = Live(EndThreads)
    BY <1>0, <2>8, EnderStays, StreamOutputAssumption
  <2>12. stream'.orphans = stream.orphans /\ stream'.connectThread = c
         /\ stream'.sendThread = stream.sendThread /\ UNCHANGED output
    BY <1>0 DEF CreateConnectAs, StreamType
  <2>13. Present' = Present
    BY <2>12 DEF Present
  <2>14. Sender' = Sender /\ Alone(Present)' /\ Live(Present)' = Live(Present)
    BY <1>0, <2>8, <2>13, SenderStays, StreamOutputAssumption DEF Present
  <2>15. Slot' = "idle" /\ Leaver' = Leaver
    BY <2>8, StreamOutputAssumption DEF Slot, Leaver
  <2>16. \A m \in stream.orphans : pc'[m] = "send_wait"
    BY <1>0, <2>8, StreamOutputAssumption DEF Single, StreamType
  <2>17. Single'
    BY <1>0, <2>10, <2>11, <2>12, <2>14, <2>16 DEF Single
  <2>18. QED
    BY <2>1, <2>8, <2>10, <2>11, <2>14, <2>15, <2>17
<1>2. UNCHANGED <<stream.active, stream.stopEvent, stream.sendSem, stream.packets,
                stream.inCallback, stream.stopTs>>
      /\ stream'.connecting /\ (LetGo' <=> LetGo) /\ UNCHANGED <<output, app, server>>
  BY <1>0, StreamOutputAssumption, ThreadsAssumption DEF CreateConnectAs, StreamType
<1>10. Places'
  BY <1>0, <1>1, <1>2 DEF Places
<1>11. Slots'
  BY <1>0, <1>1, <1>2 DEF Slots
<1>12. Connects'
  BY <1>0, <1>1, <1>2 DEF Connects, Places, Slots, OutputFlags
<1>13. OutputFlags'
  BY <1>0, <1>1, <1>2 DEF OutputFlags
<1>14. Senders'
  BY <1>0, <1>1, <1>2 DEF Senders
<1>15. Stops'
  BY <1>0, <1>1, <1>2 DEF Stops
<1>16. Leaves'
  BY <1>0, <1>1, <1>2 DEF Leaves
<1>17. View'
  BY <1>0, <1>1, <1>2 DEF View
<1>18. QED
  BY <1>1, <1>10, <1>11, <1>12, <1>13, <1>14, <1>15, <1>16, <1>17 DEF InPlace

\* connect_thread creates send_thread; one that was left over waits for ever.
LEMMA InitSendInPlace ==
  ASSUME TypeOK, InPlace, Patient, NEW c \in ConnectThreads,
         NEW n \in SendThreads, InitSendAs(c, n)
  PROVE  InPlace'
<1>0. /\ Frames /\ Single /\ Places /\ Slots /\ Connects /\ OutputFlags
      /\ Senders /\ Stops /\ Leaves /\ View
      /\ output \in OutputType /\ stream \in StreamType /\ app \in AppType
      /\ server \in ServerType
  BY Parts
<1>1. /\ Connector = "init_send" /\ Connector' = "set_active"
      /\ Sender \in {Dead, "send_wait"} /\ Sender' = "send_wait"
      /\ UNCHANGED <<Ender, Slot, Leaver>> /\ Frames' /\ Single'
  <2>1. Connector = "init_send" /\ Sender \in {Dead, "send_wait"}
    BY <1>0, AtAlone DEF InitSendAs, Connects, Single, Connector
  <2>2. /\ c \in Threads
        /\ n \in Threads
        /\ n \notin {c, OBS, Main}
        /\ c \notin stream.orphans
    BY <1>0, StreamOutputAssumption DEF StreamType
  <2>3. stack[c] \in FramesAt(c, "set_active") /\ <<>> \in FramesAt(n, "send_wait")
    BY <1>0, <2>2, StreamOutputAssumption DEF InitSendAs, Frames, FramesAt
  <2>4. stack' = [stack EXCEPT ![c] = stack[c]]
    BY <2>2 DEF InitSendAs, TypeOK, ControlOK
  <2>5. Creates(c, "set_active", stack[c], n, "send_wait")
    BY <2>2, <2>3, <2>4 DEF Creates, InitSendAs
  <2>6. /\ Frames' /\ pc'[c] = "set_active" /\ pc'[n] = "send_wait"
        /\ \A v \in Threads : v \notin {c, n} => pc'[v] = pc[v]
    BY <1>0, <2>2, <2>5, Created
  <2>7. /\ /\ stream'.orphans = stream.orphans \cup {m \in SendThreads : pc[m] = "send_wait"}
        /\ stream'.sendThread = n /\ stream'.connectThread = stream.connectThread
        /\ UNCHANGED output
    BY <1>0 DEF InitSendAs, ResetSemaphore, StreamType
  <2>8. n \notin stream'.orphans
    BY <1>0, <2>7 DEF Single, InitSendAs
  <2>9. ASSUME NEW m \in SendThreads, m # n, m \notin stream'.orphans PROVE pc'[m] = Dead
    <3>1. pc'[m] = pc[m] /\ m \in Present /\ pc[m] # "send_wait"
      BY <2>6, <2>7, <2>9, StreamOutputAssumption DEF Present
    <3>2. QED
      BY <1>0, <2>1, <3>1, AtAlone DEF Single, Sender
  <2>10. Live(Present)' = {n}
    BY <2>6, <2>8, <2>9 DEF Present, Live
  <2>11. Sender' = "send_wait" /\ Alone(Present)'
    BY <2>6, <2>10 DEF Sender, At, Alone
  <2>12. /\ Connector' = "set_active" /\ Alone(ConnectThreads)'
         /\ Live(ConnectThreads)' \subseteq {c}
    <3>1. \A u \in ConnectThreads : u # c => pc'[u] = pc[u]
      BY <2>6, StreamOutputAssumption
    <3>2. pc[c] # Dead
      BY DEF InitSendAs
    <3>3. QED
      BY <1>0, <2>6, <3>1, <3>2, ConnectorSteps
  <2>13. Ender' = Ender /\ Alone(EndThreads)' /\ Live(EndThreads)' = Live(EndThreads)
    BY <1>0, <2>6, EnderStays, StreamOutputAssumption
  <2>14. Slot' = Slot /\ Leaver' = Leaver
    BY <2>6, StreamOutputAssumption DEF Slot, Leaver
  <2>15. stream.connectThread = c
    BY <1>0 DEF Single, Live, InitSendAs
  <2>16. \A m \in stream'.orphans : pc'[m] = "send_wait"
    <3>1. ASSUME NEW m \in stream'.orphans PROVE pc[m] = "send_wait" /\ m \in SendThreads
      BY <1>0, <2>7, <3>1 DEF Single, StreamType
    <3>2. QED
      BY <2>6, <3>1, StreamOutputAssumption
  <2>17. Single'
    BY <1>0, <2>7, <2>10, <2>11, <2>12, <2>13, <2>15, <2>16 DEF Single
  <2>18. QED
    BY <2>1, <2>6, <2>11, <2>12, <2>13, <2>14, <2>17
<1>2. UNCHANGED <<stream.active, stream.stopEvent, stream.connecting, stream.packets,
                stream.inCallback>>
      /\ stream'.sendSem = 0 /\ ~LetGo' /\ UNCHANGED <<output, app, server>>
  BY <1>0 DEF InitSendAs, ResetSemaphore, StreamType
<1>10. Places'
  BY <1>0, <1>1, <1>2 DEF Places
<1>11. Slots'
  BY <1>0, <1>1, <1>2 DEF Slots
<1>12. Connects'
  BY <1>0, <1>1, <1>2 DEF Connects
<1>13. OutputFlags'
  BY <1>0, <1>1, <1>2 DEF OutputFlags, Places, Connects
<1>14. Senders'
  BY <1>0, <1>1, <1>2 DEF Senders, Places, Connects
<1>15. Stops'
  BY <1>0, <1>1, <1>2 DEF Stops
<1>16. Leaves'
  BY <1>0, <1>1, <1>2 DEF Leaves, Places, Slots, OutputFlags, Senders, Stops, Connects
<1>17. View'
  BY <1>0, <1>1, <1>2 DEF View
<1>18. QED
  BY <1>1, <1>10, <1>11, <1>12, <1>13, <1>14, <1>15, <1>16, <1>17 DEF InPlace

\* send_thread creates the end thread.
LEMMA EndCreateInPlace ==
  ASSUME TypeOK, InPlace, Patient, NEW n \in Present,
         NEW e \in EndThreads, EndCreate(n, e), Silent
  PROVE  InPlace'
<1>0. /\ Frames /\ Single /\ Places /\ Slots /\ Connects /\ OutputFlags
      /\ Senders /\ Stops /\ Leaves /\ View
      /\ output \in OutputType /\ stream \in StreamType /\ app \in AppType
      /\ server \in ServerType
  BY Parts
<1>1. /\ Sender = "end_create" /\ Sender' = "end_signal" /\ Ender = Dead
      /\ Ender' = "end_disconnect" /\ UNCHANGED <<Connector, Slot, Leaver>>
      /\ Frames' /\ Single'
  <2>1. Sender = "end_create" /\ Ender = Dead
    BY <1>0, AtAlone DEF EndCreate, Single, Sender, OutputFlags
  <2>2. /\ n \in Threads
        /\ e \in Threads
        /\ e \notin {n, OBS, Main}
        /\ n \notin stream.orphans
    BY StreamOutputAssumption DEF Present
  <2>3. /\ stack[n] \in FramesAt(n, "end_signal")
        /\ <<>> \in FramesAt(e, "end_disconnect")
    BY <1>0, <2>2, StreamOutputAssumption DEF EndCreate, Frames, FramesAt, Present
  <2>4. stack' = [stack EXCEPT ![n] = stack[n]]
    BY <2>2 DEF EndCreate, TypeOK, ControlOK
  <2>5. Creates(n, "end_signal", stack[n], e, "end_disconnect")
    BY <2>2, <2>3, <2>4 DEF Creates, EndCreate
  <2>6. /\ Frames' /\ pc'[n] = "end_signal" /\ pc'[e] = "end_disconnect"
        /\ \A v \in Threads : v \notin {n, e} => pc'[v] = pc[v]
    BY <1>0, <2>2, <2>5, Created
  <2>7. output'.endThread = e /\ UNCHANGED stream
    BY <1>0 DEF EndCreate, OutputType
  <2>8. Present' = Present
    BY <2>7 DEF Present
  <2>9. \A u \in EndThreads : pc[u] = Dead
    BY <1>0, <2>1, Nobody DEF Single, Ender
  <2>10. /\ Ender' = "end_disconnect" /\ Alone(EndThreads)'
         /\ Live(EndThreads)' \subseteq {e}
    <3>1. \A u \in EndThreads : u # e => pc'[u] = Dead
      BY <2>6, <2>9, StreamOutputAssumption DEF Present
    <3>2. QED
      BY <2>6, <3>1, OnlyOne DEF Ender
  <2>11. /\ Sender' = "end_signal" /\ Alone(Present)' /\ Live(Present)' \subseteq {n}
    <3>1. \A u \in Present : u # n => pc'[u] = pc[u]
      BY <2>6, StreamOutputAssumption DEF Present
    <3>2. pc[n] # Dead
      BY DEF EndCreate
    <3>3. QED
      BY <1>0, <2>6, <2>8, <3>1, <3>2, SenderSteps
  <2>12. /\ Connector' = Connector /\ Alone(ConnectThreads)'
         /\ Live(ConnectThreads)' = Live(ConnectThreads)
    BY <1>0, <2>6, ConnectorStays, StreamOutputAssumption DEF Present
  <2>13. Slot' = Slot /\ Leaver' = Leaver
    BY <2>6, StreamOutputAssumption DEF Slot, Leaver, Present
  <2>14. stream.sendThread = n
    BY <1>0 DEF Single, Live, EndCreate
  <2>15. \A m \in stream.orphans : pc'[m] = "send_wait"
    BY <1>0, <2>2, <2>6, StreamOutputAssumption DEF Single, StreamType
  <2>16. Single'
    BY <1>0, <2>7, <2>10, <2>11, <2>12, <2>14, <2>15 DEF Single
  <2>17. QED
    BY <2>1, <2>6, <2>10, <2>11, <2>12, <2>13, <2>16
<1>2. output' = [output EXCEPT !.endThread = e] /\ UNCHANGED <<stream, app, server>>
  BY DEF EndCreate
<1>10. Places'
  BY <1>0, <1>1, <1>2 DEF Places, OutputType
<1>11. Slots'
  BY <1>0, <1>1, <1>2 DEF Slots, OutputType
<1>12. Connects'
  BY <1>0, <1>1, <1>2 DEF Connects, OutputType
<1>13. OutputFlags'
  BY <1>0, <1>1, <1>2 DEF OutputFlags, Places, Connects, Senders, OutputType
<1>14. Senders'
  BY <1>0, <1>1, <1>2 DEF Senders, OutputType
<1>15. Stops'
  BY <1>0, <1>1, <1>2 DEF Stops, OutputType
<1>16. Leaves'
  BY <1>0, <1>1, <1>2 DEF Leaves, OutputType
<1>17. View'
  BY <1>0, <1>1, <1>2 DEF View, OutputType
<1>18. QED
  BY <1>1, <1>10, <1>11, <1>12, <1>13, <1>14, <1>15, <1>16, <1>17 DEF InPlace

(***************************************************************************)
(* The steps together.                                                     *)
(***************************************************************************)
\* Initially nothing is under way.
LEMMA InitInPlace == Init => InPlace
<1> SUFFICES ASSUME Init PROVE InPlace
  OBVIOUS
<1>1. /\ pc[OBS] = "idle" /\ pc[Main] = "loop" /\ stream.orphans = {}
      /\ \A t \in ConnectThreads \cup SendThreads \cup EndThreads : pc[t] = Dead
      /\ \A t \in Threads : stack[t] = <<>>
  BY StreamOutputAssumption DEF Init
<1>2. Live(ConnectThreads) = {} /\ Live(Present) = {} /\ Live(EndThreads) = {}
  BY <1>1 DEF Live, Present
<1>3. /\ Connector = Dead /\ Sender = Dead /\ Ender = Dead
      /\ Slot = "idle" /\ Leaver = "loop"
  BY <1>1, <1>2 DEF Connector, Sender, Ender, Slot, Leaver, At
<1>4. Frames
  BY <1>1, StreamOutputAssumption DEF Frames, FramesAt
<1>5. Single
  BY <1>1, <1>2 DEF Single, Alone
<1>6. Places
  BY <1>3 DEF Places
<1>7. Slots
  BY <1>3 DEF Slots, Init, ObsOutputCreate
<1>8. Connects
  BY <1>3 DEF Connects, Init, ObsOutputCreate
<1>9. OutputFlags
  BY <1>3 DEF OutputFlags, Init, ObsOutputCreate
<1>10. Senders
  BY <1>3 DEF Senders, Init, ObsOutputCreate
<1>11. Stops
  BY <1>3 DEF Stops, Init
<1>12. Leaves
  BY <1>3 DEF Leaves, Init
<1>13. View
  BY <1>3 DEF View, Init, ObsOutputCreate
<1>14. QED
  BY <1>4, <1>5, <1>6, <1>7, <1>8, <1>9, <1>10, <1>11, <1>12, <1>13 DEF InPlace

\* Who can stand where.
LEMMA Who ==
  ASSUME Single, Places, NEW t \in Threads, pc[t] \notin {Dead, "send_wait"}
  PROVE  \/ t = OBS /\ pc[t] \in {"idle"} \cup Beginning \cup Asking \cup Asked
         \/ /\ t = Main
            /\ pc[t] \in {"loop", "wait_thread", "destroy", "destroy_join"}
                         \cup Forcing \cup Waiting \cup Unloading
         \/ t \in ConnectThreads /\ pc[t] \in Busy \cup Done
         \/ /\ t \in Present
            /\ pc[t] \in {"next_packet", "send_packet", "end_inactive", "end_signal"}
                         \cup Clearing \cup Creating \cup EndLabels \cup Freeing
         \/ t \in EndThreads /\ pc[t] \in EndLabels
<1>1. t \notin stream.orphans
  BY Orphans
<1>2. QED
  BY <1>1, Stands DEF Places

\* What libobs steps through in a calling thread keeps it,
LEMMA ObsInPlace ==
  ASSUME TypeOK, InPlace, Patient, NEW t \in Callers, ObsStep(t)
  PROVE  InPlace'
<1>0. Places /\ Single /\ t \in Threads
  BY Parts DEF Callers
<1>1. CASE (ActualStart(t) \/ ObsOutputStop(t) \/ ActualStop(t)) /\ Silent
  <2>1. t = OBS
    BY <1>0, <1>1, Who DEF ActualStart, ObsOutputStop, ActualStop
  <2>2. QED
    BY <1>1, <2>1, ActualStartInPlace, StopAsksInPlace, StopReturnsInPlace,
       ActualStopInPlace, ActualStopReturnsInPlace
<1>2. CASE (ObsOutputForceStop(t) \/ ActualForceStop(t)) /\ Silent
  <2>1. CASE ObsOutputForceStop(t)
    <3>1. t = OBS
      BY <1>0, <2>1, Who DEF ObsOutputForceStop
    <3>2. QED
      BY <1>2, <2>1, <3>1, ForceAsksInPlace
  <2>2. CASE ActualForceStop(t)
    <3>1. pc[t] = "actual_force_stop"
      BY <2>2 DEF ActualForceStop
    <3>2. t = OBS \/ t = Main
      BY <1>0, <3>1, Who
    <3>3. QED
      BY <1>2, <2>2, <3>2, ActualForceInPlace, ActualForceMainInPlace
  <2>3. QED
    BY <1>2, <2>1, <2>2
<1>3. CASE EndCheck(t) /\ Silent
  <2>1. t = Main \/ t \in ConnectThreads \/ t \in Present
    BY <1>0, <1>3, Who DEF EndCheck
  <2>2. QED
    BY <1>3, <2>1, EndCheckMainInPlace, EndCheckConnectInPlace,
       EndCheckSendInPlace, EndNothingInPlace
<1>4. CASE (EndClear(t) \/ EndJoin(t)) /\ Silent
  <2>1. t \in Present
    BY <1>0, <1>4, Who DEF EndClear, EndJoin
  <2>2. QED
    BY <1>4, <2>1, EndClearInPlace, EndJoinInPlace
<1>5. ASSUME NEW e \in EndThreads, EndCreate(t, e), Silent PROVE InPlace'
  <2>1. t \in Present
    BY <1>0, <1>5, Who DEF EndCreate
  <2>2. QED
    BY <1>5, <2>1, EndCreateInPlace
<1>6. CASE EndCreateFails(t) /\ Silent
  <2>1. t \in Present
    BY <1>0, <1>6, Who DEF EndCreateFails
  <2>2. QED
    BY <1>6, <2>1, EndCreateFailsInPlace
<1>7. CASE EndInactive(t) /\ StreamingStopped(t) /\ UNCHANGED stream
  <2>1. t = Main \/ t \in ConnectThreads \/ t \in Present
    BY <1>0, <1>7, Who DEF EndInactive
  <2>2. QED
    BY <1>7, <2>1, EndInactiveMainInPlace, EndInactiveConnectInPlace,
       EndInactiveSendInPlace
<1>8. CASE EndSignal(t) /\ StreamingStopped(t) /\ UNCHANGED stream
  <2>1. t \in Present
    BY <1>0, <1>8, Who DEF EndSignal
  <2>2. QED
    BY <1>8, <2>1, EndSignalInPlace
<1>9. CASE (Destroy(t) \/ DestroyWait(t) \/ DestroyJoin(t)) /\ Silent
  <2>1. t = Main
    BY <1>0, <1>9, Who DEF Destroy, DestroyWait, DestroyJoin
  <2>2. QED
    BY <1>9, <2>1, DestroyActiveInPlace, DestroyIdleInPlace, DestroyWaitInPlace,
       DestroyJoinInPlace
<1>10. QED
  BY <1>1, <1>2, <1>3, <1>4, <1>5, <1>6, <1>7, <1>8, <1>9 DEF ObsStep

\* the steps of rtmp_stream_stop,
LEMMA StopInPlace ==
  ASSUME TypeOK, InPlace, Patient, NEW t \in Callers, StopStep(t)
  PROVE  InPlace'
<1>0. Places /\ Single /\ Slots /\ t \in Threads
  BY Parts DEF Callers
<1>1. CASE RtmpStop(t) \/ RtmpStopAgain(t) \/ SetTimeout(t)
  <2>1. t = OBS
    BY <1>0, <1>1, Who DEF RtmpStop, RtmpStopAgain, SetTimeout
  <2>2. ~RtmpStopAgain(t)
    BY <1>0, <2>1 DEF RtmpStopAgain, Slots, Slot
  <2>3. QED
    BY <1>1, <2>1, <2>2, RtmpStopInPlace, SetTimeoutInPlace
<1>2. CASE RtmpForceStop(t) \/ ForcePost(t)
  <2>1. t = OBS \/ t = Main
    BY <1>0, <1>2, Who DEF RtmpForceStop, ForcePost
  <2>2. QED
    BY <1>2, <2>1, RtmpForceInPlace, ForcePostInPlace, RtmpForceMainInPlace,
       ForcePostMainInPlace
<1>3. QED
  BY <1>1, <1>2 DEF StopStep

\* those of connect_thread,
LEMMA ConnectStepInPlace ==
  ASSUME TypeOK, InPlace, Patient, NEW c \in ConnectThreads, ConnectStep(c)
  PROVE  InPlace'
<1>1. CASE InitConnect(c) \/ Connect(c) \/ ConnectFails(c)
  BY <1>1, InitConnectInPlace, ConnectInPlace, ConnectFailsInPlace
<1>2. CASE InitSend(c)
  <2>1. PICK n \in SendThreads :
          /\ pc[n] = Dead
          /\ stream' = [ResetSemaphore EXCEPT !.sendThread = n, !.detached = @ \ {n}]
          /\ pc' = [pc EXCEPT ![c] = "set_active", ![n] = "send_wait"]
    BY <1>2, Zenon DEF InitSend
  <2>2. InitSendAs(c, n)
    BY <1>2, <2>1 DEF InitSend, InitSendAs
  <2>3. QED
    BY <2>2, InitSendInPlace
<1>3. CASE InitSendFails(c) \/ SetActive(c) \/ SendMetaData(c) \/ SendMetaDataFails(c)
  BY <1>3, InitSendFailsInPlace, SetActiveInPlace, SendMetaInPlace,
     SendMetaFailsInPlace
<1>4. CASE BeginDataCapture(c, "connect_return") /\ Silent
  BY <1>4, BeginCaptureInPlace
<1>5. CASE BeginActivate(c, "connect_return") /\ Notify(c, "started")
                                              /\ UNCHANGED stream
  BY <1>5, BeginActivateInPlace
<1>6. CASE ConnectReturn(c) \/ ClearConnecting(c)
  BY <1>6, ConnectReturnInPlace, ClearConnectingInPlace
<1>7. QED
  BY <1>1, <1>2, <1>3, <1>4, <1>5, <1>6 DEF ConnectStep

\* of send_thread,
LEMMA SendStepInPlace ==
  ASSUME TypeOK, InPlace, Patient, NEW n \in SendThreads, SendStep(n)
  PROVE  InPlace'
<1>0. Single
  BY Parts
<1>1. n \in Present
  BY <1>0, Orphans
     DEF SendStep, SendWait, NextPacket, NoPacket, SendPacket, SendFails,
     SendClose, SendFree, SendReset, SendInactive, Present
<1>2. CASE SendWait(n)
  BY <1>1, <1>2, SendStopsInPlace, SendWokenInPlace
<1>3. CASE NextPacket(n) \/ NoPacket(n) \/ SendPacket(n) \/ SendFails(n)
  BY <1>1, <1>3, NextPacketLastInPlace, NextPacketInPlace, NoPacketInPlace,
     SendPacketInPlace, SendFailsInPlace
<1>4. CASE SendClose(n) \/ SendFree(n) \/ SendReset(n) \/ SendInactive(n)
  BY <1>1, <1>4, SendCloseToldInPlace, SendCloseInPlace, SendFreeInPlace,
     SendResetInPlace, SendInactiveInPlace
<1>5. QED
  BY <1>2, <1>3, <1>4 DEF SendStep

\* of the end of a capture,
LEMMA EndStepInPlace ==
  ASSUME TypeOK, InPlace, Patient, NEW e \in Threads, EndStep(e)
  PROVE  InPlace'
<1>0. Places /\ Single
  BY Parts
<1>1. e \in EndThreads \/ e \in Present
  BY <1>0, Who DEF EndStep, EndDisconnect, EndDeactivate, EndEvent, EndReturn
<1>2. CASE e \in EndThreads
  BY <1>2, EndDisconnectInPlace, EndDeactivateInPlace, EndEventInPlace,
     EndReturnInPlace DEF EndStep
<1>3. CASE e \in Present
  BY <1>3, SendDisconnectInPlace, SendDeactivateInPlace, SendEventInPlace,
     SendReturnInPlace DEF EndStep
<1>4. QED
  BY <1>1, <1>2, <1>3

\* of the slots,
LEMMA SlotStepInPlace ==
  ASSUME TypeOK, InPlace, Patient, SlotStep
  PROVE  InPlace'
<1>0. View /\ server \in ServerType
  BY Parts
<1>1. CASE CreateConnect
  <2>1. PICK c \in ConnectThreads :
          /\ pc[c] = Dead
          /\ stream' = [stream EXCEPT !.connecting = TRUE, !.connectThread = c,
                                      !.detached = @ \ {c}]
          /\ pc' = [pc EXCEPT ![OBS] = Head(stack[OBS]), ![c] = "init_connect"]
    BY <1>1, Zenon DEF CreateConnect
  <2>2. CreateConnectAs(c)
    BY <1>1, <2>1 DEF CreateConnect, CreateConnectAs
  <2>3. QED
    BY <2>2, CreateConnectInPlace
<1>2. CASE CanBeginDataCapture(OBS, "create_connect", "start_failed") /\ Silent
  BY <1>2, CanBeginInPlace, CannotBeginInPlace
<1>3. CASE RtmpStart \/ CreateConnectFails \/ StartFailed
  BY <1>3, RtmpStartInPlace, CreateConnectFailsInPlace, StartFailedInPlace
<1>4. CASE Deliver
  <2>1. Hailed \/ Answered \/ Both
    BY <1>0, <1>4 DEF Deliver, View, ServerType
  <2>2. QED
    BY <1>4, <2>1, DeliverStartInPlace, DeliverStartedInPlace, DeliverEndInPlace
<1>5. QED
  BY <1>1, <1>2, <1>3, <1>4 DEF SlotStep

\* of the main thread,
LEMMA MainStepInPlace ==
  ASSUME TypeOK, InPlace, Patient, MainStep
  PROVE  InPlace'
<1>1. CASE ThreadQuits \/ ThreadWaited
  BY <1>1, ThreadQuitsInPlace, ThreadWaitedInPlace
<1>2. CASE RtmpDestroy
  BY <1>2, DestroyToldInPlace, DestroyConnectingInPlace, DestroySendingInPlace,
     DestroyNothingInPlace
<1>3. CASE JoinConnect \/ DestroyStop \/ DestroyPost \/ JoinSender
  BY <1>3, JoinConnectInPlace, DestroyStopInPlace, DestroyPostInPlace,
     DestroyPostNothingInPlace, JoinSenderInPlace
<1>4. QED
  BY <1>1, <1>2, <1>3 DEF MainStep

\* and every step, unless it is the exit in the middle of a start.
LEMMA NextInPlace ==
  ASSUME Patient, TypeOK, InPlace, [Next]_vars, SocketDisconnected => NoHastyExit
  PROVE  InPlace'
<1>1. CASE Command
  <2>1. ASSUME NEW force \in BOOLEAN, StopStreaming(force) PROVE InPlace'
    BY <2>1, StopStreamingInPlace, ForceStreamingInPlace, StopNothingInPlace
  <2>2. QED
    BY <1>1, <2>1, StartStreamingInPlace, StartEmptyInPlace DEF Command
<1>2. CASE SocketDisconnected \/ MainStep
  BY <1>2, SocketDropsInPlace, MainStepInPlace
<1>3. CASE SlotStep
  BY <1>3, SlotStepInPlace
<1>4. CASE DataStep \/ TimePasses
  BY <1>4, DataEnterInPlace, DataAddInPlace, TimePassesInPlace DEF DataStep
<1>5. ASSUME NEW t \in Callers, ObsStep(t) \/ StopStep(t) PROVE InPlace'
  BY <1>5, ObsInPlace, StopInPlace
<1>6. ASSUME NEW c \in ConnectThreads, ConnectStep(c) PROVE InPlace'
  BY <1>6, ConnectStepInPlace
<1>7. ASSUME NEW n \in SendThreads, SendStep(n) PROVE InPlace'
  BY <1>7, SendStepInPlace
<1>8. ASSUME NEW e \in Threads, EndStep(e) PROVE InPlace'
  BY <1>8, EndStepInPlace
<1>9. CASE UNCHANGED vars
  <2>1. /\ UNCHANGED <<Connector, Sender, Ender, Slot, Leaver>> /\ Frames' /\ Single'
    BY <1>9, Parts, StaysPut DEF vars, SameHandles
  <2>2. UNCHANGED <<output, stream, app, server>>
    BY <1>9 DEF vars
  <2>3. Places' /\ Slots' /\ Connects' /\ OutputFlags'
    BY <2>1, <2>2, Parts DEF Places, Slots, Connects, OutputFlags
  <2>4. Senders' /\ Stops' /\ Leaves' /\ View'
    BY <2>1, <2>2, Parts DEF Senders, Stops, Leaves, View
  <2>5. QED
    BY <2>1, <2>3, <2>4 DEF InPlace
<1>10. QED
  BY <1>1, <1>2, <1>3, <1>4, <1>5, <1>6, <1>7, <1>8, <1>9 DEF Next

\* For a server that waits for each answer and then hurries, or leaves, where
\* the threads of a stream stand determines the flags of both C files, the
\* handles that are joined, the notifications on their way and what the server
\* believes: whatever fails, for any number of threads, commands and packets.
THEOREM AlwaysInPlace ==
  ASSUME Patient, NoHastyExit
  PROVE  Spec => [](TypeOK /\ InPlace)
<1>1. Init => TypeOK /\ InPlace
  BY InitTypeOK, InitInPlace
<1>2. TypeOK /\ InPlace /\ [Next]_vars => (TypeOK /\ InPlace)'
  BY NextTypeOK, NextInPlace
<1>3. QED
  BY <1>1, <1>2, PTL DEF Spec

\* The OBS thread, once told to quit, stays so.
LEMMA StaysQuitting ==
  ASSUME TypeOK, [Next]_vars, app.quitting
  PROVE  app'.quitting
<1>0. app \in AppType
  BY DEF TypeOK
<1>1. ASSUME NEW t, NEW n, Notify(t, n) PROVE app'.quitting
  BY <1>0, <1>1 DEF Notify, AppType
<1>2. CASE Command \/ SocketDisconnected \/ TimePasses \/ DataStep
  BY <1>0, <1>2 DEF Command, StartStreaming, StartStreamingEmpty, StopStreaming,
     SocketDisconnected, TimePasses, DataStep, DataEnter, DataAdd, AppType, Outside
<1>3. CASE SlotStep
  BY <1>0, <1>3 DEF SlotStep, RtmpStart, CreateConnect, CreateConnectFails,
     StartFailed, Deliver, AppType, Outside, Silent
<1>4. CASE MainStep
  BY <1>0, <1>4 DEF MainStep, ThreadQuits, ThreadWaited, RtmpDestroy, JoinConnect,
     DestroyStop, DestroyPost, JoinSender, AppType, Outside
<1>5. ASSUME NEW t \in Callers, ObsStep(t) \/ StopStep(t) PROVE app'.quitting
  BY <1>1, <1>5 DEF ObsStep, StopStep, StreamingStopped, RtmpStop, RtmpStopAgain,
     SetTimeout, RtmpForceStop, ForcePost, Outside, Silent
<1>6. ASSUME NEW c \in ConnectThreads, ConnectStep(c) PROVE app'.quitting
  BY <1>1, <1>6 DEF ConnectStep, InitConnect, Connect, ConnectFails, ConnectionFails,
     InitSend, InitSendFails, SetActive, SendMetaData, SendMetaDataFails,
     ConnectReturn, ClearConnecting, Outside, Silent
<1>7. ASSUME NEW n \in SendThreads, SendStep(n) PROVE app'.quitting
  BY <1>7 DEF SendStep, SendWait, NextPacket, NoPacket, SendPacket, SendFails,
     SendClose, SendFree, SendReset, SendInactive, Outside
<1>8. ASSUME NEW e \in Threads, EndStep(e) PROVE app'.quitting
  BY <1>8 DEF EndStep, Silent
<1>9. CASE UNCHANGED vars
  BY <1>9 DEF vars
<1>10. QED
  BY <1>2, <1>3, <1>4, <1>5, <1>6, <1>7, <1>8, <1>9 DEF Next

\* The same of a server that hurries and may leave whenever it likes, for as long
\* as it has not left.
THEOREM InPlaceUntilExit ==
  ASSUME Patient
  PROVE  Spec => [](TypeOK /\ (app.quitting \/ InPlace))
<1>1. Init => TypeOK /\ (app.quitting \/ InPlace)
  BY InitTypeOK, InitInPlace
<1>2. TypeOK /\ (app.quitting \/ InPlace) /\ [Next]_vars
        => (TypeOK /\ (app.quitting \/ InPlace))'
  <2>1. SUFFICES ASSUME TypeOK, app.quitting \/ InPlace, [Next]_vars
                 PROVE  TypeOK' /\ (app'.quitting \/ InPlace')
    OBVIOUS
  <2>2. TypeOK'
    BY <2>1, NextTypeOK
  <2>3. CASE app.quitting \/ SocketDisconnected
    BY <2>1, <2>2, <2>3, StaysQuitting DEF SocketDisconnected, TypeOK, AppType
  <2>4. CASE ~app.quitting /\ ~SocketDisconnected
    BY <2>1, <2>2, <2>4, NextInPlace
  <2>5. QED
    BY <2>3, <2>4
<1>3. QED
  BY <1>1, <1>2, PTL DEF Spec

-----------------------------------------------------------------------------
(***************************************************************************)
(* What follows for a patient server.                                      *)
(***************************************************************************)
\* A place other than Dead is that of a live thread of the pool.
LEMMA Present1 ==
  ASSUME NEW T, At(T) # Dead
  PROVE  \E t \in Live(T) : pc[t] = At(T)
BY DEF At

\* A send_thread that is neither dead nor in its loop is closing.
LEMMA LoopOrClosing ==
  ASSUME Frames, NEW n \in SendThreads, pc[n] # Dead, pc[n] \notin LoopLabels
  PROVE  Closing(n)
<1>1. stack[n] \in FramesAt(n, pc[n])
  BY StreamOutputAssumption DEF Frames
<1>2. CASE pc[n] \in {"send_close"} \cup Freeing
  BY <1>2 DEF Closing, ClosingLabels
<1>3. CASE pc[n] \in EndLabels
  <2>1. stack[n] = <<"end_signal", "send_free">>
    BY <1>1, <1>3, StreamOutputAssumption DEF FramesAt
  <2>2. QED
    BY <2>1 DEF Closing
<1>4. CASE pc[n] \notin {Dead, "send_close"} \cup LoopLabels \cup Freeing \cup EndLabels
  <2>1. stack[n] = <<"send_free">>
    BY <1>1, <1>4, StreamOutputAssumption DEF FramesAt
  <2>2. QED
    BY <2>1 DEF Closing
<1>5. QED
  BY <1>2, <1>3, <1>4

\* A stream the server was told of is up, and its send_thread is its own.
LEMMA PlacesServe == TypeOK /\ InPlace => AnnouncedIsServed
<1> SUFFICES ASSUME TypeOK, InPlace,
                    server.view = "streaming", app.posted = <<>>, app.connected
             PROVE  /\ stream.active
                    /\ \E n \in Live(SendThreads) \ stream.orphans :
                         n = stream.sendThread /\ (InLoop(n) \/ Closing(n))
  BY DEF AnnouncedIsServed
<1>0. Frames /\ Single /\ OutputFlags /\ Senders /\ View
  BY Parts
<1>1. Up /\ Connector # "set_active"
  BY <1>0 DEF View
<1>2. Sender # Dead
  BY <1>0, <1>1 DEF Senders
<1>3. stream.active
  BY <1>0, <1>1, <1>2 DEF Senders
<1>4. PICK n \in Live(Present) : pc[n] = Sender
  BY <1>2, Present1 DEF Sender
<1>5. n \in SendThreads /\ n \notin stream.orphans /\ pc[n] # Dead
  BY <1>4 DEF Live, Present
<1>6. n \in Live(SendThreads) \ stream.orphans /\ n = stream.sendThread
  BY <1>0, <1>4, <1>5 DEF Live, Single
<1>7. InLoop(n) \/ Closing(n)
  BY <1>0, <1>5, LoopOrClosing DEF InLoop
<1>8. QED
  BY <1>3, <1>6, <1>7

\* Between two streams nothing is left but a send_thread that waits.
LEMMA PlacesLeaveClean == TypeOK /\ InPlace => LeftClean
<1> SUFFICES ASSUME TypeOK, InPlace, Drained, pc[OBS] = "idle",
                    server.view = "idle", ~app.quitting
             PROVE  /\ ~output.active /\ ~output.dataActive /\ ~output.hooked
                    /\ output.stoppingEvent /\ ~output.endThreadActive
                    /\ ~stream.stopEvent
                    /\ stream.active <=> \E n \in SendThreads : InLoop(n)
  BY DEF LeftClean
<1>0. /\ Frames /\ Single /\ Slots /\ OutputFlags /\ Senders /\ Stops /\ View
      /\ output \in OutputType /\ stream \in StreamType
  BY Parts
<1>1. Ender = Dead /\ Connector = Dead
  BY DEF Drained, Settled, Ender, Connector, At
<1>2. Leaver = "loop"
  BY <1>0 DEF Slots
<1>3. Sender \in {Dead} \cup LoopLabels
  <2>1. SUFFICES ASSUME Sender # Dead PROVE Sender \in LoopLabels
    OBVIOUS
  <2>2. PICK n \in Live(Present) : pc[n] = Sender
    BY <2>1, Present1 DEF Sender
  <2>3. n \in SendThreads /\ ~Closing(n)
    BY <2>2 DEF Live, Present, Drained, Settled
  <2>4. QED
    BY <1>0, <2>1, <2>2, <2>3, LoopOrClosing
<1>4. ~Up
  BY <1>0 DEF View
<1>5. /\ ~output.active /\ ~output.dataActive /\ ~output.hooked
      /\ output.stoppingEvent /\ ~output.endThreadActive
  BY <1>0, <1>1, <1>3, <1>4 DEF OutputFlags, LoopLabels, OutputType
<1>6. ~stream.stopEvent
  BY <1>0, <1>2, <1>3, <1>5 DEF Stops
<1>7. stream.active = (Sender # Dead)
  BY <1>0, <1>1 DEF Senders
<1>8. Sender # Dead => \E n \in SendThreads : InLoop(n)
  <2>1. SUFFICES ASSUME Sender # Dead PROVE \E n \in SendThreads : InLoop(n)
    OBVIOUS
  <2>2. PICK n \in Live(Present) : pc[n] = Sender
    BY <2>1, Present1 DEF Sender
  <2>3. QED
    BY <1>3, <2>1, <2>2 DEF Live, Present, InLoop
<1>9. (\E n \in SendThreads : InLoop(n)) => Sender # Dead
  <2>1. SUFFICES ASSUME NEW n \in SendThreads, InLoop(n) PROVE Sender # Dead
    OBVIOUS
  <2>2. n \in Present /\ pc[n] # Dead
    BY <2>1 DEF InLoop, Present, LoopLabels
  <2>3. QED
    BY <1>0, <2>2, AtAlone DEF Sender, Single
<1>10. QED
  BY <1>5, <1>6, <1>7, <1>8, <1>9

\* The main thread leaves when the other threads have returned.
LEMMA PlacesLeaveNoThread == TypeOK /\ InPlace => ExitLeavesNoThread
<1> SUFFICES ASSUME TypeOK, InPlace, pc[Main] = "exited"
             PROVE  Live(Threads \ {Main}) \subseteq {OBS} \cup stream.orphans
  BY DEF ExitLeavesNoThread
<1>0. Single /\ Connects /\ Leaves
  BY Parts
<1>1. Connector = Dead /\ Sender = Dead /\ Ender = Dead
  BY <1>0 DEF Connects, Leaves, Leaver
<1>2. ASSUME NEW t \in Threads \ {Main}, pc[t] # Dead, t \notin stream.orphans
      PROVE  t = OBS
  BY <1>0, <1>1, <1>2, Stands
<1>3. QED
  BY <1>2 DEF Live

\* Only init_send makes a send_thread.
LEMMA KeepsSendThread ==
  ASSUME TypeOK, [Next]_vars,
         \A c \in ConnectThreads : ~InitSend(c)
  PROVE  stream'.sendThread = stream.sendThread
<1>0. stream \in StreamType
  BY DEF TypeOK
<1>1. CASE Command \/ SocketDisconnected \/ TimePasses \/ DataStep
  BY <1>0, <1>1 DEF Command, StartStreaming, StartStreamingEmpty, StopStreaming,
     SocketDisconnected, TimePasses, DataStep, DataEnter, DataAdd, StreamType
<1>2. CASE SlotStep
  BY <1>0, <1>2 DEF SlotStep, RtmpStart, CreateConnect, CreateConnectFails,
     StartFailed, Deliver, StreamType
<1>3. CASE MainStep
  BY <1>0, <1>3 DEF MainStep, ThreadQuits, ThreadWaited, RtmpDestroy, JoinConnect,
     DestroyStop, DestroyPost, JoinSender, StreamType
<1>4. ASSUME NEW t \in Callers, ObsStep(t) \/ StopStep(t)
      PROVE  stream'.sendThread = stream.sendThread
  BY <1>0, <1>4 DEF ObsStep, StopStep, RtmpStop, RtmpStopAgain, SetTimeout,
     RtmpForceStop, ForcePost, StreamType
<1>5. ASSUME NEW c \in ConnectThreads, ConnectStep(c)
      PROVE  stream'.sendThread = stream.sendThread
  BY <1>0, <1>5 DEF ConnectStep, InitConnect, Connect, ConnectFails, ConnectionFails,
     InitSendFails, ResetSemaphore, SetActive, SendMetaData, SendMetaDataFails,
     ConnectReturn, ClearConnecting, StreamType
<1>6. ASSUME NEW n \in SendThreads, SendStep(n)
      PROVE  stream'.sendThread = stream.sendThread
  BY <1>0, <1>6 DEF SendStep, SendWait, NextPacket, NoPacket, SendPacket, SendFails,
     SendClose, SendFree, SendReset, SendInactive, StreamType
<1>7. ASSUME NEW e \in Threads, EndStep(e)
      PROVE  stream'.sendThread = stream.sendThread
  BY <1>7 DEF EndStep
<1>8. CASE UNCHANGED vars
  BY <1>8 DEF vars
<1>9. QED
  BY <1>1, <1>2, <1>3, <1>4, <1>5, <1>6, <1>7, <1>8 DEF Next

\* What a new send_thread finds.
FreeQueue ==
    /\ ~output.hooked /\ ~stream.inCallback
    /\ stream.packets = <<>>
    /\ \A n \in SendThreads : ~InLoop(n)' \/ n = stream'.sendThread

\* It finds it as soon as connect_thread gets to init_send.
LEMMA InitSendFindsFree ==
  ASSUME TypeOK, InPlace, NEW c \in ConnectThreads, InitSend(c)
  PROVE  FreeQueue
<1>0. /\ Single /\ Connects /\ OutputFlags
      /\ stream \in StreamType /\ pc = [t \in Threads |-> pc[t]]
  BY Parts DEF TypeOK, ControlOK
<1>1. Connector = "init_send"
  BY <1>0, AtAlone DEF InitSend, Connector, Single
<1>2. ~output.hooked /\ ~stream.inCallback /\ stream.packets = <<>>
  BY <1>0, <1>1 DEF Connects, OutputFlags
<1>3. PICK m \in SendThreads :
        /\ stream' = [ResetSemaphore EXCEPT !.sendThread = m, !.detached = @ \ {m}]
        /\ pc' = [pc EXCEPT ![c] = "set_active", ![m] = "send_wait"]
  BY Zenon DEF InitSend
<1>4. /\ stream'.sendThread = m
      /\ stream'.orphans = stream.orphans \cup {n \in SendThreads : pc[n] = "send_wait"}
  BY <1>0, <1>3 DEF ResetSemaphore, StreamType
<1>5. ASSUME NEW n \in SendThreads, n # m PROVE ~InLoop(n)'
  <2>1. pc'[n] = pc[n]
    BY <1>0, <1>3, <1>5, StreamOutputAssumption
  <2>2. CASE n \in stream.orphans \/ pc[n] = "send_wait"
    BY <1>4, <2>2 DEF InLoop
  <2>3. CASE n \notin stream.orphans /\ pc[n] # "send_wait"
    <3>1. pc[n] = Dead \/ pc[n] = Sender
      <4>1. n \in Present /\ Alone(Present)
        BY <1>0, <2>3 DEF Single, Present
      <4>2. QED
        BY <4>1, AtAlone DEF Sender
    <3>2. pc[n] = Dead
      BY <1>0, <1>1, <2>3, <3>1 DEF Connects
    <3>3. QED
      BY <2>1, <3>2 DEF InLoop, LoopLabels
  <2>4. QED
    BY <2>2, <2>3
<1>6. QED
  BY <1>2, <1>4, <1>5 DEF FreeQueue

\* While the server is told that it streams, a send_thread is there for the
\* packets: on every failure of the RTMP server and of thread creation.
THEOREM AlwaysServed ==
  ASSUME Patient, NoHastyExit
  PROVE  Spec => []AnnouncedIsServed
<1>1. TypeOK /\ InPlace => AnnouncedIsServed
  BY PlacesServe
<1>2. QED
  BY <1>1, AlwaysInPlace, PTL

\* Once the threads of a session are gone and the server has its answer, no
\* flag of the output or of rtmp-stream.c is left that disturbs the next, however
\* much the server hurries.
THEOREM AlwaysLeftClean ==
  ASSUME Patient
  PROVE  Spec => []LeftClean
<1>1. TypeOK /\ (app.quitting \/ InPlace) => LeftClean
  BY PlacesLeaveClean DEF LeftClean
<1>2. QED
  BY <1>1, InPlaceUntilExit, PTL

\* No connect_thread, send_thread or end thread uses what the exit frees.
THEOREM ExitAlwaysLeavesNoThread ==
  ASSUME Patient, NoHastyExit
  PROVE  Spec => []ExitLeavesNoThread
<1>1. TypeOK /\ InPlace => ExitLeavesNoThread
  BY PlacesLeaveNoThread
<1>2. QED
  BY <1>1, AlwaysInPlace, PTL

\* A new send_thread has the queue to itself: the step of rtmp-stream.c that
\* StreamQueue takes for its OpenSession finds what that action asks for.
THEOREM AlwaysOpensFreeQueue ==
  ASSUME Patient, NoHastyExit
  PROVE  Spec => OpensFreeQueue
<1>1. TypeOK /\ InPlace /\ [Next]_vars =>
        [stream'.sendThread # stream.sendThread =>
           /\ ~output.hooked /\ ~stream.inCallback
           /\ stream.packets = <<>>
           /\ \A n \in SendThreads : ~InLoop(n)' \/ n = stream'.sendThread]_vars
  BY KeepsSendThread, InitSendFindsFree DEF FreeQueue
<1>2. QED
  BY <1>1, AlwaysInPlace, PTL DEF Spec, OpensFreeQueue
=============================================================================
