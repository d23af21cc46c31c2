-------------------------- MODULE RecordPlacesProofs --------------------------
(***************************************************************************)
(* Proofs about recordings of a server that waits for each answer, for all *)
(* pools of threads, all paths and any number of commands and packets:     *)
(* that Settled is inductive, the safety that follows from it, and that    *)
(* RecordOutput implements RecordingPromise.  The first part says how a    *)
(* step moves the places, the second has a lemma for each action, the      *)
(* third joins them and the last is the refinement.                        *)
(***************************************************************************)
EXTENDS RecordPlaces, RecordOutputProofs, SequenceTheorems

\* The place of a pool is where its live thread stands.
LEMMA AtAlone ==
  ASSUME NEW T, Alone(T), NEW t \in T, pc[t] # Dead
  PROVE  At(T) = pc[t]
BY DEF At, Alone, Live

\* A thread that moves alone in its pool takes the pool's place with it.
LEMMA MoveIn ==
  ASSUME TypeOK, NEW T \in SUBSET Threads, NEW t \in T, NEW l,
         \A u \in Live(T) : u = t, pc' = [pc EXCEPT ![t] = l]
  PROVE  At(T)' = l /\ Alone(T)'
<1>1. /\ pc'[t] = l
      /\ \A u \in T : u # t => pc'[u] = Dead
  BY DEF TypeOK, ControlOK, Live
<1>2. Live(T)' = IF l = Dead THEN {} ELSE {t}
  BY <1>1 DEF Live
<1>3. QED
  BY <1>1, <1>2 DEF At, Alone

\* A pool none of whose threads moves keeps its place.
LEMMA MoveOut ==
  ASSUME NEW T, \A u \in T : pc'[u] = pc[u]
  PROVE  At(T)' = At(T) /\ (Alone(T) => Alone(T)') /\ Live(T)' = Live(T)
<1>1. Live(T)' = Live(T)
  BY DEF Live
<1>2. (CHOOSE t \in Live(T) : TRUE)' = CHOOSE t \in Live(T) : TRUE
  BY <1>1
<1>3. Live(T) # {} => (CHOOSE t \in Live(T) : TRUE) \in T
  BY DEF Live
<1>4. QED
  BY <1>1, <1>2, <1>3 DEF At, Alone

\* What a move of thread t to l does to the five places.
Moved(t, l) ==
    /\ Starter' = IF t \in StartThreads THEN l ELSE Starter
    /\ Writer'  = IF t \in WriteThreads THEN l ELSE Writer
    /\ Ender'   = IF t \in EndThreads THEN l ELSE Ender
    /\ Slot'    = IF t = OBS THEN l ELSE Slot
    /\ Leaver'  = IF t = Main THEN l ELSE Leaver

\* A thread that moves takes its place with it and wakes no other.
LEMMA Moves ==
  ASSUME TypeOK, Single, NEW t \in Threads, NEW l, pc' = [pc EXCEPT ![t] = l],
         t \in {OBS, Main} \/ pc[t] # Dead
  PROVE  /\ Moved(t, l)
         /\ Alone(StartThreads)' /\ Alone(WriteThreads)' /\ Alone(EndThreads)'
         /\ \A u \in Threads : pc'[u] # Dead => pc[u] # Dead \/ u \in {OBS, Main}
<1>1. /\ pc'[t] = l
      /\ \A u \in Threads : u # t => pc'[u] = pc[u]
  BY DEF TypeOK, ControlOK
<1>2. ASSUME NEW T \in {StartThreads, WriteThreads, EndThreads}
      PROVE  At(T)' = (IF t \in T THEN l ELSE At(T)) /\ Alone(T)'
  <2>1. T \subseteq Threads /\ Alone(T) /\ OBS \notin T /\ Main \notin T
    BY RecordAssumption DEF Single
  <2>2. ASSUME t \in T PROVE At(T)' = l /\ Alone(T)'
    <3>1. t \in T /\ T \in SUBSET Threads /\ pc[t] # Dead
      BY <2>1, <2>2
    <3>2. \A u \in Live(T) : u = t
      BY <2>1, <3>1 DEF Alone, Live
    <3>3. QED
      BY <3>1, <3>2, MoveIn
  <2>3. ASSUME t \notin T PROVE At(T)' = At(T) /\ Alone(T)'
    BY <2>1, <2>3, <1>1, MoveOut
  <2>4. QED
    BY <2>2, <2>3
<1>3. Slot' = (IF t = OBS THEN l ELSE Slot) /\ Leaver' = IF t = Main THEN l ELSE Leaver
  BY <1>1, RecordAssumption DEF Slot, Leaver
<1>4. QED
  BY <1>1, <1>2, <1>3 DEF Moved, Starter, Writer, Ender

\* One thread goes on from a to l.
Go(a, l) ==
    \/ Slot = a /\ Slot' = l /\ UNCHANGED <<Starter, Writer, Ender, Leaver>>
    \/ Leaver = a /\ Leaver' = l /\ UNCHANGED <<Starter, Writer, Ender, Slot>>
    \/ Starter = a /\ Starter' = l /\ UNCHANGED <<Writer, Ender, Slot, Leaver>>
    \/ Writer = a /\ Writer' = l /\ UNCHANGED <<Starter, Ender, Slot, Leaver>>
    \/ Ender = a /\ Ender' = l /\ UNCHANGED <<Starter, Writer, Slot, Leaver>>

\* The place it leaves is where it stood.
LEMMA Goes ==
  ASSUME TypeOK, Single, NEW t \in Threads, NEW l, pc' = [pc EXCEPT ![t] = l],
         pc[t] # Dead
  PROVE  Go(pc[t], l)
<1>1. Moved(t, l)
  BY Moves
<1>2. /\ t \in StartThreads => Starter = pc[t]
      /\ t \in WriteThreads => Writer = pc[t]
      /\ t \in EndThreads => Ender = pc[t]
  BY AtAlone DEF Single, Starter, Writer, Ender
<1>3. QED
  BY <1>1, <1>2, RecordAssumption DEF Go, Moved, Slot, Leaver

\* The main thread comes to full_stop by one of two steps, named there.
Kept == Leaver' = "full_stop" => Leaver = "full_stop" /\ (Short' <=> Short)

\* The handles and what they name stay.
SameHandles == /\ ff'.writeThread = ff.writeThread /\ ff'.detached = ff.detached
               /\ output'.endThread = output.endThread

\* A thread that goes on to l with the stack that belongs there.
LEMMA Advances ==
  ASSUME TypeOK, Frames, Single, SameHandles,
         NEW t \in Threads, NEW l, NEW s, pc[t] # Dead, s \in FramesAt(t, l),
         pc' = [pc EXCEPT ![t] = l], stack' = [stack EXCEPT ![t] = s]
  PROVE  /\ Go(pc[t], l) /\ Frames' /\ Single'
         /\ t # Main \/ l # "full_stop" => Kept
<1>1. /\ pc'[t] = l /\ stack'[t] = s
      /\ \A u \in Threads : u # t => pc'[u] = pc[u] /\ stack'[u] = stack[u]
  BY DEF TypeOK, ControlOK
<1>2. Frames'
  <2>1. ASSUME NEW u \in Threads PROVE stack'[u] \in FramesAt(u, pc'[u])
    BY <1>1, <2>1 DEF Frames
  <2>2. QED
    BY <2>1 DEF Frames
<1>3. Single'
  BY Moves, <1>1, RecordAssumption DEF Single, SameHandles, Live
<1>4. t # Main \/ l # "full_stop" => Kept
  BY <1>1, RecordAssumption DEF Kept, Leaver, Short
<1>5. QED
  BY <1>2, <1>3, <1>4, Goes

\* A Goto that keeps the stack moves one place.
LEMMA GoesTo ==
  ASSUME TypeOK, Frames, Single, SameHandles,
         NEW t \in Threads, NEW l, pc[t] # Dead, FramesAt(t,
         pc[t]) \subseteq FramesAt(t, l), Goto(t, l)
  PROVE  /\ Go(pc[t], l) /\ Frames' /\ Single'
         /\ t # Main \/ l # "full_stop" => Kept
<1>1. stack' = [stack EXCEPT ![t] = stack[t]] /\ stack[t] \in FramesAt(t, l)
  BY DEF TypeOK, ControlOK, Goto, Frames
<1>2. QED
  BY <1>1, Advances DEF Goto

\* So does a Call,
LEMMA CallsTo ==
  ASSUME TypeOK, Frames, Single, SameHandles,
         NEW t \in Threads, NEW l, NEW back, pc[t] # Dead, Call(t, l, back),
         <<back>> \o stack[t] \in FramesAt(t, l)
  PROVE  /\ Go(pc[t], l) /\ Frames' /\ Single'
         /\ t # Main \/ l # "full_stop" => Kept
BY Advances DEF TypeOK, ControlOK, Call

\* and a Return, to the label on top of the stack.
LEMMA ReturnsTo ==
  ASSUME TypeOK, Frames, Single, SameHandles, NEW t \in Threads, pc[t] # Dead,
         Return(t), Tail(stack[t]) \in FramesAt(t, Head(stack[t]))
  PROVE  /\ Go(pc[t], Head(stack[t])) /\ Frames' /\ Single'
         /\ t # Main \/ Head(stack[t]) # "full_stop" => Kept
<1>1. PICK l, s : l = Head(stack[t]) /\ s = Tail(stack[t])
  OBVIOUS
<1>2. pc' = [pc EXCEPT ![t] = l] /\ stack' = [stack EXCEPT ![t] = s]
  BY <1>1 DEF Return
<1>3. s \in FramesAt(t, l)
  BY <1>1
<1>4. /\ Go(pc[t], l) /\ Frames' /\ Single'
      /\ t # Main \/ l # "full_stop" => Kept
  BY ONLY TypeOK, Frames, Single, SameHandles, t \in Threads, pc[t] # Dead,
          <1>2, <1>3, Advances
<1>5. QED
  BY <1>1, <1>4

\* Each caller stands where its place says.
LEMMA Stands ==
  ASSUME Single, NEW t \in Threads, pc[t] # Dead
  PROVE  \/ t = OBS /\ Slot = pc[t]
         \/ t = Main /\ Leaver = pc[t]
         \/ t \in StartThreads /\ Starter = pc[t]
         \/ t \in WriteThreads /\ Writer = pc[t]
         \/ t \in EndThreads /\ Ender = pc[t]
BY AtAlone, RecordAssumption DEF Single, Starter, Writer, Ender, Slot, Leaver

\* A step that moves no thread.
LEMMA StaysPut ==
  ASSUME Frames, Single, SameHandles, UNCHANGED control
  PROVE  /\ UNCHANGED <<Starter, Writer, Ender, Slot, Leaver>> /\ (Short' <=> Short)
         /\ Frames' /\ Single'
<1>1. /\ At(StartThreads)' = At(StartThreads) /\ At(WriteThreads)' = At(WriteThreads)
      /\ At(EndThreads)' = At(EndThreads)
      /\ Alone(StartThreads)' /\ Alone(WriteThreads)' /\ Alone(EndThreads)'
      /\ Live(WriteThreads)' = Live(WriteThreads) /\ Live(EndThreads)' = Live(EndThreads)
  BY MoveOut DEF control, Single
<1>2. QED
  BY <1>1 DEF Starter, Writer, Ender, Slot, Leaver, Short, Frames, Single,
              SameHandles, control

\* A thread that goes on to l creates thread u of a pool that is all dead.
Created(t, T, u, l, m) ==
    /\ At(T)' = m /\ Live(T)' \subseteq {u}
    /\ \A P \in {StartThreads, WriteThreads, EndThreads} :
         P # T => /\ At(P)' = IF t \in P THEN l ELSE At(P)
                  /\ Alone(P)' /\ Live(P)' \subseteq Live(P)
    /\ Slot' = (IF t = OBS THEN l ELSE Slot)
    /\ Leaver' = (IF t = Main THEN l ELSE Leaver)
    /\ Frames'

\* A thread that is created starts its pool, and its creator goes on.
LEMMA Creates ==
  ASSUME TypeOK, Frames, Single, NEW t \in Threads, pc[t] # Dead,
         NEW T \in {StartThreads, WriteThreads, EndThreads}, NEW u \in T,
         At(T) = Dead, t \notin T, NEW l, NEW m,
         FramesAt(t, pc[t]) \subseteq FramesAt(t, l), <<>> \in FramesAt(u, m),
         FramesAt(u, Dead) = {<<>>},
         pc' = [pc EXCEPT ![t] = l, ![u] = m], UNCHANGED stack
  PROVE  Created(t, T, u, l, m)
<1>1. /\ u \in Threads /\ T \subseteq Threads /\ u \notin {OBS, Main}
      /\ pc'[u] = m /\ pc'[t] = l
      /\ \A v \in Threads : v \notin {t, u} => pc'[v] = pc[v]
  BY RecordAssumption DEF TypeOK, ControlOK
<1>2. Live(T) = {}
  BY DEF At, Live
<1>3. Live(T)' = IF m = Dead THEN {} ELSE {u}
  BY <1>1, <1>2 DEF Live
<1>4. At(T)' = m
  BY <1>1, <1>3 DEF At
<1>5. ASSUME NEW P \in {StartThreads, WriteThreads, EndThreads}, P # T
      PROVE  /\ At(P)' = IF t \in P THEN l ELSE At(P)
             /\ Alone(P)' /\ Live(P)' \subseteq Live(P)
  <2>1. P \subseteq Threads /\ Alone(P) /\ u \notin P
    BY <1>5, RecordAssumption DEF Single
  <2>2. CASE t \in P
    <3>1. Live(P) = {t}
      BY <2>1, <2>2 DEF Alone, Live
    <3>2. Live(P)' = IF l = Dead THEN {} ELSE {t}
      BY <1>1, <2>1, <2>2, <3>1 DEF Live
    <3>3. QED
      BY <1>1, <2>2, <3>1, <3>2 DEF At, Alone
  <2>3. CASE t \notin P
    BY <1>1, <2>1, <2>3, MoveOut
  <2>4. QED
    BY <2>2, <2>3
<1>6. Frames'
  <2>1. ASSUME NEW v \in Threads PROVE stack'[v] \in FramesAt(v, pc'[v])
    BY <1>1, <1>2, <2>1 DEF Frames, Live
  <2>2. QED
    BY <2>1 DEF Frames
<1>7. QED
  BY <1>1, <1>3, <1>4, <1>5, <1>6, RecordAssumption DEF Slot, Leaver, Created

\* What a call pushes.
LEMMA Push2 ==
  ASSUME NEW a, NEW b
  PROVE  <<a>> \o <<b>> = <<a, b>>
<1> DEFINE S == {a, b}
<1> PICK x : x = <<a>> \o <<b>>
  OBVIOUS
<1> PICK y : y = <<a, b>>
  OBVIOUS
<1>1. <<a>> \in Seq(S) /\ <<b>> \in Seq(S) /\ y \in Seq(S)
  OBVIOUS
<1>2. x \in Seq(S) /\ Len(x) = 2 /\ x[1] = a /\ x[2] = b
  BY <1>1, ConcatProperties
<1>3. Len(y) = 2 /\ y[1] = a /\ y[2] = b
  OBVIOUS
<1>4. \A i \in 1 .. Len(x) : x[i] = y[i]
  BY ONLY <1>2, <1>3
<1> HIDE DEF S
<1>5. x = y
  BY ONLY <1>1, <1>2, <1>3, <1>4, SeqEqual
<1>6. QED
  BY <1>5

\* And so are three.
LEMMA Push3 ==
  ASSUME NEW a, NEW b, NEW c
  PROVE  <<a>> \o <<b, c>> = <<a, b, c>>
<1> DEFINE S == {a, b, c}
<1> PICK x : x = <<a>> \o <<b, c>>
  OBVIOUS
<1> PICK y : y = <<a, b, c>>
  OBVIOUS
<1>1. <<a>> \in Seq(S) /\ <<b, c>> \in Seq(S) /\ y \in Seq(S)
  OBVIOUS
<1>2. x \in Seq(S) /\ Len(x) = 3 /\ x[1] = a /\ x[2] = b /\ x[3] = c
  BY <1>1, ConcatProperties
<1>3. Len(y) = 3 /\ y[1] = a /\ y[2] = b /\ y[3] = c
  OBVIOUS
<1>4. \A i \in 1 .. Len(x) : x[i] = y[i]
  BY ONLY <1>2, <1>3
<1> HIDE DEF S
<1>5. x = y
  BY ONLY <1>1, <1>2, <1>3, <1>4, SeqEqual
<1>6. QED
  BY <1>5

\* Notifications are told apart.
LEMMA OneNotice ==
    /\ <<Started>> # <<>> /\ <<Error>> # <<>> /\ <<Started>> # <<Error>>
    /\ \A f : <<Stopped(f)>> \notin {<<>>, <<Started>>, <<Error>>}
BY DEF Started, Error, Stopped

\* FfmpegStart and CreateWriter, with the thread that is created named.
FfmpegStartAs(s) ==
    /\ pc[OBS] = "plugin_start"
    /\ ff' = [ff EXCEPT !.stopping = FALSE, !.stopTs = "old"]
    /\ pc' = [pc EXCEPT ![OBS] = "set_connecting", ![s] = "data_init"]
    /\ UNCHANGED stack
    /\ Outside

CreateWriterAs(s, w) ==
    /\ pc[s] = "create_writer"
    /\ ff' = [ff EXCEPT !.writeThread = w, !.detached = @ \ {w}]
    /\ pc' = [pc EXCEPT ![s] = "begin_capture", ![w] = "write_wait"]
    /\ UNCHANGED stack
    /\ Outside

USE DEF Go, Kept, Stopping, Clearing, Creating, Joining, Freeing, Asking,
        Opened, Down, Capturing, StartLabels, WriteLabels, EndLabels, ForcedLabels,
        MainLabels, Dead, stopping, Quiet, Posted

\* The start goes through to the output type.
LEMMA ActualStartSettles ==
  ASSUME TypeOK, Settled, Patient, NEW t \in Callers, ActualStart(t), Silent
  PROVE  Settled'
<1>0. /\ Frames /\ Single /\ Places /\ Starts /\ OutputFlags /\ FfFlags
      /\ Writers /\ Orders /\ View /\ Files /\ Leftover
      /\ output \in OutputType /\ ff \in FfType /\ app \in AppType
      /\ server \in ServerType
  BY DEF TypeOK, Settled, Flags
<1>1. Go("actual_start", "plugin_start") /\ Frames' /\ Single' /\ Kept
  <2>1. FramesAt(t, "actual_start") \subseteq FramesAt(t, "plugin_start")
    BY RecordAssumption DEF FramesAt
  <2>2. QED
    BY <1>0, <2>1, GoesTo, RecordAssumption
       DEF ActualStart, Callers, SameHandles, Silent, Outside, FfType, OutputType
<1>2. /\ output' = [output EXCEPT !.stopCode = "success"]
      /\ UNCHANGED <<ff, disk, app, server>>
  BY DEF ActualStart, Silent, Outside
<1>3. Stopper' = Stopper
  BY <1>0, <1>1 DEF Places, Starts, Orders, Stopper
<1>10. Places'
  BY <1>0, <1>1, <1>2, <1>3 DEF Places, OutputType
<1>11. Starts'
  BY <1>0, <1>1, <1>2, <1>3 DEF Starts, OutputType
<1>12. OutputFlags'
  BY <1>0, <1>1, <1>2, <1>3 DEF Places, Starts, OutputFlags, Orders, OutputType
<1>13. FfFlags'
  BY <1>0, <1>1, <1>2, <1>3 DEF FfFlags, OutputType
<1>14. Writers'
  BY <1>0, <1>1, <1>2, <1>3 DEF Writers, OutputType
<1>15. Orders'
  BY <1>0, <1>1, <1>2, <1>3 DEF Orders, OutputType
<1>16. View'
  BY <1>0, <1>1, <1>2, <1>3 DEF View, OutputType
<1>17. Files'
  BY <1>0, <1>1, <1>2, <1>3 DEF Files, OutputType
<1>18. Leftover'
  BY <1>0, <1>1, <1>2, <1>3 DEF Leftover, OutputType
<1>19. QED
  BY <1>1, <1>10, <1>11, <1>12, <1>13, <1>14, <1>15, <1>16, <1>17, <1>18 DEF Settled,
     Flags

\* The stop goes through to the output type.
LEMMA ActualStopSettles ==
  ASSUME TypeOK, Settled, Patient, NEW t \in Callers, ActualStop(t), Silent
  PROVE  Settled'
<1>0. /\ Frames /\ Single /\ Places /\ Starts /\ OutputFlags /\ FfFlags
      /\ Writers /\ Orders /\ View /\ Files /\ Leftover
      /\ output \in OutputType /\ ff \in FfType /\ app \in AppType
      /\ server \in ServerType
  BY DEF TypeOK, Settled, Flags
<1>4. output.stoppingEvent
  BY <1>0, Stands DEF ActualStop, Callers, Places, OutputFlags, Orders, Stopper,
     OutputType
<1>1. Go("actual_stop", "plugin_stop") /\ Frames' /\ Single' /\ Kept
  <2>1. FramesAt(t, "actual_stop") \subseteq FramesAt(t, "plugin_stop")
    BY <1>4, RecordAssumption DEF FramesAt
  <2>2. QED
    BY <1>0, <1>4, <2>1, GoesTo, RecordAssumption
       DEF ActualStop, Callers, SameHandles, Silent, Outside, FfType, OutputType
<1>2. /\ output' = [output EXCEPT !.stoppingEvent = FALSE]
      /\ UNCHANGED <<ff, disk, app, server>>
  BY <1>4 DEF ActualStop, Silent, Outside
<1>3. Stopper' = Stopper
  BY <1>0, <1>1 DEF Places, Starts, Orders, Stopper
<1>10. Places'
  BY <1>0, <1>1, <1>2, <1>3 DEF Places, OutputType
<1>11. Starts'
  BY <1>0, <1>1, <1>2, <1>3 DEF Starts, OutputType
<1>12. OutputFlags'
  BY <1>0, <1>1, <1>2, <1>3 DEF Places, Starts, OutputFlags, Orders, OutputType
<1>13. FfFlags'
  BY <1>0, <1>1, <1>2, <1>3 DEF FfFlags, OutputType
<1>14. Writers'
  BY <1>0, <1>1, <1>2, <1>3 DEF Writers, OutputType
<1>15. Orders'
  BY <1>0, <1>1, <1>2, <1>3 DEF Orders, OutputType
<1>16. View'
  BY <1>0, <1>1, <1>2, <1>3 DEF View, OutputType
<1>17. Files'
  BY <1>0, <1>1, <1>2, <1>3 DEF Files, OutputType
<1>18. Leftover'
  BY <1>0, <1>1, <1>2, <1>3 DEF Leftover, OutputType
<1>19. QED
  BY <1>1, <1>10, <1>11, <1>12, <1>13, <1>14, <1>15, <1>16, <1>17, <1>18 DEF Settled,
     Flags

\* A forced stop is asked for.
LEMMA ForceStopSettles ==
  ASSUME TypeOK, Settled, Patient, NEW t \in Callers, ObsOutputForceStop(t), Silent
  PROVE  Settled'
<1>0. /\ Frames /\ Single /\ Places /\ Starts /\ OutputFlags /\ FfFlags
      /\ Writers /\ Orders /\ View /\ Files /\ Leftover
      /\ output \in OutputType /\ ff \in FfType /\ app \in AppType
      /\ server \in ServerType
  BY DEF TypeOK, Settled, Flags
<1>1. Go("obs_force_stop", "actual_force_stop") /\ Frames' /\ Single' /\ Kept
  <2>1. FramesAt(t, "obs_force_stop") \subseteq FramesAt(t, "actual_force_stop")
    BY RecordAssumption DEF FramesAt
  <2>2. QED
    BY <1>0, <2>1, GoesTo, RecordAssumption
       DEF ObsOutputForceStop, Callers, SameHandles, Silent, Outside, FfType, OutputType
<1>2. /\ output' \in {output, [output EXCEPT !.stopCode = "success"]}
      /\ UNCHANGED <<ff, disk, app, server>>
  BY DEF ObsOutputForceStop, Silent, Outside
<1>3. Stopper' = Stopper
  BY <1>0, <1>1 DEF Places, Starts, Orders, Stopper
<1>10. Places'
  BY <1>0, <1>1, <1>2, <1>3 DEF Places, OutputType
<1>11. Starts'
  BY <1>0, <1>1, <1>2, <1>3 DEF Starts, OutputType
<1>12. OutputFlags'
  BY <1>0, <1>1, <1>2, <1>3 DEF Places, Starts, OutputFlags, Orders, OutputType
<1>13. FfFlags'
  BY <1>0, <1>1, <1>2, <1>3 DEF FfFlags, OutputType
<1>14. Writers'
  BY <1>0, <1>1, <1>2, <1>3 DEF Writers, OutputType
<1>15. Orders'
  BY <1>0, <1>1, <1>2, <1>3 DEF Places, Orders, OutputType
<1>16. View'
  BY <1>0, <1>1, <1>2, <1>3 DEF View, OutputType
<1>17. Files'
  BY <1>0, <1>1, <1>2, <1>3 DEF Files, OutputType
<1>18. Leftover'
  BY <1>0, <1>1, <1>2, <1>3 DEF Leftover, OutputType
<1>19. QED
  BY <1>1, <1>10, <1>11, <1>12, <1>13, <1>14, <1>15, <1>16, <1>17, <1>18 DEF Settled,
     Flags

\* It goes through to the output type.
LEMMA ActualForceStopSettles ==
  ASSUME TypeOK, Settled, Patient, NEW t \in Callers, ActualForceStop(t), Silent
  PROVE  Settled'
<1>0. /\ Frames /\ Single /\ Places /\ Starts /\ OutputFlags /\ FfFlags
      /\ Writers /\ Orders /\ View /\ Files /\ Leftover
      /\ output \in OutputType /\ ff \in FfType /\ app \in AppType
      /\ server \in ServerType
  BY DEF TypeOK, Settled, Flags
<1>1. Go("actual_force_stop", "plugin_force_stop") /\ Frames' /\ Single' /\ Kept
  <2>1. FramesAt(t, "actual_force_stop") \subseteq FramesAt(t, "plugin_force_stop")
    BY RecordAssumption DEF FramesAt
  <2>2. QED
    BY <1>0, <2>1, GoesTo, RecordAssumption
       DEF ActualForceStop, Callers, SameHandles, Silent, Outside, FfType, OutputType
<1>2. /\ output' = [output EXCEPT !.stoppingEvent = FALSE]
      /\ UNCHANGED <<ff, disk, app, server>>
  BY DEF ActualForceStop, Silent, Outside
<1>3. Stopper' = Stopper
  BY <1>0, <1>1 DEF Places, Starts, Orders, Stopper
<1>10. Places'
  BY <1>0, <1>1, <1>2, <1>3 DEF Places, OutputType
<1>11. Starts'
  BY <1>0, <1>1, <1>2, <1>3 DEF Starts, OutputType
<1>12. OutputFlags'
  <2>1. (output.dataActive = Capturing)'
    BY <1>0, <1>1, <1>2, <1>3 DEF Places, Starts, OutputFlags, FfFlags, Writers, Orders,
       OutputType
  <2>2. (output.hooked = \/ output.dataActive \/ Stopper \in Creating
                         \/ Ender = "end_disconnect")'
    BY <1>0, <1>1, <1>2, <1>3 DEF Places, Starts, OutputFlags, FfFlags, Writers, Orders,
       OutputType
  <2>3. (output.active = \/ output.dataActive /\ Starter # "begin_activate"
                         \/ Stopper \in Creating
                         \/ Ender \in {"end_disconnect", "end_deactivate"})'
    BY <1>0, <1>1, <1>2, <1>3 DEF Places, Starts, OutputFlags, FfFlags, Writers, Orders,
       OutputType
  <2>4. (output.endThreadActive = (Stopper = "end_create" \/ Ender # Dead))'
    BY <1>0, <1>1, <1>2, <1>3 DEF Places, Starts, OutputFlags, FfFlags, Writers, Orders,
       OutputType
  <2>5. (stopping = \/ Slot \in {"plugin_stop", "plugin_force_stop", "full_stop"}
                    \/ Leaver = "plugin_force_stop"
                    \/ Leaver = "full_stop" /\ output.dataActive
                    \/ ff.stopping /\ output.dataActive
                    \/ Stopper \in Clearing \cup Creating
                    \/ Ender \in {"end_disconnect", "end_deactivate", "end_event"})'
    BY <1>0, <1>1, <1>2, <1>3 DEF Places, Starts, OutputFlags, FfFlags, Writers, Orders,
       OutputType
  <2>6. (Ender # Dead => Stopper \notin Clearing \cup Creating /\ ~output.dataActive)'
    BY <1>0, <1>1, <1>2, <1>3 DEF Places, Starts, OutputFlags, FfFlags, Writers, Orders,
       OutputType
  <2>7. (output.stopCode = IF Starter \in {"end_check", "end_inactive"}
                           THEN "connect_failed" ELSE "success")'
    BY <1>0, <1>1, <1>2, <1>3 DEF Places, Starts, OutputFlags, FfFlags, Writers, Orders,
       OutputType
  <2>8. QED
    BY <2>1, <2>2, <2>3, <2>4, <2>5, <2>6, <2>7 DEF OutputFlags
<1>13. FfFlags'
  BY <1>0, <1>1, <1>2, <1>3 DEF FfFlags, OutputType
<1>14. Writers'
  BY <1>0, <1>1, <1>2, <1>3 DEF Writers, OutputType
<1>15. Orders'
  BY <1>0, <1>1, <1>2, <1>3 DEF Orders, OutputType
<1>16. View'
  BY <1>0, <1>1, <1>2, <1>3 DEF View, OutputType
<1>17. Files'
  BY <1>0, <1>1, <1>2, <1>3 DEF Files, OutputType
<1>18. Leftover'
  BY <1>0, <1>1, <1>2, <1>3 DEF Leftover, OutputType
<1>19. QED
  BY <1>1, <1>10, <1>11, <1>12, <1>13, <1>14, <1>15, <1>16, <1>17, <1>18 DEF Settled,
     Flags

\* The capture is cleared.
LEMMA EndClearSettles ==
  ASSUME TypeOK, Settled, Patient, NEW t \in Callers, EndClear(t), Silent
  PROVE  Settled'
<1>0. /\ Frames /\ Single /\ Places /\ Starts /\ OutputFlags /\ FfFlags
      /\ Writers /\ Orders /\ View /\ Files /\ Leftover
      /\ output \in OutputType /\ ff \in FfType /\ app \in AppType
      /\ server \in ServerType
  BY DEF TypeOK, Settled, Flags
<1>1. Go("end_clear", "end_join") /\ Frames' /\ Single' /\ Kept
  <2>1. FramesAt(t, "end_clear") \subseteq FramesAt(t, "end_join")
    BY RecordAssumption DEF FramesAt
  <2>2. QED
    BY <1>0, <2>1, GoesTo, RecordAssumption
       DEF EndClear, Callers, SameHandles, Silent, Outside, FfType, OutputType
<1>2. /\ output' = [output EXCEPT !.dataActive = FALSE]
      /\ UNCHANGED <<ff, disk, app, server>>
  BY DEF EndClear, Silent, Outside
<1>3. Stopper = "end_clear" /\ Stopper' = "end_join"
  BY <1>0, <1>1 DEF Places, Starts, Orders, Stopper
<1>10. Places'
  BY <1>0, <1>1, <1>2, <1>3 DEF Places, Orders, OutputType
<1>11. Starts'
  BY <1>0, <1>1, <1>2, <1>3 DEF Places, Starts, OutputType
<1>12. OutputFlags'
  BY <1>0, <1>1, <1>2, <1>3 DEF Places, Starts, OutputFlags, FfFlags, Writers,
     OutputType
<1>13. FfFlags'
  BY <1>0, <1>1, <1>2, <1>3 DEF Places, Starts, OutputFlags, FfFlags, Writers, Orders,
     OutputType
<1>14. Writers'
  BY <1>0, <1>1, <1>2, <1>3 DEF Places, Starts, OutputFlags, FfFlags, Writers, Orders,
     OutputType
<1>15. Orders'
  BY <1>0, <1>1, <1>2, <1>3 DEF Places, Starts, OutputFlags, FfFlags, Writers, Orders,
     OutputType
<1>16. View'
  BY <1>0, <1>1, <1>2, <1>3 DEF Places, Starts, OutputFlags, FfFlags, Writers, Orders,
     View, Files, OutputType
<1>17. Files'
  BY <1>0, <1>1, <1>2, <1>3 DEF Places, Files, OutputType
<1>18. Leftover'
  BY <1>0, <1>1, <1>2, <1>3 DEF OutputFlags, Leftover, OutputType
<1>19. QED
  BY <1>1, <1>10, <1>11, <1>12, <1>13, <1>14, <1>15, <1>16, <1>17, <1>18 DEF Settled,
     Flags

\* The end thread's flag is raised.
LEMMA EndJoinSettles ==
  ASSUME TypeOK, Settled, Patient, NEW t \in Callers, EndJoin(t), Silent
  PROVE  Settled'
<1>0. /\ Frames /\ Single /\ Places /\ Starts /\ OutputFlags /\ FfFlags
      /\ Writers /\ Orders /\ View /\ Files /\ Leftover
      /\ output \in OutputType /\ ff \in FfType /\ app \in AppType
      /\ server \in ServerType
  BY DEF TypeOK, Settled, Flags
<1>1. Go("end_join", "end_create") /\ Frames' /\ Single' /\ Kept
  <2>1. FramesAt(t, "end_join") \subseteq FramesAt(t, "end_create")
    BY RecordAssumption DEF FramesAt
  <2>2. QED
    BY <1>0, <2>1, GoesTo, RecordAssumption
       DEF EndJoin, Callers, SameHandles, Silent, Outside, FfType, OutputType
<1>2. /\ output' = [output EXCEPT !.endThreadActive = TRUE]
      /\ UNCHANGED <<ff, disk, app, server>>
  BY DEF EndJoin, Silent, Outside
<1>3. Stopper = "end_join" /\ Stopper' = "end_create"
  BY <1>0, <1>1 DEF Places, Starts, Orders, Stopper
<1>10. Places'
  BY <1>0, <1>1, <1>2, <1>3 DEF Places, Orders, OutputType
<1>11. Starts'
  BY <1>0, <1>1, <1>2, <1>3 DEF Places, Starts, OutputType
<1>12. OutputFlags'
  BY <1>0, <1>1, <1>2, <1>3 DEF Places, OutputFlags, OutputType
<1>13. FfFlags'
  BY <1>0, <1>1, <1>2, <1>3 DEF Places, Starts, FfFlags, OutputType
<1>14. Writers'
  BY <1>0, <1>1, <1>2, <1>3 DEF Places, Writers, OutputType
<1>15. Orders'
  BY <1>0, <1>1, <1>2, <1>3 DEF Places, Orders, OutputType
<1>16. View'
  BY <1>0, <1>1, <1>2, <1>3 DEF Places, View, OutputType
<1>17. Files'
  BY <1>0, <1>1, <1>2, <1>3 DEF Places, Files, OutputType
<1>18. Leftover'
  BY <1>0, <1>1, <1>2, <1>3 DEF OutputFlags, Leftover, OutputType
<1>19. QED
  BY <1>1, <1>10, <1>11, <1>12, <1>13, <1>14, <1>15, <1>16, <1>17, <1>18 DEF Settled,
     Flags

\* The output is waited for.
LEMMA DestroyWaitSettles ==
  ASSUME TypeOK, Settled, Patient, NEW t \in Callers, DestroyWait(t), Silent
  PROVE  Settled'
<1>0. /\ Frames /\ Single /\ Places /\ Starts /\ OutputFlags /\ FfFlags
      /\ Writers /\ Orders /\ View /\ Files /\ Leftover
      /\ output \in OutputType /\ ff \in FfType /\ app \in AppType
      /\ server \in ServerType
  BY DEF TypeOK, Settled, Flags
<1>1. Go("destroy_wait", "destroy_join") /\ Frames' /\ Single' /\ Kept
  <2>1. FramesAt(t, "destroy_wait") \subseteq FramesAt(t, "destroy_join")
    BY RecordAssumption DEF FramesAt
  <2>2. QED
    BY <1>0, <2>1, GoesTo, RecordAssumption
       DEF DestroyWait, Callers, SameHandles, Silent, Outside, FfType, OutputType
<1>2. output.stoppingEvent /\ UNCHANGED <<output, ff, disk, app, server>>
  BY DEF DestroyWait, Silent, Outside
<1>3. Stopper' = Stopper
  BY <1>0, <1>1 DEF Places, Starts, Orders, Stopper
<1>10. Places'
  BY <1>0, <1>1, <1>2, <1>3 DEF Places
<1>11. Starts'
  BY <1>0, <1>1, <1>2, <1>3 DEF Starts
<1>12. OutputFlags'
  BY <1>0, <1>1, <1>2, <1>3 DEF OutputFlags
<1>13. FfFlags'
  BY <1>0, <1>1, <1>2, <1>3 DEF FfFlags
<1>14. Writers'
  BY <1>0, <1>1, <1>2, <1>3 DEF Writers
<1>15. Orders'
  BY <1>0, <1>1, <1>2, <1>3 DEF Orders
<1>16. View'
  BY <1>0, <1>1, <1>2, <1>3 DEF View
<1>17. Files'
  BY <1>0, <1>1, <1>2, <1>3 DEF Files
<1>18. Leftover'
  BY <1>0, <1>1, <1>2, <1>3 DEF Leftover
<1>19. QED
  BY <1>1, <1>10, <1>11, <1>12, <1>13, <1>14, <1>15, <1>16, <1>17, <1>18 DEF Settled,
     Flags

\* The stop time is stored.
LEMMA SetStopTsSettles ==
  ASSUME TypeOK, Settled, Patient, NEW t \in Callers, SetStopTs(t)
  PROVE  Settled'
<1>0. /\ Frames /\ Single /\ Places /\ Starts /\ OutputFlags /\ FfFlags
      /\ Writers /\ Orders /\ View /\ Files /\ Leftover
      /\ output \in OutputType /\ ff \in FfType /\ app \in AppType
      /\ server \in ServerType
  BY DEF TypeOK, Settled, Flags
<1>1. Go("set_stop_ts", "idle") /\ Frames' /\ Single' /\ Kept
  <2>1. t = OBS
    BY <1>0, Stands DEF SetStopTs, Callers, Places
  <2>2. stack[t] = <<"idle">> /\ <<>> \in FramesAt(t, "idle")
    BY <1>0, <2>1, RecordAssumption DEF SetStopTs, Frames, FramesAt
  <2>3. Head(stack[t]) = "idle" /\ Tail(stack[t]) = <<>>
    BY <2>2
  <2>4. QED
    <3>1. SameHandles /\ t # Main /\ t \in Threads /\ pc[t] = "set_stop_ts" /\ Return(t)
      BY <1>0, <2>1, RecordAssumption DEF SetStopTs, SameHandles, FfType, Outside
    <3>2. QED
      BY <1>0, <2>2, <2>3, <3>1, ReturnsTo
<1>2. ff' = [ff EXCEPT !.stopTs = "set"] /\ UNCHANGED <<output, disk, app, server>>
  BY DEF SetStopTs, Silent, Outside
<1>3. Stopper' = Stopper
  BY <1>0, <1>1 DEF Places, Starts, Orders, Stopper
<1>10. Places'
  BY <1>0, <1>1, <1>2, <1>3 DEF Places, FfType
<1>11. Starts'
  BY <1>0, <1>1, <1>2, <1>3 DEF Places, Starts, FfType
<1>12. OutputFlags'
  BY <1>0, <1>1, <1>2, <1>3 DEF OutputFlags, FfType
<1>13. FfFlags'
  BY <1>0, <1>1, <1>2, <1>3 DEF FfFlags, FfType
<1>14. Writers'
  BY <1>0, <1>1, <1>2, <1>3 DEF Writers, FfType
<1>15. Orders'
  BY <1>0, <1>1, <1>2, <1>3 DEF Orders, FfType
<1>16. View'
  BY <1>0, <1>1, <1>2, <1>3 DEF View, FfType
<1>17. Files'
  BY <1>0, <1>1, <1>2, <1>3 DEF Files, FfType
<1>18. Leftover'
  BY <1>0, <1>1, <1>2, <1>3 DEF Leftover, FfType
<1>19. QED
  BY <1>1, <1>10, <1>11, <1>12, <1>13, <1>14, <1>15, <1>16, <1>17, <1>18 DEF Settled,
     Flags

\* The packets left are freed.
LEMMA FreePacketsSettles ==
  ASSUME TypeOK, Settled, Patient, NEW t \in Callers, FreePackets(t)
  PROVE  Settled'
<1>0. /\ Frames /\ Single /\ Places /\ Starts /\ OutputFlags /\ FfFlags
      /\ Writers /\ Orders /\ View /\ Files /\ Leftover
      /\ output \in OutputType /\ ff \in FfType /\ app \in AppType
      /\ server \in ServerType
  BY DEF TypeOK, Settled, Flags
<1>1. Go("free_packets", "write_trailer") /\ Frames' /\ Single' /\ Kept
  <2>1. FramesAt(t, "free_packets") \subseteq FramesAt(t, "write_trailer")
    BY RecordAssumption DEF FramesAt
  <2>2. QED
    BY <1>0, <2>1, GoesTo, RecordAssumption
       DEF FreePackets, Callers, SameHandles, Silent, Outside, FfType, OutputType
<1>2. ff' = [ff EXCEPT !.packets = <<>>] /\ UNCHANGED <<output, disk, app, server>>
  BY DEF FreePackets, Silent, Outside
<1>3. Stopper = "free_packets" /\ Stopper' = "write_trailer"
  BY <1>0, <1>1 DEF Places, Starts, Orders, Stopper
<1>10. Places'
  BY <1>0, <1>1, <1>2, <1>3 DEF Places, Orders, FfType
<1>11. Starts'
  BY <1>0, <1>1, <1>2, <1>3 DEF Places, Starts, FfType
<1>12. OutputFlags'
  <2>1. (output.dataActive = Capturing)'
    BY <1>0, <1>1, <1>2, <1>3 DEF Places, Starts, OutputFlags, Orders, FfType
  <2>2. (output.hooked = \/ output.dataActive \/ Stopper \in Creating
                         \/ Ender = "end_disconnect")'
    BY <1>0, <1>1, <1>2, <1>3 DEF Places, Starts, OutputFlags, Orders, FfType
  <2>3. (output.active = \/ output.dataActive /\ Starter # "begin_activate"
                         \/ Stopper \in Creating
                         \/ Ender \in {"end_disconnect", "end_deactivate"})'
    BY <1>0, <1>1, <1>2, <1>3 DEF Places, Starts, OutputFlags, Orders, FfType
  <2>4. (output.endThreadActive = (Stopper = "end_create" \/ Ender # Dead))'
    BY <1>0, <1>1, <1>2, <1>3 DEF Places, Starts, OutputFlags, Orders, FfType
  <2>5. (stopping = \/ Slot \in {"plugin_stop", "plugin_force_stop", "full_stop"}
                    \/ Leaver = "plugin_force_stop"
                    \/ Leaver = "full_stop" /\ output.dataActive
                    \/ ff.stopping /\ output.dataActive
                    \/ Stopper \in Clearing \cup Creating
                    \/ Ender \in {"end_disconnect", "end_deactivate", "end_event"})'
    BY <1>0, <1>1, <1>2, <1>3 DEF Places, Starts, OutputFlags, Orders, FfType
  <2>6. (Ender # Dead => Stopper \notin Clearing \cup Creating /\ ~output.dataActive)'
    BY <1>0, <1>1, <1>2, <1>3 DEF Places, Starts, OutputFlags, Orders, FfType
  <2>7. (output.stopCode = IF Starter \in {"end_check", "end_inactive"}
                           THEN "connect_failed" ELSE "success")'
    BY <1>0, <1>1, <1>2, <1>3 DEF Places, Starts, OutputFlags, Orders, FfType
  <2>8. QED
    BY <2>1, <2>2, <2>3, <2>4, <2>5, <2>6, <2>7 DEF OutputFlags
<1>13. FfFlags'
  BY <1>0, <1>1, <1>2, <1>3 DEF Places, Starts, FfFlags, FfType
<1>14. Writers'
  BY <1>0, <1>1, <1>2, <1>3 DEF Places, Writers, FfType
<1>15. Orders'
  BY <1>0, <1>1, <1>2, <1>3 DEF Places, Orders, FfType
<1>16. View'
  BY <1>0, <1>1, <1>2, <1>3 DEF Places, View, FfType
<1>17. Files'
  BY <1>0, <1>1, <1>2, <1>3 DEF Places, Files, FfType
<1>18. Leftover'
  BY <1>0, <1>1, <1>2, <1>3 DEF OutputFlags, Leftover, FfType
<1>19. QED
  BY <1>1, <1>10, <1>11, <1>12, <1>13, <1>14, <1>15, <1>16, <1>17, <1>18 DEF Settled,
     Flags

\* The trailer is written.
LEMMA WriteTrailerSettles ==
  ASSUME TypeOK, Settled, Patient, NEW t \in Callers, WriteTrailer(t)
  PROVE  Settled'
<1>0. /\ Frames /\ Single /\ Places /\ Starts /\ OutputFlags /\ FfFlags
      /\ Writers /\ Orders /\ View /\ Files /\ Leftover
      /\ output \in OutputType /\ ff \in FfType /\ app \in AppType
      /\ server \in ServerType
  BY DEF TypeOK, Settled, Flags
<1>1. Go("write_trailer", "close_file") /\ Frames' /\ Single' /\ Kept
  <2>1. FramesAt(t, "write_trailer") \subseteq FramesAt(t, "close_file")
    BY RecordAssumption DEF FramesAt
  <2>2. QED
    BY <1>0, <2>1, GoesTo, RecordAssumption
       DEF WriteTrailer, Callers, SameHandles, Silent, Outside, FfType, OutputType
<1>2. disk' = disk \cup ({ff.data} \ {NoFile}) /\ UNCHANGED <<output, ff, app, server>>
  BY DEF WriteTrailer, Silent, Outside
<1>3. Stopper = "write_trailer" /\ Stopper' = "close_file"
  BY <1>0, <1>1 DEF Places, Starts, Orders, Stopper
<1>10. Places'
  BY <1>0, <1>1, <1>2, <1>3 DEF Places, Orders
<1>11. Starts'
  BY <1>0, <1>1, <1>2, <1>3 DEF Places, Starts
<1>12. OutputFlags'
  BY <1>0, <1>1, <1>2, <1>3 DEF Places, Starts, OutputFlags, Orders
<1>13. FfFlags'
  BY <1>0, <1>1, <1>2, <1>3 DEF Places, Starts, FfFlags
<1>14. Writers'
  BY <1>0, <1>1, <1>2, <1>3 DEF Places, Writers
<1>15. Orders'
  BY <1>0, <1>1, <1>2, <1>3 DEF Places, Orders
<1>16. View'
  BY <1>0, <1>1, <1>2, <1>3 DEF Places, View
<1>17. Files'
  BY <1>0, <1>1, <1>2, <1>3 DEF Places, Files
<1>18. Leftover'
  BY <1>0, <1>1, <1>2, <1>3 DEF OutputFlags, Leftover
<1>19. QED
  BY <1>1, <1>10, <1>11, <1>12, <1>13, <1>14, <1>15, <1>16, <1>17, <1>18 DEF Settled,
     Flags

\* The file data is cleared.
LEMMA DataInitSettles ==
  ASSUME TypeOK, Settled, Patient, NEW s \in StartThreads, DataInit(s)
  PROVE  Settled'
<1>0. /\ Frames /\ Single /\ Places /\ Starts /\ OutputFlags /\ FfFlags
      /\ Writers /\ Orders /\ View /\ Files /\ Leftover
      /\ output \in OutputType /\ ff \in FfType /\ app \in AppType
      /\ server \in ServerType
  BY DEF TypeOK, Settled, Flags
<1>1. Go("data_init", "open_file") /\ Frames' /\ Single' /\ Kept
  <2>1. FramesAt(s, "data_init") \subseteq FramesAt(s, "open_file")
    BY RecordAssumption DEF FramesAt
  <2>2. QED
    BY <1>0, <2>1, GoesTo, RecordAssumption
       DEF DataInit, Callers, SameHandles, Silent, Outside, FfType, OutputType
<1>2. ff' = [ff EXCEPT !.data = NoFile] /\ UNCHANGED <<output, disk, app, server>>
  BY DEF DataInit, Silent, Outside
<1>3. Stopper' = Stopper
  BY <1>0, <1>1 DEF Places, Starts, Orders, Stopper
<1>9. /\ Starter = "data_init" /\ Starter' = "open_file"
      /\ UNCHANGED <<Writer, Ender, Slot, Leaver>> /\ Kept
  BY <1>0, <1>1 DEF Places
<1>10. Places'
  BY <1>0, <1>2, <1>3, <1>9 DEF Places, FfType
<1>11. Starts'
  BY <1>0, <1>2, <1>3, <1>9 DEF Starts, FfType
<1>12. OutputFlags'
  BY <1>0, <1>2, <1>3, <1>9 DEF OutputFlags, FfType
<1>13. FfFlags'
  BY <1>0, <1>2, <1>3, <1>9 DEF Places, Starts, OutputFlags, FfFlags, FfType
<1>14. Writers'
  BY <1>0, <1>2, <1>3, <1>9 DEF Writers, FfType
<1>15. Orders'
  BY <1>0, <1>2, <1>3, <1>9 DEF Orders, FfType
<1>16. View'
  BY <1>0, <1>2, <1>3, <1>9 DEF View, FfType
<1>17. Files'
  BY <1>0, <1>2, <1>3, <1>9 DEF Places, Starts, OutputFlags, FfFlags, Writers, Orders,
     View, Files, FfType
<1>18. Leftover'
  BY <1>0, <1>2, <1>3, <1>9 DEF Leftover, FfType
<1>19. QED
  BY <1>1, <1>10, <1>11, <1>12, <1>13, <1>14, <1>15, <1>16, <1>17, <1>18 DEF Settled,
     Flags

\* The file is opened.
LEMMA OpenFileSettles ==
  ASSUME TypeOK, Settled, Patient, NEW s \in StartThreads, OpenFile(s)
  PROVE  Settled'
<1>0. /\ Frames /\ Single /\ Places /\ Starts /\ OutputFlags /\ FfFlags
      /\ Writers /\ Orders /\ View /\ Files /\ Leftover
      /\ output \in OutputType /\ ff \in FfType /\ app \in AppType
      /\ server \in ServerType
  BY DEF TypeOK, Settled, Flags
<1>1. Go("open_file", "set_active") /\ Frames' /\ Single' /\ Kept
  <2>1. FramesAt(s, "open_file") \subseteq FramesAt(s, "set_active")
    BY RecordAssumption DEF FramesAt
  <2>2. QED
    BY <1>0, <2>1, GoesTo, RecordAssumption
       DEF OpenFile, Callers, SameHandles, Silent, Outside, FfType, OutputType
<1>2. /\ ff' = [ff EXCEPT !.data = app.filePath] /\ disk' = disk \ {app.filePath}
      /\ server' = [server EXCEPT !.reported = @ \ {app.filePath}]
      /\ UNCHANGED <<output, app>>
  BY DEF OpenFile, Silent, Outside
<1>3. Stopper' = Stopper
  BY <1>0, <1>1 DEF Places, Starts, Orders, Stopper
<1>9. /\ Starter = "open_file" /\ Starter' = "set_active"
      /\ UNCHANGED <<Writer, Ender, Slot, Leaver>> /\ Kept
  BY <1>0, <1>1 DEF Places
<1>10. Places'
  BY <1>0, <1>2, <1>3, <1>9 DEF Places, FfType, ServerType
<1>11. Starts'
  BY <1>0, <1>2, <1>3, <1>9 DEF Starts, FfType, ServerType
<1>12. OutputFlags'
  BY <1>0, <1>2, <1>3, <1>9 DEF OutputFlags, FfType, ServerType
<1>13. FfFlags'
  BY <1>0, <1>2, <1>3, <1>9 DEF Places, Starts, FfFlags, FfType, ServerType
<1>14. Writers'
  BY <1>0, <1>2, <1>3, <1>9 DEF Writers, FfType, ServerType
<1>15. Orders'
  BY <1>0, <1>2, <1>3, <1>9 DEF Orders, FfType, ServerType
<1>16. View'
  BY <1>0, <1>2, <1>3, <1>9 DEF View, FfType, ServerType
<1>17. Files'
  BY <1>0, <1>2, <1>3, <1>9 DEF Places, Starts, OutputFlags, FfFlags, Writers, Orders,
     View, Files, FfType, ServerType
<1>18. Leftover'
  BY <1>0, <1>2, <1>3, <1>9 DEF Leftover, FfType, ServerType
<1>19. QED
  BY <1>1, <1>10, <1>11, <1>12, <1>13, <1>14, <1>15, <1>16, <1>17, <1>18 DEF Settled,
     Flags

\* The file cannot be opened.
LEMMA OpenFailsSettles ==
  ASSUME TypeOK, Settled, Patient, NEW s \in StartThreads, OpenFileFails(s)
  PROVE  Settled'
<1>0. /\ Frames /\ Single /\ Places /\ Starts /\ OutputFlags /\ FfFlags
      /\ Writers /\ Orders /\ View /\ Files /\ Leftover
      /\ output \in OutputType /\ ff \in FfType /\ app \in AppType
      /\ server \in ServerType
  BY DEF TypeOK, Settled, Flags
<1>1. Go("open_file", "connect_failed") /\ Frames' /\ Single' /\ Kept
  <2>1. FramesAt(s, "open_file") \subseteq FramesAt(s, "connect_failed")
    BY RecordAssumption DEF FramesAt
  <2>2. QED
    BY <1>0, <2>1, GoesTo, RecordAssumption
       DEF OpenFileFails, Callers, SameHandles, Silent, Outside, FfType, OutputType
<1>2. UNCHANGED <<output, ff, disk, app, server>>
  BY DEF OpenFileFails, Silent, Outside
<1>3. Stopper' = Stopper
  BY <1>0, <1>1 DEF Places, Starts, Orders, Stopper
<1>9. /\ Starter = "open_file" /\ Starter' = "connect_failed"
      /\ UNCHANGED <<Writer, Ender, Slot, Leaver>> /\ Kept
  BY <1>0, <1>1 DEF Places
<1>10. Places'
  BY <1>0, <1>2, <1>3, <1>9 DEF Places
<1>11. Starts'
  BY <1>0, <1>2, <1>3, <1>9 DEF Starts
<1>12. OutputFlags'
  BY <1>0, <1>2, <1>3, <1>9 DEF OutputFlags
<1>13. FfFlags'
  BY <1>0, <1>2, <1>3, <1>9 DEF FfFlags
<1>14. Writers'
  BY <1>0, <1>2, <1>3, <1>9 DEF Writers
<1>15. Orders'
  BY <1>0, <1>2, <1>3, <1>9 DEF Orders
<1>16. View'
  BY <1>0, <1>2, <1>3, <1>9 DEF View
<1>17. Files'
  BY <1>0, <1>2, <1>3, <1>9 DEF Files
<1>18. Leftover'
  BY <1>0, <1>2, <1>3, <1>9 DEF Leftover
<1>19. QED
  BY <1>1, <1>10, <1>11, <1>12, <1>13, <1>14, <1>15, <1>16, <1>17, <1>18 DEF Settled,
     Flags

\* The output type becomes active.
LEMMA SetActiveSettles ==
  ASSUME TypeOK, Settled, Patient, NEW s \in StartThreads, SetActive(s)
  PROVE  Settled'
<1>0. /\ Frames /\ Single /\ Places /\ Starts /\ OutputFlags /\ FfFlags
      /\ Writers /\ Orders /\ View /\ Files /\ Leftover
      /\ output \in OutputType /\ ff \in FfType /\ app \in AppType
      /\ server \in ServerType
  BY DEF TypeOK, Settled, Flags
<1>1. Go("set_active", "can_begin") /\ Frames' /\ Single' /\ Kept
  <2>1. FramesAt(s, "set_active") \subseteq FramesAt(s, "can_begin")
    BY RecordAssumption DEF FramesAt
  <2>2. QED
    BY <1>0, <2>1, GoesTo, RecordAssumption
       DEF SetActive, Callers, SameHandles, Silent, Outside, FfType, OutputType
<1>2. ff' = [ff EXCEPT !.active = TRUE] /\ UNCHANGED <<output, disk, app, server>>
  BY DEF SetActive, Silent, Outside
<1>3. Stopper' = Stopper
  BY <1>0, <1>1 DEF Places, Starts, Orders, Stopper
<1>9. /\ Starter = "set_active" /\ Starter' = "can_begin"
      /\ UNCHANGED <<Writer, Ender, Slot, Leaver>> /\ Kept
  BY <1>0, <1>1 DEF Places
<1>10. Places'
  BY <1>0, <1>2, <1>3, <1>9 DEF Places, FfType
<1>11. Starts'
  BY <1>0, <1>2, <1>3, <1>9 DEF Starts, FfType
<1>12. OutputFlags'
  BY <1>0, <1>2, <1>3, <1>9 DEF OutputFlags, FfType
<1>13. FfFlags'
  BY <1>0, <1>2, <1>3, <1>9 DEF FfFlags, FfType
<1>14. Writers'
  BY <1>0, <1>2, <1>3, <1>9 DEF Writers, FfType
<1>15. Orders'
  BY <1>0, <1>2, <1>3, <1>9 DEF Orders, FfType
<1>16. View'
  BY <1>0, <1>2, <1>3, <1>9 DEF View, FfType
<1>17. Files'
  BY <1>0, <1>2, <1>3, <1>9 DEF Files, FfType
<1>18. Leftover'
  BY <1>0, <1>2, <1>3, <1>9 DEF Leftover, FfType
<1>19. QED
  BY <1>1, <1>10, <1>11, <1>12, <1>13, <1>14, <1>15, <1>16, <1>17, <1>18 DEF Settled,
     Flags

\* The write thread's flag is raised.
LEMMA WriterActiveSettles ==
  ASSUME TypeOK, Settled, Patient, NEW s \in StartThreads, WriterActive(s)
  PROVE  Settled'
<1>0. /\ Frames /\ Single /\ Places /\ Starts /\ OutputFlags /\ FfFlags
      /\ Writers /\ Orders /\ View /\ Files /\ Leftover
      /\ output \in OutputType /\ ff \in FfType /\ app \in AppType
      /\ server \in ServerType
  BY DEF TypeOK, Settled, Flags
<1>1. Go("writer_active", "start_return") /\ Frames' /\ Single' /\ Kept
  <2>1. FramesAt(s, "writer_active") \subseteq FramesAt(s, "start_return")
    BY RecordAssumption DEF FramesAt
  <2>2. QED
    BY <1>0, <2>1, GoesTo, RecordAssumption
       DEF WriterActive, Callers, SameHandles, Silent, Outside, FfType, OutputType
<1>2. /\ ff' = [ff EXCEPT !.writeThreadActive = TRUE]
      /\ UNCHANGED <<output, disk, app, server>>
  BY DEF WriterActive, Silent, Outside
<1>3. Stopper' = Stopper
  BY <1>0, <1>1 DEF Places, Starts, Orders, Stopper
<1>9. /\ Starter = "writer_active" /\ Starter' = "start_return"
      /\ UNCHANGED <<Writer, Ender, Slot, Leaver>> /\ Kept
  BY <1>0, <1>1 DEF Places
<1>10. Places'
  BY <1>0, <1>2, <1>3, <1>9 DEF Places, FfType
<1>11. Starts'
  BY <1>0, <1>2, <1>3, <1>9 DEF Starts, FfType
<1>12. OutputFlags'
  BY <1>0, <1>2, <1>3, <1>9 DEF Places, Starts, OutputFlags, FfFlags, Writers, FfType
<1>13. FfFlags'
  BY <1>0, <1>2, <1>3, <1>9 DEF OutputFlags, FfFlags, FfType
<1>14. Writers'
  BY <1>0, <1>2, <1>3, <1>9 DEF Writers, FfType
<1>15. Orders'
  BY <1>0, <1>2, <1>3, <1>9 DEF Orders, FfType
<1>16. View'
  BY <1>0, <1>2, <1>3, <1>9 DEF View, FfType
<1>17. Files'
  BY <1>0, <1>2, <1>3, <1>9 DEF Files, FfType
<1>18. Leftover'
  BY <1>0, <1>2, <1>3, <1>9 DEF Leftover, FfType
<1>19. QED
  BY <1>1, <1>10, <1>11, <1>12, <1>13, <1>14, <1>15, <1>16, <1>17, <1>18 DEF Settled,
     Flags

\* The start thread returns.
LEMMA StartReturnSettles ==
  ASSUME TypeOK, Settled, Patient, NEW s \in StartThreads, StartReturn(s)
  PROVE  Settled'
<1>0. /\ Frames /\ Single /\ Places /\ Starts /\ OutputFlags /\ FfFlags
      /\ Writers /\ Orders /\ View /\ Files /\ Leftover
      /\ output \in OutputType /\ ff \in FfType /\ app \in AppType
      /\ server \in ServerType
  BY DEF TypeOK, Settled, Flags
<1>1. Go("start_return", "dead") /\ Frames' /\ Single' /\ Kept
  <2>1. FramesAt(s, "start_return") \subseteq FramesAt(s, "dead")
    BY RecordAssumption DEF FramesAt
  <2>2. QED
    BY <1>0, <2>1, GoesTo, RecordAssumption
       DEF StartReturn, Callers, SameHandles, Silent, Outside, FfType, OutputType
<1>2. /\ Slot # "set_connecting" /\ ff' = [ff EXCEPT !.connecting = FALSE]
      /\ UNCHANGED <<output, disk, app, server>>
  BY DEF StartReturn, Silent, Outside, Patient, Slot
<1>3. Stopper' = Stopper
  BY <1>0, <1>1 DEF Places, Starts, Orders, Stopper
<1>9. /\ Starter = "start_return" /\ Starter' = "dead"
      /\ UNCHANGED <<Writer, Ender, Slot, Leaver>> /\ Kept
  BY <1>0, <1>1 DEF Places
<1>10. Places'
  BY <1>0, <1>2, <1>3, <1>9 DEF Places, FfType
<1>11. Starts'
  BY <1>0, <1>2, <1>3, <1>9 DEF Starts, FfType
<1>12. OutputFlags'
  BY <1>0, <1>2, <1>3, <1>9 DEF OutputFlags, FfType
<1>13. FfFlags'
  BY <1>0, <1>2, <1>3, <1>9 DEF FfFlags, FfType
<1>14. Writers'
  BY <1>0, <1>2, <1>3, <1>9 DEF Writers, FfType
<1>15. Orders'
  BY <1>0, <1>2, <1>3, <1>9 DEF Orders, FfType
<1>16. View'
  BY <1>0, <1>2, <1>3, <1>9 DEF View, FfType
<1>17. Files'
  BY <1>0, <1>2, <1>3, <1>9 DEF Files, FfType
<1>18. Leftover'
  BY <1>0, <1>2, <1>3, <1>9 DEF Leftover, FfType
<1>19. QED
  BY <1>1, <1>10, <1>11, <1>12, <1>13, <1>14, <1>15, <1>16, <1>17, <1>18 DEF Settled,
     Flags

\* A frame is written.
LEMMA WriteFrameSettles ==
  ASSUME TypeOK, Settled, Patient, NEW w \in WriteThreads, WriteFrame(w)
  PROVE  Settled'
<1>0. /\ Frames /\ Single /\ Places /\ Starts /\ OutputFlags /\ FfFlags
      /\ Writers /\ Orders /\ View /\ Files /\ Leftover
      /\ output \in OutputType /\ ff \in FfType /\ app \in AppType
      /\ server \in ServerType
  BY DEF TypeOK, Settled, Flags
<1>1. Go("write_frame", "write_wait") /\ Frames' /\ Single' /\ Kept
  <2>1. FramesAt(w, "write_frame") \subseteq FramesAt(w, "write_wait")
    BY RecordAssumption DEF FramesAt
  <2>2. QED
    BY <1>0, <2>1, GoesTo, RecordAssumption
       DEF WriteFrame, Callers, SameHandles, Silent, Outside, FfType, OutputType
<1>2. (\E c \in BOOLEAN : app' = [app EXCEPT !.crashed = c]) /\ UNCHANGED <<output, ff, disk, server>>
  BY DEF WriteFrame, Silent, Outside
<1>3. Stopper' = Stopper
  BY <1>0, <1>1 DEF Places, Starts, Orders, Stopper
<1>9. /\ Writer = "write_frame" /\ Writer' = "write_wait"
      /\ UNCHANGED <<Starter, Ender, Slot, Leaver>> /\ Kept
  BY <1>0, <1>1 DEF Places
<1>10. Places'
  BY <1>0, <1>2, <1>3, <1>9 DEF Places, AppType
<1>11. Starts'
  BY <1>0, <1>2, <1>3, <1>9 DEF Starts, AppType
<1>12. OutputFlags'
  BY <1>0, <1>2, <1>3, <1>9 DEF OutputFlags, AppType
<1>13. FfFlags'
  BY <1>0, <1>2, <1>3, <1>9 DEF FfFlags, AppType
<1>14. Writers'
  BY <1>0, <1>2, <1>3, <1>9 DEF Writers, AppType
<1>15. Orders'
  BY <1>0, <1>2, <1>3, <1>9 DEF Orders, AppType
<1>16. View'
  BY <1>0, <1>2, <1>3, <1>9 DEF View, AppType
<1>17. Files'
  BY <1>0, <1>2, <1>3, <1>9 DEF Files, AppType
<1>18. Leftover'
  BY <1>0, <1>2, <1>3, <1>9 DEF Leftover, AppType
<1>19. QED
  BY <1>1, <1>10, <1>11, <1>12, <1>13, <1>14, <1>15, <1>16, <1>17, <1>18 DEF Settled,
     Flags

\* The write thread returns.
LEMMA WriteReturnSettles ==
  ASSUME TypeOK, Settled, Patient, NEW w \in WriteThreads, WriteReturn(w)
  PROVE  Settled'
<1>0. /\ Frames /\ Single /\ Places /\ Starts /\ OutputFlags /\ FfFlags
      /\ Writers /\ Orders /\ View /\ Files /\ Leftover
      /\ output \in OutputType /\ ff \in FfType /\ app \in AppType
      /\ server \in ServerType
  BY DEF TypeOK, Settled, Flags
<1>1. Go("write_return", "dead") /\ Frames' /\ Single' /\ Kept
  <2>1. FramesAt(w, "write_return") \subseteq FramesAt(w, "dead")
    BY RecordAssumption DEF FramesAt
  <2>2. QED
    BY <1>0, <2>1, GoesTo, RecordAssumption
       DEF WriteReturn, Callers, SameHandles, Silent, Outside, FfType, OutputType
<1>2. ff' = [ff EXCEPT !.active = FALSE] /\ UNCHANGED <<output, disk, app, server>>
  BY DEF WriteReturn, Silent, Outside
<1>3. Stopper' = Stopper
  BY <1>0, <1>1 DEF Places, Starts, Orders, Stopper
<1>9. /\ Writer = "write_return" /\ Writer' = "dead"
      /\ UNCHANGED <<Starter, Ender, Slot, Leaver>> /\ Kept
  BY <1>0, <1>1 DEF Places
<1>10. Places'
  BY <1>0, <1>2, <1>3, <1>9 DEF Places, FfType
<1>11. Starts'
  BY <1>0, <1>2, <1>3, <1>9 DEF Starts, FfType
<1>12. OutputFlags'
  BY <1>0, <1>2, <1>3, <1>9 DEF OutputFlags, FfType
<1>13. FfFlags'
  BY <1>0, <1>2, <1>3, <1>9 DEF Places, Starts, FfFlags, FfType
<1>14. Writers'
  BY <1>0, <1>2, <1>3, <1>9 DEF Writers, FfType
<1>15. Orders'
  BY <1>0, <1>2, <1>3, <1>9 DEF OutputFlags, Orders, FfType
<1>16. View'
  BY <1>0, <1>2, <1>3, <1>9 DEF View, FfType
<1>17. Files'
  BY <1>0, <1>2, <1>3, <1>9 DEF Files, FfType
<1>18. Leftover'
  BY <1>0, <1>2, <1>3, <1>9 DEF Leftover, FfType
<1>19. QED
  BY <1>1, <1>10, <1>11, <1>12, <1>13, <1>14, <1>15, <1>16, <1>17, <1>18 DEF Settled,
     Flags

\* The callbacks are disconnected.
LEMMA EndDisconnectSettles ==
  ASSUME TypeOK, Settled, Patient, NEW e \in EndThreads, EndDisconnect(e), Silent
  PROVE  Settled'
<1>0. /\ Frames /\ Single /\ Places /\ Starts /\ OutputFlags /\ FfFlags
      /\ Writers /\ Orders /\ View /\ Files /\ Leftover
      /\ output \in OutputType /\ ff \in FfType /\ app \in AppType
      /\ server \in ServerType
  BY DEF TypeOK, Settled, Flags
<1>1. Go("end_disconnect", "end_deactivate") /\ Frames' /\ Single' /\ Kept
  <2>1. FramesAt(e, "end_disconnect") \subseteq FramesAt(e, "end_deactivate")
    BY RecordAssumption DEF FramesAt
  <2>2. QED
    BY <1>0, <2>1, GoesTo, RecordAssumption
       DEF EndDisconnect, Callers, SameHandles, Silent, Outside, FfType, OutputType
<1>2. output' = [output EXCEPT !.hooked = FALSE] /\ UNCHANGED <<ff, disk, app, server>>
  BY DEF EndDisconnect, Silent, Outside
<1>3. Stopper' = Stopper
  BY <1>0, <1>1 DEF Places, Starts, Orders, Stopper
<1>9. /\ Ender = "end_disconnect" /\ Ender' = "end_deactivate"
      /\ UNCHANGED <<Starter, Writer, Slot, Leaver>> /\ Kept
  BY <1>0, <1>1 DEF Places
<1>10. Places'
  BY <1>0, <1>2, <1>3, <1>9 DEF Places, OutputType
<1>11. Starts'
  BY <1>0, <1>2, <1>3, <1>9 DEF Starts, OutputType
<1>12. OutputFlags'
  BY <1>0, <1>2, <1>3, <1>9 DEF OutputFlags, OutputType
<1>13. FfFlags'
  BY <1>0, <1>2, <1>3, <1>9 DEF FfFlags, OutputType
<1>14. Writers'
  BY <1>0, <1>2, <1>3, <1>9 DEF Writers, OutputType
<1>15. Orders'
  BY <1>0, <1>2, <1>3, <1>9 DEF Orders, OutputType
<1>16. View'
  BY <1>0, <1>2, <1>3, <1>9 DEF View, OutputType
<1>17. Files'
  BY <1>0, <1>2, <1>3, <1>9 DEF Files, OutputType
<1>18. Leftover'
  BY <1>0, <1>2, <1>3, <1>9 DEF Leftover, OutputType
<1>19. QED
  BY <1>1, <1>10, <1>11, <1>12, <1>13, <1>14, <1>15, <1>16, <1>17, <1>18 DEF Settled,
     Flags

\* The output is inactive.
LEMMA EndDeactivateSettles ==
  ASSUME TypeOK, Settled, Patient, NEW e \in EndThreads, EndDeactivate(e), Silent
  PROVE  Settled'
<1>0. /\ Frames /\ Single /\ Places /\ Starts /\ OutputFlags /\ FfFlags
      /\ Writers /\ Orders /\ View /\ Files /\ Leftover
      /\ output \in OutputType /\ ff \in FfType /\ app \in AppType
      /\ server \in ServerType
  BY DEF TypeOK, Settled, Flags
<1>1. Go("end_deactivate", "end_event") /\ Frames' /\ Single' /\ Kept
  <2>1. FramesAt(e, "end_deactivate") \subseteq FramesAt(e, "end_event")
    BY RecordAssumption DEF FramesAt
  <2>2. QED
    BY <1>0, <2>1, GoesTo, RecordAssumption
       DEF EndDeactivate, Callers, SameHandles, Silent, Outside, FfType, OutputType
<1>2. output' = [output EXCEPT !.active = FALSE] /\ UNCHANGED <<ff, disk, app, server>>
  BY DEF EndDeactivate, Silent, Outside
<1>3. Stopper' = Stopper
  BY <1>0, <1>1 DEF Places, Starts, Orders, Stopper
<1>9. /\ Ender = "end_deactivate" /\ Ender' = "end_event"
      /\ UNCHANGED <<Starter, Writer, Slot, Leaver>> /\ Kept
  BY <1>0, <1>1 DEF Places
<1>10. Places'
  BY <1>0, <1>2, <1>3, <1>9 DEF Places, OutputType
<1>11. Starts'
  BY <1>0, <1>2, <1>3, <1>9 DEF Starts, OutputType
<1>12. OutputFlags'
  BY <1>0, <1>2, <1>3, <1>9 DEF OutputFlags, OutputType
<1>13. FfFlags'
  BY <1>0, <1>2, <1>3, <1>9 DEF FfFlags, OutputType
<1>14. Writers'
  BY <1>0, <1>2, <1>3, <1>9 DEF Writers, OutputType
<1>15. Orders'
  BY <1>0, <1>2, <1>3, <1>9 DEF Orders, OutputType
<1>16. View'
  BY <1>0, <1>2, <1>3, <1>9 DEF View, OutputType
<1>17. Files'
  BY <1>0, <1>2, <1>3, <1>9 DEF Files, OutputType
<1>18. Leftover'
  BY <1>0, <1>2, <1>3, <1>9 DEF Leftover, OutputType
<1>19. QED
  BY <1>1, <1>10, <1>11, <1>12, <1>13, <1>14, <1>15, <1>16, <1>17, <1>18 DEF Settled,
     Flags

\* The event is signalled.
LEMMA EndEventSettles ==
  ASSUME TypeOK, Settled, Patient, NEW e \in EndThreads, EndEvent(e), Silent
  PROVE  Settled'
<1>0. /\ Frames /\ Single /\ Places /\ Starts /\ OutputFlags /\ FfFlags
      /\ Writers /\ Orders /\ View /\ Files /\ Leftover
      /\ output \in OutputType /\ ff \in FfType /\ app \in AppType
      /\ server \in ServerType
  BY DEF TypeOK, Settled, Flags
<1>1. Go("end_event", "end_return") /\ Frames' /\ Single' /\ Kept
  <2>1. FramesAt(e, "end_event") \subseteq FramesAt(e, "end_return")
    BY RecordAssumption DEF FramesAt
  <2>2. QED
    BY <1>0, <2>1, GoesTo, RecordAssumption
       DEF EndEvent, Callers, SameHandles, Silent, Outside, FfType, OutputType
<1>2. /\ output' = [output EXCEPT !.stoppingEvent = TRUE]
      /\ UNCHANGED <<ff, disk, app, server>>
  BY DEF EndEvent, Silent, Outside
<1>3. Stopper' = Stopper
  BY <1>0, <1>1 DEF Places, Starts, Orders, Stopper
<1>9. /\ Ender = "end_event" /\ Ender' = "end_return"
      /\ UNCHANGED <<Starter, Writer, Slot, Leaver>> /\ Kept
  BY <1>0, <1>1 DEF Places
<1>5. /\ /\ Ender = "end_event" /\ ~output.dataActive
      /\ Stopper \notin Clearing \cup Creating
      /\ Slot \notin Asking /\ Leaver \notin ForcedLabels
  BY <1>0, <1>1 DEF Places, OutputFlags, Orders
<1>10. Places'
  BY <1>0, <1>2, <1>3, <1>9, <1>5 DEF Places, OutputType
<1>11. Starts'
  BY <1>0, <1>2, <1>3, <1>9, <1>5 DEF Starts, OutputType
<1>12. OutputFlags'
  BY <1>0, <1>2, <1>3, <1>9, <1>5 DEF OutputFlags, OutputType
<1>13. FfFlags'
  BY <1>0, <1>2, <1>3, <1>9, <1>5 DEF FfFlags, OutputType
<1>14. Writers'
  BY <1>0, <1>2, <1>3, <1>9, <1>5 DEF Writers, OutputType
<1>15. Orders'
  BY <1>0, <1>2, <1>3, <1>9, <1>5 DEF Orders, OutputType
<1>16. View'
  BY <1>0, <1>2, <1>3, <1>9, <1>5 DEF View, OutputType
<1>17. Files'
  BY <1>0, <1>2, <1>3, <1>9, <1>5 DEF Files, OutputType
<1>18. Leftover'
  BY <1>0, <1>2, <1>3, <1>9, <1>5 DEF Leftover, OutputType
<1>19. QED
  BY <1>1, <1>10, <1>11, <1>12, <1>13, <1>14, <1>15, <1>16, <1>17, <1>18 DEF Settled,
     Flags

\* The end thread returns.
LEMMA EndReturnSettles ==
  ASSUME TypeOK, Settled, Patient, NEW e \in EndThreads, EndReturn(e), Silent
  PROVE  Settled'
<1>0. /\ Frames /\ Single /\ Places /\ Starts /\ OutputFlags /\ FfFlags
      /\ Writers /\ Orders /\ View /\ Files /\ Leftover
      /\ output \in OutputType /\ ff \in FfType /\ app \in AppType
      /\ server \in ServerType
  BY DEF TypeOK, Settled, Flags
<1>1. Go("end_return", "dead") /\ Frames' /\ Single' /\ Kept
  <2>1. FramesAt(e, "end_return") \subseteq FramesAt(e, "dead")
    BY RecordAssumption DEF FramesAt
  <2>2. QED
    BY <1>0, <2>1, GoesTo, RecordAssumption
       DEF EndReturn, Callers, SameHandles, Silent, Outside, FfType, OutputType
<1>2. /\ output' = [output EXCEPT !.endThreadActive = FALSE]
      /\ UNCHANGED <<ff, disk, app, server>>
  BY DEF EndReturn, Silent, Outside
<1>3. Stopper' = Stopper
  BY <1>0, <1>1 DEF Places, Starts, Orders, Stopper
<1>9. /\ Ender = "end_return" /\ Ender' = "dead"
      /\ UNCHANGED <<Starter, Writer, Slot, Leaver>> /\ Kept
  BY <1>0, <1>1 DEF Places
<1>10. Places'
  BY <1>0, <1>2, <1>3, <1>9 DEF Places, OutputType
<1>11. Starts'
  BY <1>0, <1>2, <1>3, <1>9 DEF Starts, OutputType
<1>12. OutputFlags'
  BY <1>0, <1>2, <1>3, <1>9 DEF OutputFlags, OutputType
<1>13. FfFlags'
  BY <1>0, <1>2, <1>3, <1>9 DEF FfFlags, OutputType
<1>14. Writers'
  BY <1>0, <1>2, <1>3, <1>9 DEF Writers, OutputType
<1>15. Orders'
  BY <1>0, <1>2, <1>3, <1>9 DEF Orders, OutputType
<1>16. View'
  BY <1>0, <1>2, <1>3, <1>9 DEF View, OutputType
<1>17. Files'
  BY <1>0, <1>2, <1>3, <1>9 DEF Files, OutputType
<1>18. Leftover'
  BY <1>0, <1>2, <1>3, <1>9 DEF Leftover, OutputType
<1>19. QED
  BY <1>1, <1>10, <1>11, <1>12, <1>13, <1>14, <1>15, <1>16, <1>17, <1>18 DEF Settled,
     Flags

\* A stop is asked for: the output is active and not yet stopping.
LEMMA ObsStopSettles ==
  ASSUME TypeOK, Settled, Patient, NEW t \in Callers, ObsOutputStop(t), Silent
  PROVE  Settled'
<1>0. /\ Frames /\ Single /\ Places /\ Starts /\ OutputFlags /\ FfFlags
      /\ Writers /\ Orders /\ View /\ Files /\ Leftover
      /\ output \in OutputType /\ ff \in FfType /\ app \in AppType
      /\ server \in ServerType
  BY DEF TypeOK, Settled, Flags
<1>4. output.active /\ output.stoppingEvent
  BY <1>0, Stands DEF ObsOutputStop, Callers, Places, OutputFlags, Orders, Stopper,
     OutputType
<1>1. Go("obs_stop", "actual_stop") /\ Frames' /\ Single' /\ Kept
  <2>1. FramesAt(t, "obs_stop") \subseteq FramesAt(t, "actual_stop")
    BY <1>4, RecordAssumption DEF FramesAt
  <2>2. QED
    BY <1>0, <1>4, <2>1, GoesTo, RecordAssumption
       DEF ObsOutputStop, Callers, SameHandles, Silent, Outside, FfType, OutputType
<1>2. UNCHANGED <<output, ff, disk, app, server>>
  BY <1>4 DEF ObsOutputStop, Silent, Outside
<1>3. Stopper' = Stopper
  BY <1>0, <1>1 DEF Places, Starts, Orders, Stopper
<1>10. Places'
  BY <1>0, <1>1, <1>2, <1>3 DEF Places
<1>11. Starts'
  BY <1>0, <1>1, <1>2, <1>3 DEF Starts
<1>12. OutputFlags'
  BY <1>0, <1>1, <1>2, <1>3 DEF OutputFlags
<1>13. FfFlags'
  BY <1>0, <1>1, <1>2, <1>3 DEF FfFlags
<1>14. Writers'
  BY <1>0, <1>1, <1>2, <1>3 DEF Writers
<1>15. Orders'
  BY <1>0, <1>1, <1>2, <1>3 DEF Orders
<1>16. View'
  BY <1>0, <1>1, <1>2, <1>3 DEF View
<1>17. Files'
  BY <1>0, <1>1, <1>2, <1>3 DEF Files
<1>18. Leftover'
  BY <1>0, <1>1, <1>2, <1>3 DEF Leftover
<1>19. QED
  BY <1>1, <1>10, <1>11, <1>12, <1>13, <1>14, <1>15, <1>16, <1>17, <1>18 DEF Settled,
     Flags

\* The end thread is joined.
LEMMA DestroyJoinSettles ==
  ASSUME TypeOK, Settled, Patient, NEW t \in Callers, DestroyJoin(t), Silent
  PROVE  Settled'
<1>0. /\ Frames /\ Single /\ Places /\ Starts /\ OutputFlags /\ FfFlags
      /\ Writers /\ Orders /\ View /\ Files /\ Leftover
      /\ output \in OutputType /\ ff \in FfType /\ app \in AppType
      /\ server \in ServerType
  BY DEF TypeOK, Settled, Flags
<1>1. Go("destroy_join", "plugin_destroy") /\ Frames' /\ Single' /\ Kept
  <2>1. FramesAt(t, "destroy_join") \subseteq FramesAt(t, "plugin_destroy")
    BY RecordAssumption DEF FramesAt
  <2>2. QED
    BY <1>0, <2>1, GoesTo, RecordAssumption
       DEF DestroyJoin, Callers, SameHandles, Silent, Outside, FfType, OutputType
<1>2. UNCHANGED <<output, ff, disk, app, server>>
  BY DEF DestroyJoin, Silent, Outside
<1>3. Stopper' = Stopper
  BY <1>0, <1>1 DEF Places, Starts, Orders, Stopper
<1>5. Ender = Dead
  <2>1. EndThreadJoined /\ output.endThreadActive = (Ender # Dead)
    BY <1>0, <1>1 DEF DestroyJoin, OutputFlags, Places, Orders
  <2>2. ASSUME NEW e \in EndThreads, pc[e] # Dead PROVE FALSE
    <3>1. output.endThread = e /\ Ender = pc[e] /\ e # NoThread
      BY <1>0, <2>2, AtAlone, ThreadsAssumption DEF Single, Live, Ender
    <3>2. QED
      BY <2>1, <2>2, <3>1 DEF EndThreadJoined
  <2>3. QED
    BY <2>2 DEF Ender, At, Live
<1>10. Places'
  BY <1>0, <1>1, <1>2, <1>3, <1>5 DEF Places
<1>11. Starts'
  BY <1>0, <1>1, <1>2, <1>3, <1>5 DEF Starts
<1>12. OutputFlags'
  BY <1>0, <1>1, <1>2, <1>3, <1>5 DEF OutputFlags
<1>13. FfFlags'
  BY <1>0, <1>1, <1>2, <1>3, <1>5 DEF FfFlags
<1>14. Writers'
  BY <1>0, <1>1, <1>2, <1>3, <1>5 DEF Writers
<1>15. Orders'
  BY <1>0, <1>1, <1>2, <1>3, <1>5 DEF Orders
<1>16. View'
  BY <1>0, <1>1, <1>2, <1>3, <1>5 DEF View
<1>17. Files'
  BY <1>0, <1>1, <1>2, <1>3, <1>5 DEF Files
<1>18. Leftover'
  BY <1>0, <1>1, <1>2, <1>3, <1>5 DEF Leftover
<1>19. QED
  BY <1>1, <1>10, <1>11, <1>12, <1>13, <1>14, <1>15, <1>16, <1>17, <1>18 DEF Settled,
     Flags

\* The flag is raised.
LEMMA FfmpegStopSettles ==
  ASSUME TypeOK, Settled, Patient, NEW t \in Callers, FfmpegStop(t)
  PROVE  Settled'
<1>0. /\ Frames /\ Single /\ Places /\ Starts /\ OutputFlags /\ FfFlags
      /\ Writers /\ Orders /\ View /\ Files /\ Leftover
      /\ output \in OutputType /\ ff \in FfType /\ app \in AppType
      /\ server \in ServerType
  BY DEF TypeOK, Settled, Flags
<1>4. ff.active
  BY <1>0, Stands DEF FfmpegStop, Callers, Places, FfFlags, Orders, FfType
<1>1. Go("plugin_stop", "set_stop_ts") /\ Frames' /\ Single' /\ Kept
  <2>1. FramesAt(t, "plugin_stop") \subseteq FramesAt(t, "set_stop_ts")
    BY <1>4, RecordAssumption DEF FramesAt
  <2>2. QED
    BY <1>0, <1>4, <2>1, GoesTo, RecordAssumption
       DEF FfmpegStop, Callers, SameHandles, Silent, Outside, FfType, OutputType
<1>2. ff' = [ff EXCEPT !.stopping = TRUE] /\ UNCHANGED <<output, disk, app, server>>
  BY <1>4 DEF FfmpegStop, Silent, Outside
<1>3. Stopper' = Stopper
  BY <1>0, <1>1 DEF Places, Starts, Orders, Stopper
<1>10. Places'
  BY <1>0, <1>1, <1>2, <1>3 DEF Places, FfType
<1>11. Starts'
  BY <1>0, <1>1, <1>2, <1>3 DEF Places, Starts, FfType
<1>12. OutputFlags'
  BY <1>0, <1>1, <1>2, <1>3 DEF Places, OutputFlags, Orders, FfType
<1>13. FfFlags'
  BY <1>0, <1>1, <1>2, <1>3 DEF FfFlags, FfType
<1>14. Writers'
  BY <1>0, <1>1, <1>2, <1>3 DEF Writers, FfType
<1>15. Orders'
  BY <1>0, <1>1, <1>2, <1>3 DEF Places, Orders, FfType
<1>16. View'
  BY <1>0, <1>1, <1>2, <1>3 DEF Places, View, FfType
<1>17. Files'
  BY <1>0, <1>1, <1>2, <1>3 DEF Files, FfType
<1>18. Leftover'
  BY <1>0, <1>1, <1>2, <1>3 DEF Leftover, FfType
<1>19. QED
  BY <1>1, <1>10, <1>11, <1>12, <1>13, <1>14, <1>15, <1>16, <1>17, <1>18 DEF Settled,
     Flags

\* The write thread is asked to stop.
LEMMA DeactivateSettles ==
  ASSUME TypeOK, Settled, Patient, NEW t \in Callers, Deactivate(t)
  PROVE  Settled'
<1>0. /\ Frames /\ Single /\ Places /\ Starts /\ OutputFlags /\ FfFlags
      /\ Writers /\ Orders /\ View /\ Files /\ Leftover
      /\ output \in OutputType /\ ff \in FfType /\ app \in AppType
      /\ server \in ServerType
  BY DEF TypeOK, Settled, Flags
<1>4. ff.writeThreadActive
  <2>1. Stopper = "deactivate"
    BY <1>0, Stands DEF Deactivate, Callers, Places, Starts, Orders, Stopper
  <2>2. QED
    BY <1>0, <2>1 DEF FfFlags, FfType
<1>1. Go("deactivate", "join_writer") /\ Frames' /\ Single' /\ Kept
  <2>1. FramesAt(t, "deactivate") \subseteq FramesAt(t, "join_writer")
    BY <1>4, RecordAssumption DEF FramesAt
  <2>2. SameHandles
    BY <1>0, <1>4 DEF Deactivate, SameHandles, Silent, Outside, FfType, OutputType
  <2>3. Goto(t, "join_writer") /\ pc[t] = "deactivate" /\ t \in Threads
    BY <1>0, <1>4, RecordAssumption DEF Deactivate, Callers
  <2>4. QED
    BY <1>0, <2>1, <2>2, <2>3, GoesTo
<1>2. /\ ff' = [ff EXCEPT !.stopEvent = TRUE, !.writeSem = @ + 1]
      /\ UNCHANGED <<output, disk, app, server>>
  BY <1>4 DEF Deactivate, Silent, Outside
<1>3. Stopper = "deactivate" /\ Stopper' = "join_writer"
  BY <1>0, <1>1 DEF Places, Starts, Orders, Stopper
<1>10. Places'
  BY <1>0, <1>1, <1>2, <1>3 DEF Places, FfType
<1>11. Starts'
  BY <1>0, <1>1, <1>2, <1>3 DEF Starts, FfType
<1>12. OutputFlags'
  BY <1>0, <1>1, <1>2, <1>3 DEF OutputFlags, FfType
<1>13. FfFlags'
  BY <1>0, <1>1, <1>2, <1>3 DEF FfFlags, FfType
<1>14. Writers'
  BY <1>0, <1>1, <1>2, <1>3 DEF Writers, FfType
<1>15. Orders'
  BY <1>0, <1>1, <1>2, <1>3 DEF Orders, FfType
<1>16. View'
  BY <1>0, <1>1, <1>2, <1>3 DEF View, FfType
<1>17. Files'
  BY <1>0, <1>1, <1>2, <1>3 DEF Files, FfType
<1>18. Leftover'
  BY <1>0, <1>1, <1>2, <1>3 DEF Leftover, FfType
<1>19. QED
  BY <1>1, <1>10, <1>11, <1>12, <1>13, <1>14, <1>15, <1>16, <1>17, <1>18 DEF Settled,
     Flags

\* The write thread is joined, or is the one that joins.
LEMMA JoinWriterSettles ==
  ASSUME TypeOK, Settled, Patient, NEW t \in Callers, JoinWriter(t)
  PROVE  Settled'
<1>0. /\ Frames /\ Single /\ Places /\ Starts /\ OutputFlags /\ FfFlags
      /\ Writers /\ Orders /\ View /\ Files /\ Leftover
      /\ output \in OutputType /\ ff \in FfType /\ app \in AppType
      /\ server \in ServerType
  BY DEF TypeOK, Settled, Flags
<1>1. Go("join_writer", "free_packets") /\ Frames' /\ Single' /\ Kept
  <2>1. FramesAt(t, "join_writer") \subseteq FramesAt(t, "free_packets")
    BY RecordAssumption DEF FramesAt
  <2>2. QED
    BY <1>0, <2>1, GoesTo, RecordAssumption
       DEF JoinWriter, Callers, SameHandles, Silent, Outside, FfType, OutputType
<1>2. /\ ff' = [ff EXCEPT !.writeThreadActive = FALSE]
      /\ UNCHANGED <<output, disk, app, server>>
  BY DEF JoinWriter, Silent, Outside
<1>3. Stopper = "join_writer" /\ Stopper' = "free_packets"
  BY <1>0, <1>1 DEF Places, Starts, Orders, Stopper
<1>5. Writer \in {Dead, "join_writer"}
  <2>1. CASE t \in WriteThreads
    BY <1>0, <2>1, AtAlone DEF JoinWriter, Single, Writer
  <2>2. CASE t \notin WriteThreads
    <3>1. ASSUME NEW w \in WriteThreads, pc[w] # Dead PROVE FALSE
      <4>1. ff.writeThread = w /\ w \in Threads
        BY <1>0, <3>1, RecordAssumption DEF Single, Live
      <4>2. QED
        BY <1>0, <2>2, <3>1, <4>1, ThreadsAssumption DEF JoinWriter, Single
    <3>2. QED
      BY <3>1 DEF Writer, At, Live
  <2>3. QED
    BY <2>1, <2>2
<1>10. Places'
  BY <1>0, <1>1, <1>2, <1>3, <1>5 DEF Places, FfType
<1>11. Starts'
  BY <1>0, <1>1, <1>2, <1>3, <1>5 DEF Starts, FfType
<1>12. OutputFlags'
  BY <1>0, <1>1, <1>2, <1>3, <1>5 DEF OutputFlags, FfType
<1>13. FfFlags'
  BY <1>0, <1>1, <1>2, <1>3, <1>5 DEF Places, Starts, OutputFlags, FfFlags, Writers,
     FfType
<1>14. Writers'
  BY <1>0, <1>1, <1>2, <1>3, <1>5 DEF Places, Writers, FfType
<1>15. Orders'
  BY <1>0, <1>1, <1>2, <1>3, <1>5 DEF Orders, FfType
<1>16. View'
  BY <1>0, <1>1, <1>2, <1>3, <1>5 DEF View, FfType
<1>17. Files'
  BY <1>0, <1>1, <1>2, <1>3, <1>5 DEF Files, FfType
<1>18. Leftover'
  BY <1>0, <1>1, <1>2, <1>3, <1>5 DEF Leftover, FfType
<1>19. QED
  BY <1>1, <1>10, <1>11, <1>12, <1>13, <1>14, <1>15, <1>16, <1>17, <1>18 DEF Settled,
     Flags

\* The capture may begin: the output is inactive.
LEMMA CanBeginSettles ==
  ASSUME TypeOK, Settled, Patient, NEW s \in StartThreads,
         CanBeginDataCapture(s, "create_writer", "connect_failed"), Silent
  PROVE  Settled'
<1>0. /\ Frames /\ Single /\ Places /\ Starts /\ OutputFlags /\ FfFlags
      /\ Writers /\ Orders /\ View /\ Files /\ Leftover
      /\ output \in OutputType /\ ff \in FfType /\ app \in AppType
      /\ server \in ServerType
  BY DEF TypeOK, Settled, Flags
<1>4. ~output.active
  BY <1>0, Stands, RecordAssumption DEF CanBeginDataCapture, Places, Starts,
     OutputFlags, OutputType
<1>1. Go("can_begin", "create_writer") /\ Frames' /\ Single' /\ Kept
  <2>1. FramesAt(s, "can_begin") \subseteq FramesAt(s, "create_writer")
    BY <1>4, RecordAssumption DEF FramesAt
  <2>2. QED
    BY <1>0, <1>4, <2>1, GoesTo, RecordAssumption
       DEF CanBeginDataCapture, Callers, SameHandles, Silent, Outside, FfType,
       OutputType
<1>2. UNCHANGED <<output, ff, disk, app, server>>
  BY <1>4 DEF CanBeginDataCapture, Silent, Outside
<1>3. Stopper' = Stopper
  BY <1>0, <1>1 DEF Places, Starts, Orders, Stopper
<1>9. /\ Starter = "can_begin" /\ Starter' = "create_writer"
      /\ UNCHANGED <<Writer, Ender, Slot, Leaver>> /\ Kept
  BY <1>0, <1>1 DEF Places
<1>10. Places'
  BY <1>0, <1>2, <1>3, <1>9 DEF Places
<1>11. Starts'
  BY <1>0, <1>2, <1>3, <1>9 DEF Starts
<1>12. OutputFlags'
  BY <1>0, <1>2, <1>3, <1>9 DEF OutputFlags
<1>13. FfFlags'
  BY <1>0, <1>2, <1>3, <1>9 DEF FfFlags
<1>14. Writers'
  BY <1>0, <1>2, <1>3, <1>9 DEF Writers
<1>15. Orders'
  BY <1>0, <1>2, <1>3, <1>9 DEF Orders
<1>16. View'
  BY <1>0, <1>2, <1>3, <1>9 DEF View
<1>17. Files'
  BY <1>0, <1>2, <1>3, <1>9 DEF Files
<1>18. Leftover'
  BY <1>0, <1>2, <1>3, <1>9 DEF Leftover
<1>19. QED
  BY <1>1, <1>10, <1>11, <1>12, <1>13, <1>14, <1>15, <1>16, <1>17, <1>18 DEF Settled,
     Flags

\* The callbacks are connected.
LEMMA BeginCaptureSettles ==
  ASSUME TypeOK, Settled, Patient, NEW s \in StartThreads, BeginDataCapture(s,
  "writer_active"), Silent
  PROVE  Settled'
<1>0. /\ Frames /\ Single /\ Places /\ Starts /\ OutputFlags /\ FfFlags
      /\ Writers /\ Orders /\ View /\ Files /\ Leftover
      /\ output \in OutputType /\ ff \in FfType /\ app \in AppType
      /\ server \in ServerType
  BY DEF TypeOK, Settled, Flags
<1>4. ~output.active
  BY <1>0, Stands, RecordAssumption DEF BeginDataCapture, Places, Starts, OutputFlags,
     OutputType
<1>1. Go("begin_capture", "begin_activate") /\ Frames' /\ Single' /\ Kept
  <2>1. FramesAt(s, "begin_capture") \subseteq FramesAt(s, "begin_activate")
    BY <1>4, RecordAssumption DEF FramesAt
  <2>2. SameHandles
    BY <1>0, <1>4 DEF BeginDataCapture, SameHandles, Silent, Outside, FfType, OutputType
  <2>3. Goto(s, "begin_activate") /\ pc[s] = "begin_capture" /\ s \in Threads
    BY <1>0, <1>4, RecordAssumption DEF BeginDataCapture, Callers
  <2>4. QED
    BY <1>0, <2>1, <2>2, <2>3, GoesTo
<1>2. /\ output' = [output EXCEPT !.dataActive = TRUE, !.hooked = TRUE]
      /\ UNCHANGED <<ff, disk, app, server>>
  BY <1>4 DEF BeginDataCapture, Silent, Outside
<1>3. Stopper' = Stopper
  BY <1>0, <1>1 DEF Places, Starts, Orders, Stopper
<1>9. /\ Starter = "begin_capture" /\ Starter' = "begin_activate"
      /\ UNCHANGED <<Writer, Ender, Slot, Leaver>> /\ Kept
  BY <1>0, <1>1 DEF Places
<1>10. Places'
  BY <1>0, <1>2, <1>3, <1>9 DEF Places, OutputType
<1>11. Starts'
  BY <1>0, <1>2, <1>3, <1>9 DEF Starts, OutputType
<1>12. OutputFlags'
  BY <1>0, <1>2, <1>3, <1>9 DEF Places, Starts, OutputFlags, Orders, OutputType
<1>13. FfFlags'
  BY <1>0, <1>2, <1>3, <1>9 DEF FfFlags, OutputType
<1>14. Writers'
  BY <1>0, <1>2, <1>3, <1>9 DEF Writers, OutputType
<1>15. Orders'
  BY <1>0, <1>2, <1>3, <1>9 DEF Orders, OutputType
<1>16. View'
  BY <1>0, <1>2, <1>3, <1>9 DEF View, OutputType
<1>17. Files'
  BY <1>0, <1>2, <1>3, <1>9 DEF Files, OutputType
<1>18. Leftover'
  BY <1>0, <1>2, <1>3, <1>9 DEF Leftover, OutputType
<1>19. QED
  BY <1>1, <1>10, <1>11, <1>12, <1>13, <1>14, <1>15, <1>16, <1>17, <1>18 DEF Settled,
     Flags

\* There is a capture to end.
LEMMA EndCheckSettles ==
  ASSUME TypeOK, Settled, Patient, NEW t \in Callers, EndCheck(t), Silent,
         output.active /\ output.dataActive
  PROVE  Settled'
<1>0. /\ Frames /\ Single /\ Places /\ Starts /\ OutputFlags /\ FfFlags
      /\ Writers /\ Orders /\ View /\ Files /\ Leftover
      /\ output \in OutputType /\ ff \in FfType /\ app \in AppType
      /\ server \in ServerType
  BY DEF TypeOK, Settled, Flags
<1>4. t \in Callers \ StartThreads /\ Starter # "end_check"
  BY <1>0, Stands, RecordAssumption DEF EndCheck, Callers, OutputFlags, OutputType
<1>1. Go("end_check", "end_clear") /\ Frames' /\ Single' /\ Kept
  <2>1. FramesAt(t, "end_check") \subseteq FramesAt(t, "end_clear")
    BY <1>4, RecordAssumption DEF FramesAt
  <2>2. QED
    BY <1>0, <1>4, <2>1, GoesTo, RecordAssumption
       DEF EndCheck, Callers, SameHandles, Silent, Outside, FfType, OutputType
<1>2. output.active /\ UNCHANGED <<output, ff, disk, app, server>>
  BY <1>4 DEF EndCheck, Silent, Outside
<1>3. Stopper = "end_check" /\ Stopper' = "end_clear"
  BY <1>0, <1>1, <1>4 DEF Places, Starts, Orders, Stopper
<1>10. Places'
  BY <1>0, <1>1, <1>2, <1>3 DEF Places, Starts, Writers, Orders
<1>11. Starts'
  BY <1>0, <1>1, <1>2, <1>3 DEF Starts
<1>12. OutputFlags'
  BY <1>0, <1>1, <1>2, <1>3 DEF OutputFlags
<1>13. FfFlags'
  BY <1>0, <1>1, <1>2, <1>3 DEF FfFlags
<1>14. Writers'
  BY <1>0, <1>1, <1>2, <1>3 DEF Writers
<1>15. Orders'
  BY <1>0, <1>1, <1>2, <1>3 DEF Orders
<1>16. View'
  BY <1>0, <1>1, <1>2, <1>3 DEF View
<1>17. Files'
  BY <1>0, <1>1, <1>2, <1>3 DEF Files
<1>18. Leftover'
  BY <1>0, <1>1, <1>2, <1>3 DEF Leftover
<1>19. QED
  BY <1>1, <1>10, <1>11, <1>12, <1>13, <1>14, <1>15, <1>16, <1>17, <1>18 DEF Settled,
     Flags

\* There is none: a start failed.
LEMMA EndNothingSettles ==
  ASSUME TypeOK, Settled, Patient, NEW t \in Callers, EndCheck(t), Silent,
         ~(output.active /\ output.dataActive)
  PROVE  Settled'
<1>0. /\ Frames /\ Single /\ Places /\ Starts /\ OutputFlags /\ FfFlags
      /\ Writers /\ Orders /\ View /\ Files /\ Leftover
      /\ output \in OutputType /\ ff \in FfType /\ app \in AppType
      /\ server \in ServerType
  BY DEF TypeOK, Settled, Flags
<1>4. t \in StartThreads /\ Starter = "end_check"
  BY <1>0, Stands DEF EndCheck, Callers, Places, Starts, OutputFlags, FfFlags, Writers,
     Orders, Stopper, OutputType
<1>1. Go("end_check", "end_inactive") /\ Frames' /\ Single' /\ Kept
  <2>1. FramesAt(t, "end_check") \subseteq FramesAt(t, "end_inactive")
    BY <1>4, RecordAssumption DEF FramesAt
  <2>2. QED
    BY <1>0, <1>4, <2>1, GoesTo, RecordAssumption
       DEF EndCheck, Callers, SameHandles, Silent, Outside, FfType, OutputType
<1>2. UNCHANGED <<output, ff, disk, app, server>>
  BY <1>4 DEF EndCheck, Silent, Outside
<1>3. Stopper' = Stopper
  BY <1>0, <1>1, <1>4 DEF Places, Starts, Orders, Stopper
<1>5. Starter' = "end_inactive" /\ UNCHANGED <<Writer, Ender, Slot, Leaver>>
  BY <1>0, <1>1, <1>4 DEF Places, Starts, Stopper
<1>10. Places'
  BY <1>0, <1>1, <1>2, <1>3, <1>5 DEF Places
<1>11. Starts'
  BY <1>0, <1>1, <1>2, <1>3, <1>5 DEF Starts
<1>12. OutputFlags'
  BY <1>0, <1>1, <1>2, <1>3, <1>5 DEF OutputFlags
<1>13. FfFlags'
  BY <1>0, <1>1, <1>2, <1>3, <1>5 DEF FfFlags
<1>14. Writers'
  BY <1>0, <1>1, <1>2, <1>3, <1>5 DEF Writers
<1>15. Orders'
  BY <1>0, <1>1, <1>2, <1>3, <1>5 DEF Orders
<1>16. View'
  BY <1>0, <1>1, <1>2, <1>3, <1>5 DEF View
<1>17. Files'
  BY <1>0, <1>1, <1>2, <1>3, <1>5 DEF Files
<1>18. Leftover'
  BY <1>0, <1>1, <1>2, <1>3, <1>5 DEF Leftover
<1>19. QED
  BY <1>1, <1>10, <1>11, <1>12, <1>13, <1>14, <1>15, <1>16, <1>17, <1>18 DEF Settled,
     Flags

\* The slot has closed the file and returns.
LEMMA CloseFileOBSSettles ==
  ASSUME TypeOK, Settled, Patient, NEW t \in Callers, CloseFile(t), t = OBS
  PROVE  Settled'
<1>0. /\ Frames /\ Single /\ Places /\ Starts /\ OutputFlags /\ FfFlags
      /\ Writers /\ Orders /\ View /\ Files /\ Leftover
      /\ output \in OutputType /\ ff \in FfType /\ app \in AppType
      /\ server \in ServerType
  BY DEF TypeOK, Settled, Flags
<1>1. Go("close_file", "idle") /\ Frames' /\ Single' /\ Kept
  <2>1. stack[t] = <<"idle">>
    BY <1>0, Stands, RecordAssumption DEF CloseFile, Frames, FramesAt, Return
  <2>2. Head(stack[t]) = "idle" /\ Tail(stack[t]) = <<>>
    BY ONLY <2>1
  <2>3. <<>> \in FramesAt(t, "idle")
    BY Stands, RecordAssumption DEF FramesAt
  <2>4. SameHandles /\ t \in Threads /\ pc[t] = "close_file" /\ Return(t)
    BY <1>0, Stands, RecordAssumption DEF CloseFile, SameHandles, Outside, FfType,
       OutputType
  <2>5. QED
    BY <1>0, <2>2, <2>3, <2>4, ReturnsTo
<1>2. ff' = [ff EXCEPT !.data = NoFile] /\ UNCHANGED <<output, disk, app, server>>
  BY DEF CloseFile, Outside
<1>3. Stopper = "close_file" /\ Stopper' = Dead
  BY <1>0, <1>1 DEF Places, Starts, Orders, Stopper
<1>5. /\ Slot = "close_file" /\ Slot' = "idle"
      /\ UNCHANGED <<Starter, Writer, Ender, Leaver>>
  BY <1>0, <1>1, Stands, RecordAssumption DEF CloseFile, Places, Starts, Writers,
     Orders, Slot
<1>10. Places'
  BY <1>0, <1>1, <1>2, <1>3, <1>5 DEF Places, Starts, OutputFlags, FfFlags, Writers,
     Orders, View, Files, FfType
<1>11. Starts'
  BY <1>0, <1>1, <1>2, <1>3, <1>5 DEF Starts, FfType
<1>12. OutputFlags'
  BY <1>0, <1>1, <1>2, <1>3, <1>5 DEF Places, Starts, OutputFlags, FfFlags, Writers,
     Orders, FfType
<1>13. FfFlags'
  BY <1>0, <1>1, <1>2, <1>3, <1>5 DEF Places, Starts, OutputFlags, FfFlags, Writers,
     Orders, View, Files, FfType
<1>14. Writers'
  BY <1>0, <1>1, <1>2, <1>3, <1>5 DEF Writers, FfType
<1>15. Orders'
  BY <1>0, <1>1, <1>2, <1>3, <1>5 DEF Orders, FfType
<1>16. View'
  BY <1>0, <1>1, <1>2, <1>3, <1>5 DEF View, FfType
<1>17. Files'
  BY <1>0, <1>1, <1>2, <1>3, <1>5 DEF FfFlags, Files, FfType
<1>18. Leftover'
  BY <1>0, <1>1, <1>2, <1>3, <1>5 DEF Leftover, FfType
<1>19. QED
  BY <1>1, <1>10, <1>11, <1>12, <1>13, <1>14, <1>15, <1>16, <1>17, <1>18 DEF Settled,
     Flags

\* The main thread has closed it and goes on to destroy.
LEMMA CloseFileMainSettles ==
  ASSUME TypeOK, Settled, Patient, NEW t \in Callers, CloseFile(t), t = Main
  PROVE  Settled'
<1>0. /\ Frames /\ Single /\ Places /\ Starts /\ OutputFlags /\ FfFlags
      /\ Writers /\ Orders /\ View /\ Files /\ Leftover
      /\ output \in OutputType /\ ff \in FfType /\ app \in AppType
      /\ server \in ServerType
  BY DEF TypeOK, Settled, Flags
<1>1. Go("close_file", "destroy_wait") /\ Frames' /\ Single' /\ Kept
  <2>1. stack[t] = <<"destroy_wait", "exited">>
    BY <1>0, Stands, RecordAssumption DEF CloseFile, Frames, FramesAt, Return
  <2>2. Head(stack[t]) = "destroy_wait" /\ Tail(stack[t]) = <<"exited">>
    BY ONLY <2>1
  <2>3. <<"exited">> \in FramesAt(t, "destroy_wait")
    BY Stands, RecordAssumption DEF FramesAt
  <2>4. SameHandles /\ t \in Threads /\ pc[t] = "close_file" /\ Return(t)
    BY <1>0, Stands, RecordAssumption DEF CloseFile, SameHandles, Outside, FfType,
       OutputType
  <2>5. QED
    BY <1>0, <2>2, <2>3, <2>4, ReturnsTo
<1>2. ff' = [ff EXCEPT !.data = NoFile] /\ UNCHANGED <<output, disk, app, server>>
  BY DEF CloseFile, Outside
<1>3. Stopper = "close_file" /\ Stopper' = Dead
  BY <1>0, <1>1 DEF Places, Starts, Orders, Stopper
<1>5. /\ Leaver = "close_file" /\ Leaver' = "destroy_wait"
      /\ UNCHANGED <<Starter, Writer, Ender, Slot>>
  BY <1>0, <1>1, Stands, RecordAssumption DEF CloseFile, Places, Starts, Writers,
     Orders, Leaver
<1>10. Places'
  BY <1>0, <1>1, <1>2, <1>3, <1>5 DEF Places, Starts, OutputFlags, FfFlags, Writers,
     Orders, View, Files, FfType
<1>11. Starts'
  BY <1>0, <1>1, <1>2, <1>3, <1>5 DEF Starts, FfType
<1>12. OutputFlags'
  BY <1>0, <1>1, <1>2, <1>3, <1>5 DEF Places, Starts, OutputFlags, FfFlags, Writers,
     FfType
<1>13. FfFlags'
  BY <1>0, <1>1, <1>2, <1>3, <1>5 DEF Places, Starts, OutputFlags, FfFlags, Writers,
     Orders, View, Files, FfType
<1>14. Writers'
  BY <1>0, <1>1, <1>2, <1>3, <1>5 DEF Writers, FfType
<1>15. Orders'
  BY <1>0, <1>1, <1>2, <1>3, <1>5 DEF Places, OutputFlags, Writers, Orders, FfType
<1>16. View'
  BY <1>0, <1>1, <1>2, <1>3, <1>5 DEF View, FfType
<1>17. Files'
  BY <1>0, <1>1, <1>2, <1>3, <1>5 DEF FfFlags, Files, FfType
<1>18. Leftover'
  BY <1>0, <1>1, <1>2, <1>3, <1>5 DEF Leftover, FfType
<1>19. QED
  BY <1>1, <1>10, <1>11, <1>12, <1>13, <1>14, <1>15, <1>16, <1>17, <1>18 DEF Settled,
     Flags

\* The write thread has closed it and waits again.
LEMMA CloseFileWriterSettles ==
  ASSUME TypeOK, Settled, Patient, NEW t \in Callers, CloseFile(t), t \in WriteThreads
  PROVE  Settled'
<1>0. /\ Frames /\ Single /\ Places /\ Starts /\ OutputFlags /\ FfFlags
      /\ Writers /\ Orders /\ View /\ Files /\ Leftover
      /\ output \in OutputType /\ ff \in FfType /\ app \in AppType
      /\ server \in ServerType
  BY DEF TypeOK, Settled, Flags
<1>1. Go("close_file", "write_wait") /\ Frames' /\ Single' /\ Kept
  <2>1. stack[t] = <<"write_wait">>
    BY <1>0, Stands, RecordAssumption DEF CloseFile, Frames, FramesAt, Return
  <2>2. Head(stack[t]) = "write_wait" /\ Tail(stack[t]) = <<>>
    BY ONLY <2>1
  <2>3. <<>> \in FramesAt(t, "write_wait")
    BY Stands, RecordAssumption DEF FramesAt
  <2>4. SameHandles /\ t \in Threads /\ pc[t] = "close_file" /\ Return(t)
    BY <1>0, Stands, RecordAssumption DEF CloseFile, SameHandles, Outside, FfType,
       OutputType
  <2>5. QED
    BY <1>0, <2>2, <2>3, <2>4, ReturnsTo
<1>2. ff' = [ff EXCEPT !.data = NoFile] /\ UNCHANGED <<output, disk, app, server>>
  BY DEF CloseFile, Outside
<1>3. Stopper = "close_file" /\ Stopper' = Dead
  BY <1>0, <1>1 DEF Places, Starts, Orders, Stopper
<1>5. /\ Writer = "close_file" /\ Writer' = "write_wait"
      /\ UNCHANGED <<Starter, Ender, Slot, Leaver>>
  BY <1>0, <1>1, Stands, RecordAssumption DEF CloseFile, Places, Starts, Writers, Orders
<1>10. Places'
  BY <1>0, <1>1, <1>2, <1>3, <1>5 DEF Places, Starts, OutputFlags, FfFlags, Writers,
     Orders, View, Files, FfType
<1>11. Starts'
  BY <1>0, <1>1, <1>2, <1>3, <1>5 DEF Starts, FfType
<1>12. OutputFlags'
  BY <1>0, <1>1, <1>2, <1>3, <1>5 DEF Places, Starts, OutputFlags, FfFlags, Writers,
     FfType
<1>13. FfFlags'
  BY <1>0, <1>1, <1>2, <1>3, <1>5 DEF Places, Starts, OutputFlags, FfFlags, Writers,
     FfType
<1>14. Writers'
  BY <1>0, <1>1, <1>2, <1>3, <1>5 DEF Writers, FfType
<1>15. Orders'
  BY <1>0, <1>1, <1>2, <1>3, <1>5 DEF Orders, FfType
<1>16. View'
  BY <1>0, <1>1, <1>2, <1>3, <1>5 DEF View, FfType
<1>17. Files'
  BY <1>0, <1>1, <1>2, <1>3, <1>5 DEF FfFlags, Files, FfType
<1>18. Leftover'
  BY <1>0, <1>1, <1>2, <1>3, <1>5 DEF Leftover, FfType
<1>19. QED
  BY <1>1, <1>10, <1>11, <1>12, <1>13, <1>14, <1>15, <1>16, <1>17, <1>18 DEF Settled,
     Flags

\* The start slot returns.
LEMMA SetConnectingSettles ==
  ASSUME TypeOK, Settled, Patient, SetConnecting
  PROVE  Settled'
<1>0. /\ Frames /\ Single /\ Places /\ Starts /\ OutputFlags /\ FfFlags
      /\ Writers /\ Orders /\ View /\ Files /\ Leftover
      /\ output \in OutputType /\ ff \in FfType /\ app \in AppType
      /\ server \in ServerType
  BY DEF TypeOK, Settled, Flags
<1>1. Go("set_connecting", "idle") /\ Frames' /\ Single' /\ Kept
  <2>1. stack[OBS] = <<"idle">>
    BY <1>0, Stands, RecordAssumption DEF SetConnecting, Frames, FramesAt, Return
  <2>2. Head(stack[OBS]) = "idle" /\ Tail(stack[OBS]) = <<>>
    BY ONLY <2>1
  <2>3. <<>> \in FramesAt(OBS, "idle")
    BY Stands, RecordAssumption DEF FramesAt
  <2>4. SameHandles /\ OBS \in Threads /\ pc[OBS] = "set_connecting" /\ Return(OBS)
    BY <1>0, Stands, RecordAssumption DEF SetConnecting, SameHandles, Outside, FfType,
       OutputType
  <2>5. QED
    BY <1>0, <2>2, <2>3, <2>4, ReturnsTo
<1>2. ff' = [ff EXCEPT !.connecting = TRUE] /\ UNCHANGED <<output, disk, app, server>>
  BY DEF SetConnecting, Outside
<1>3. Stopper' = Stopper
  BY <1>0, <1>1 DEF Places, Starts, Orders, Stopper
<1>5. /\ Slot = "set_connecting" /\ Slot' = "idle"
      /\ UNCHANGED <<Starter, Writer, Ender, Leaver>>
  BY <1>0, <1>1, Stands, RecordAssumption DEF SetConnecting, Places, Starts, Writers,
     Orders, Slot
<1>6. Starter # Dead
  BY <1>0, <1>5 DEF Orders
<1>10. Places'
  BY <1>0, <1>1, <1>2, <1>3, <1>5, <1>6 DEF Places, FfType
<1>11. Starts'
  BY <1>0, <1>1, <1>2, <1>3, <1>5, <1>6 DEF Starts, FfType
<1>12. OutputFlags'
  BY <1>0, <1>1, <1>2, <1>3, <1>5, <1>6 DEF OutputFlags, FfType
<1>13. FfFlags'
  <2>1. (ff.connecting = (Starter # Dead /\ Slot # "set_connecting"))'
    BY <1>0, <1>1, <1>2, <1>3, <1>5, <1>6 DEF Places, Starts, FfFlags, FfType
  <2>2. (ff.active = (Starter \in {"can_begin", "create_writer"} \/ Writer # Dead))'
    BY <1>0, <1>1, <1>2, <1>3, <1>5, <1>6 DEF Places, Starts, FfFlags, FfType
  <2>3. (ff.writeThreadActive = \/ Starter \in {"start_return", Dead} /\ output.dataActive
                                \/ Stopper \in Creating \cup {"end_signal"} \cup Joining)'
    BY <1>0, <1>1, <1>2, <1>3, <1>5, <1>6 DEF Places, Starts, FfFlags, FfType
  <2>4. (IF Starter \in Opened \/ output.dataActive \/ Stopper # Dead
           THEN ff.data = app.filePath /\ ff.data # NoFile ELSE ff.data = NoFile)'
    BY <1>0, <1>1, <1>2, <1>3, <1>5, <1>6 DEF Places, Starts, FfFlags, FfType
  <2>5. (ff.stopEvent => \/ Stopper = "join_writer"
                         \/ Writer \in Freeing
                         \/ /\ Stopper = Dead /\ Starter = Dead
                            /\ ff.stopping /\ Writer = "write_wait")'
    BY <1>0, <1>1, <1>2, <1>3, <1>5, <1>6 DEF Places, Starts, FfFlags, FfType
  <2>6. (Writer \in Freeing => ff.stopEvent)'
    BY <1>0, <1>1, <1>2, <1>3, <1>5, <1>6 DEF Places, Starts, FfFlags, FfType
  <2>7. (Writer \in {"process_packet", "write_frame"} => ff.data # NoFile)'
    BY <1>0, <1>1, <1>2, <1>3, <1>5, <1>6 DEF Places, Starts, FfFlags, FfType
  <2>8. QED
    BY <2>1, <2>2, <2>3, <2>4, <2>5, <2>6, <2>7 DEF FfFlags
<1>14. Writers'
  BY <1>0, <1>1, <1>2, <1>3, <1>5, <1>6 DEF Writers, FfType
<1>15. Orders'
  BY <1>0, <1>1, <1>2, <1>3, <1>5, <1>6 DEF Orders, FfType
<1>16. View'
  BY <1>0, <1>1, <1>2, <1>3, <1>5, <1>6 DEF View, FfType
<1>17. Files'
  BY <1>0, <1>1, <1>2, <1>3, <1>5, <1>6 DEF Files, FfType
<1>18. Leftover'
  BY <1>0, <1>1, <1>2, <1>3, <1>5, <1>6 DEF Leftover, FfType
<1>19. QED
  BY <1>1, <1>10, <1>11, <1>12, <1>13, <1>14, <1>15, <1>16, <1>17, <1>18 DEF Settled,
     Flags

\* FullStop: the slot ends the capture.
LEMMA FullStopOBSSettles ==
  ASSUME TypeOK, Settled, Patient, NEW t \in Callers, FullStop(t), ff.active, t = OBS
  PROVE  Settled'
<1>0. /\ Frames /\ Single /\ Places /\ Starts /\ OutputFlags /\ FfFlags
      /\ Writers /\ Orders /\ View /\ Files /\ Leftover
      /\ output \in OutputType /\ ff \in FfType /\ app \in AppType
      /\ server \in ServerType
  BY DEF TypeOK, Settled, Flags
<1>1. Go("full_stop", "end_check") /\ Frames' /\ Single' /\ Kept
  <2>1. stack[t] = <<"idle">>
    BY <1>0, <1>0, RecordAssumption DEF FullStop, Frames, FramesAt
  <2>2. <<"deactivate">> \o stack[t] = <<"deactivate", "idle">>
    BY <2>1, Push2, Push3
  <2>3. <<"deactivate", "idle">> \in FramesAt(t, "end_check")
    BY <1>0, RecordAssumption DEF FramesAt
  <2>4. /\ SameHandles /\ t \in Threads /\ pc[t] = "full_stop"
        /\ Call(t, "end_check", "deactivate")
    BY <1>0, <1>0, RecordAssumption DEF FullStop, Callers, SameHandles, Outside, FfType,
       OutputType
  <2>5. <<"deactivate">> \o stack[t] \in FramesAt(t, "end_check")
    BY <2>2, <2>3
  <2>6. t # Main \/ "end_check" # "full_stop"
    BY RecordAssumption
  <2>7. QED
    BY <1>0, <2>4, <2>5, <2>6, CallsTo
<1>2. UNCHANGED <<output, ff, disk, app, server>>
  BY DEF FullStop, Outside
<1>3. Stopper = Dead /\ Stopper' = "end_check"
  BY <1>0, <1>1 DEF Places, Starts, Writers, Orders, OutputFlags, Stopper
<1>5. /\ Slot = "full_stop" /\ Slot' = "end_check"
      /\ UNCHANGED <<Starter, Writer, Ender, Leaver>>
  BY <1>0, <1>1, Stands, RecordAssumption DEF FullStop, Places, Starts, Writers, Orders,
     Slot
<1>10. Places'
  BY <1>0, <1>1, <1>2, <1>3, <1>5 DEF Places, Orders
<1>11. Starts'
  BY <1>0, <1>1, <1>2, <1>3, <1>5 DEF Starts
<1>12. OutputFlags'
  BY <1>0, <1>1, <1>2, <1>3, <1>5 DEF Places, OutputFlags, Orders
<1>13. FfFlags'
  BY <1>0, <1>1, <1>2, <1>3, <1>5 DEF Places, Starts, OutputFlags, FfFlags, Orders
<1>14. Writers'
  BY <1>0, <1>1, <1>2, <1>3, <1>5 DEF Places, Starts, OutputFlags, Writers, Orders
<1>15. Orders'
  BY <1>0, <1>1, <1>2, <1>3, <1>5 DEF Orders
<1>16. View'
  BY <1>0, <1>1, <1>2, <1>3, <1>5 DEF View
<1>17. Files'
  BY <1>0, <1>1, <1>2, <1>3, <1>5 DEF Files
<1>18. Leftover'
  BY <1>0, <1>1, <1>2, <1>3, <1>5 DEF Leftover
<1>19. QED
  BY <1>1, <1>10, <1>11, <1>12, <1>13, <1>14, <1>15, <1>16, <1>17, <1>18 DEF Settled,
     Flags

\* The main thread ends it.
LEMMA FullStopMainSettles ==
  ASSUME TypeOK, Settled, Patient, NEW t \in Callers, FullStop(t), ff.active, t = Main
  PROVE  Settled'
<1>0. /\ Frames /\ Single /\ Places /\ Starts /\ OutputFlags /\ FfFlags
      /\ Writers /\ Orders /\ View /\ Files /\ Leftover
      /\ output \in OutputType /\ ff \in FfType /\ app \in AppType
      /\ server \in ServerType
  BY DEF TypeOK, Settled, Flags
<1>4. stack[t] = <<"destroy_wait", "exited">>
  <2>1. ~Short
    BY <1>0 DEF FullStop, Orders, FfFlags, Leaver, FfType
  <2>2. QED
    BY <1>0, <2>1, RecordAssumption DEF FullStop, Frames, FramesAt, Short, Leaver
<1>1. Go("full_stop", "end_check") /\ Frames' /\ Single' /\ Kept
  <2>1. stack[t] = <<"destroy_wait", "exited">>
    BY <1>0, <1>4, RecordAssumption DEF FullStop, Frames, FramesAt
  <2>2. <<"deactivate">> \o stack[t] = <<"deactivate", "destroy_wait", "exited">>
    BY <2>1, Push2, Push3
  <2>3. <<"deactivate", "destroy_wait", "exited">> \in FramesAt(t, "end_check")
    BY <1>4, RecordAssumption DEF FramesAt
  <2>4. /\ SameHandles /\ t \in Threads /\ pc[t] = "full_stop"
        /\ Call(t, "end_check", "deactivate")
    BY <1>0, <1>4, RecordAssumption DEF FullStop, Callers, SameHandles, Outside, FfType,
       OutputType
  <2>5. <<"deactivate">> \o stack[t] \in FramesAt(t, "end_check")
    BY <2>2, <2>3
  <2>6. t # Main \/ "end_check" # "full_stop"
    BY RecordAssumption
  <2>7. QED
    BY <1>0, <2>4, <2>5, <2>6, CallsTo
<1>2. UNCHANGED <<output, ff, disk, app, server>>
  BY DEF FullStop, Outside
<1>3. Stopper = Dead /\ Stopper' = "end_check"
  BY <1>0, <1>1 DEF Places, Starts, Writers, Orders, OutputFlags, Stopper
<1>5. /\ Leaver = "full_stop" /\ Leaver' = "end_check"
      /\ UNCHANGED <<Starter, Writer, Ender, Slot>>
  BY <1>0, <1>1, Stands, RecordAssumption DEF FullStop, Places, Starts, Writers, Orders,
     Leaver
<1>10. Places'
  BY <1>0, <1>1, <1>2, <1>3, <1>5 DEF Places, Writers, Orders
<1>11. Starts'
  BY <1>0, <1>1, <1>2, <1>3, <1>5 DEF Starts
<1>12. OutputFlags'
  BY <1>0, <1>1, <1>2, <1>3, <1>5 DEF Places, Starts, OutputFlags, FfFlags, Writers,
     Orders
<1>13. FfFlags'
  BY <1>0, <1>1, <1>2, <1>3, <1>5 DEF Places, Starts, OutputFlags, FfFlags, Orders
<1>14. Writers'
  BY <1>0, <1>1, <1>2, <1>3, <1>5 DEF Places, Starts, OutputFlags, FfFlags, Writers,
     Orders
<1>15. Orders'
  BY <1>0, <1>1, <1>2, <1>3, <1>5 DEF Places, Starts, OutputFlags, FfFlags, Writers,
     Orders
<1>16. View'
  BY <1>0, <1>1, <1>2, <1>3, <1>5 DEF Places, Starts, OutputFlags, FfFlags, Writers,
     Orders, View
<1>17. Files'
  BY <1>0, <1>1, <1>2, <1>3, <1>5 DEF Files
<1>18. Leftover'
  BY <1>0, <1>1, <1>2, <1>3, <1>5 DEF Leftover
<1>19. QED
  BY <1>1, <1>10, <1>11, <1>12, <1>13, <1>14, <1>15, <1>16, <1>17, <1>18 DEF Settled,
     Flags

\* The write thread ends it.
LEMMA FullStopWriterSettles ==
  ASSUME TypeOK, Settled, Patient, NEW t \in Callers, FullStop(t), ff.active,
  t \in WriteThreads
  PROVE  Settled'
<1>0. /\ Frames /\ Single /\ Places /\ Starts /\ OutputFlags /\ FfFlags
      /\ Writers /\ Orders /\ View /\ Files /\ Leftover
      /\ output \in OutputType /\ ff \in FfType /\ app \in AppType
      /\ server \in ServerType
  BY DEF TypeOK, Settled, Flags
<1>1. Go("full_stop", "end_check") /\ Frames' /\ Single' /\ Kept
  <2>1. stack[t] = <<"write_wait">>
    BY <1>0, <1>0, RecordAssumption DEF FullStop, Frames, FramesAt
  <2>2. <<"deactivate">> \o stack[t] = <<"deactivate", "write_wait">>
    BY <2>1, Push2, Push3
  <2>3. <<"deactivate", "write_wait">> \in FramesAt(t, "end_check")
    BY <1>0, RecordAssumption DEF FramesAt
  <2>4. /\ SameHandles /\ t \in Threads /\ pc[t] = "full_stop"
        /\ Call(t, "end_check", "deactivate")
    BY <1>0, <1>0, RecordAssumption DEF FullStop, Callers, SameHandles, Outside, FfType,
       OutputType
  <2>5. <<"deactivate">> \o stack[t] \in FramesAt(t, "end_check")
    BY <2>2, <2>3
  <2>6. t # Main \/ "end_check" # "full_stop"
    BY RecordAssumption
  <2>7. QED
    BY <1>0, <2>4, <2>5, <2>6, CallsTo
<1>2. UNCHANGED <<output, ff, disk, app, server>>
  BY DEF FullStop, Outside
<1>3. Stopper = Dead /\ Stopper' = "end_check"
  BY <1>0, <1>1 DEF Places, Starts, Writers, Orders, OutputFlags, Stopper
<1>5. /\ Writer = "full_stop" /\ Writer' = "end_check"
      /\ UNCHANGED <<Starter, Ender, Slot, Leaver>>
  BY <1>0, <1>1, Stands, RecordAssumption DEF FullStop, Places, Starts, Writers, Orders
<1>6. /\ ff.stopping /\ output.dataActive /\ Starter = Dead /\ Leaver = "loop"
      /\ Slot \in {"idle", "set_stop_ts"}
  BY <1>0, <1>5 DEF Places, Starts, Writers, Orders, OutputFlags
<1>10. Places'
  BY <1>0, <1>1, <1>2, <1>3, <1>5, <1>6 DEF Places
<1>11. Starts'
  BY <1>0, <1>1, <1>2, <1>3, <1>5, <1>6 DEF Starts
<1>12. OutputFlags'
  BY <1>0, <1>1, <1>2, <1>3, <1>5, <1>6 DEF OutputFlags
<1>13. FfFlags'
  BY <1>0, <1>1, <1>2, <1>3, <1>5, <1>6 DEF FfFlags
<1>14. Writers'
  BY <1>0, <1>1, <1>2, <1>3, <1>5, <1>6 DEF Writers
<1>15. Orders'
  BY <1>0, <1>1, <1>2, <1>3, <1>5, <1>6 DEF Orders
<1>16. View'
  BY <1>0, <1>1, <1>2, <1>3, <1>5, <1>6, OneNotice DEF OutputFlags, View
<1>17. Files'
  BY <1>0, <1>1, <1>2, <1>3, <1>5, <1>6 DEF Files
<1>18. Leftover'
  BY <1>0, <1>1, <1>2, <1>3, <1>5, <1>6 DEF Leftover
<1>19. QED
  BY <1>1, <1>10, <1>11, <1>12, <1>13, <1>14, <1>15, <1>16, <1>17, <1>18 DEF Settled,
     Flags

\* There is none: the output was not active when it was destroyed.
LEMMA FullStopNothingSettles ==
  ASSUME TypeOK, Settled, Patient, NEW t \in Callers, FullStop(t), ~ff.active
  PROVE  Settled'
<1>0. /\ Frames /\ Single /\ Places /\ Starts /\ OutputFlags /\ FfFlags
      /\ Writers /\ Orders /\ View /\ Files /\ Leftover
      /\ output \in OutputType /\ ff \in FfType /\ app \in AppType
      /\ server \in ServerType
  BY DEF TypeOK, Settled, Flags
<1>4. t = Main /\ stack[t] = <<"exited">>
  <2>1. t = Main
    BY <1>0, Stands DEF FullStop, Callers, Places, FfFlags, Orders, Writers,
       OutputFlags, FfType
  <2>2. ~output.dataActive /\ Leaver = "full_stop"
    BY <1>0, <2>1, Stands DEF FullStop, Places, FfFlags, Orders, Writers, OutputFlags,
       FfType, Leaver
  <2>3. QED
    BY <1>0, <2>1, <2>2 DEF Orders, Short
<1>1. Go("full_stop", "exited") /\ Frames' /\ Single' /\ Kept
  <2>1. stack[t] = <<"exited">>
    BY <1>0, <1>4, RecordAssumption DEF FullStop, Frames, FramesAt, Return
  <2>2. Head(stack[t]) = "exited" /\ Tail(stack[t]) = <<>>
    BY ONLY <2>1
  <2>3. <<>> \in FramesAt(t, "exited")
    BY <1>4, RecordAssumption DEF FramesAt
  <2>4. SameHandles /\ t \in Threads /\ pc[t] = "full_stop" /\ Return(t)
    BY <1>0, <1>4, RecordAssumption DEF FullStop, SameHandles, Outside, FfType,
       OutputType
  <2>5. QED
    BY <1>0, <2>2, <2>3, <2>4, ReturnsTo
<1>2. UNCHANGED <<output, ff, disk, app, server>>
  BY DEF FullStop, Outside
<1>3. Stopper' = Stopper
  BY <1>0, <1>1 DEF Places, Starts, Orders, Stopper
<1>10. Places'
  BY <1>0, <1>1, <1>2, <1>3 DEF Places, Starts, OutputFlags, FfFlags, Writers, Orders,
     View, Files
<1>11. Starts'
  BY <1>0, <1>1, <1>2, <1>3 DEF Starts
<1>12. OutputFlags'
  BY <1>0, <1>1, <1>2, <1>3 DEF Places, Starts, OutputFlags, FfFlags, Writers, Orders
<1>13. FfFlags'
  BY <1>0, <1>1, <1>2, <1>3 DEF FfFlags
<1>14. Writers'
  BY <1>0, <1>1, <1>2, <1>3 DEF Writers
<1>15. Orders'
  BY <1>0, <1>1, <1>2, <1>3 DEF Places, Starts, OutputFlags, FfFlags, Writers, Orders
<1>16. View'
  BY <1>0, <1>1, <1>2, <1>3 DEF View
<1>17. Files'
  BY <1>0, <1>1, <1>2, <1>3 DEF Files
<1>18. Leftover'
  BY <1>0, <1>1, <1>2, <1>3 DEF Leftover
<1>19. QED
  BY <1>1, <1>10, <1>11, <1>12, <1>13, <1>14, <1>15, <1>16, <1>17, <1>18 DEF Settled,
     Flags

\* There is no packet.
LEMMA ProcessNothingSettles ==
  ASSUME TypeOK, Settled, Patient, NEW w \in WriteThreads, ProcessPacket(w),
  ff.packets = <<>>
  PROVE  Settled'
<1>0. /\ Frames /\ Single /\ Places /\ Starts /\ OutputFlags /\ FfFlags
      /\ Writers /\ Orders /\ View /\ Files /\ Leftover
      /\ output \in OutputType /\ ff \in FfType /\ app \in AppType
      /\ server \in ServerType
  BY DEF TypeOK, Settled, Flags
<1>1. Go("process_packet", "write_wait") /\ Frames' /\ Single' /\ Kept
  <2>1. FramesAt(w, "process_packet") \subseteq FramesAt(w, "write_wait")
    BY RecordAssumption DEF FramesAt
  <2>2. QED
    BY <1>0, <2>1, GoesTo, RecordAssumption
       DEF ProcessPacket, Callers, SameHandles, Silent, Outside, FfType, OutputType
<1>2. UNCHANGED <<output, ff, disk, app, server>>
  BY DEF ProcessPacket, Silent, Outside
<1>3. Stopper' = Stopper
  BY <1>0, <1>1 DEF Places, Starts, Orders, Stopper
<1>9. /\ Writer = "process_packet" /\ Writer' = "write_wait"
      /\ UNCHANGED <<Starter, Ender, Slot, Leaver>> /\ Kept
  BY <1>0, <1>1 DEF Places
<1>10. Places'
  BY <1>0, <1>2, <1>3, <1>9 DEF Places
<1>11. Starts'
  BY <1>0, <1>2, <1>3, <1>9 DEF Starts
<1>12. OutputFlags'
  BY <1>0, <1>2, <1>3, <1>9 DEF OutputFlags
<1>13. FfFlags'
  BY <1>0, <1>2, <1>3, <1>9 DEF FfFlags
<1>14. Writers'
  BY <1>0, <1>2, <1>3, <1>9 DEF Writers
<1>15. Orders'
  BY <1>0, <1>2, <1>3, <1>9 DEF Orders
<1>16. View'
  BY <1>0, <1>2, <1>3, <1>9 DEF View
<1>17. Files'
  BY <1>0, <1>2, <1>3, <1>9 DEF Files
<1>18. Leftover'
  BY <1>0, <1>2, <1>3, <1>9 DEF Leftover
<1>19. QED
  BY <1>1, <1>10, <1>11, <1>12, <1>13, <1>14, <1>15, <1>16, <1>17, <1>18 DEF Settled,
     Flags

\* The packet is to be written.
LEMMA ProcessFrameSettles ==
  ASSUME TypeOK, Settled, Patient, NEW w \in WriteThreads, ProcessPacket(w),
  ff.packets # <<>>,
         ~Due(Head(ff.packets))
  PROVE  Settled'
<1>0. /\ Frames /\ Single /\ Places /\ Starts /\ OutputFlags /\ FfFlags
      /\ Writers /\ Orders /\ View /\ Files /\ Leftover
      /\ output \in OutputType /\ ff \in FfType /\ app \in AppType
      /\ server \in ServerType
  BY DEF TypeOK, Settled, Flags
<1>1. Go("process_packet", "write_frame") /\ Frames' /\ Single' /\ Kept
  <2>1. FramesAt(w, "process_packet") \subseteq FramesAt(w, "write_frame")
    BY RecordAssumption DEF FramesAt
  <2>2. SameHandles
    BY <1>0 DEF ProcessPacket, SameHandles, Silent, Outside, FfType, OutputType
  <2>3. Goto(w, "write_frame") /\ pc[w] = "process_packet" /\ w \in Threads
    BY <1>0, RecordAssumption DEF ProcessPacket, Callers
  <2>4. QED
    BY <1>0, <2>1, <2>2, <2>3, GoesTo
<1>2. ff' = [ff EXCEPT !.packets = Tail(@)] /\ UNCHANGED <<output, disk, app, server>>
  BY DEF ProcessPacket, Silent, Outside
<1>3. Stopper' = Stopper
  BY <1>0, <1>1 DEF Places, Starts, Orders, Stopper
<1>9. /\ Writer = "process_packet" /\ Writer' = "write_frame"
      /\ UNCHANGED <<Starter, Ender, Slot, Leaver>> /\ Kept
  BY <1>0, <1>1 DEF Places
<1>5. Len(ff'.packets) <= Len(ff.packets)
  BY <1>0, <1>2 DEF FfType
<1>10. Places'
  BY <1>0, <1>2, <1>3, <1>9, <1>5 DEF Places, FfType
<1>11. Starts'
  BY <1>0, <1>2, <1>3, <1>9, <1>5 DEF Starts, FfType
<1>12. OutputFlags'
  BY <1>0, <1>2, <1>3, <1>9, <1>5 DEF OutputFlags, FfType
<1>13. FfFlags'
  BY <1>0, <1>2, <1>3, <1>9, <1>5 DEF FfFlags, FfType
<1>14. Writers'
  BY <1>0, <1>2, <1>3, <1>9, <1>5 DEF Writers, FfType
<1>15. Orders'
  BY <1>0, <1>2, <1>3, <1>9, <1>5 DEF Orders, FfType
<1>16. View'
  BY <1>0, <1>2, <1>3, <1>9, <1>5 DEF View, FfType
<1>17. Files'
  BY <1>0, <1>2, <1>3, <1>9, <1>5 DEF Files, FfType
<1>18. Leftover'
  BY <1>0, <1>2, <1>3, <1>9, <1>5 DEF Leftover, FfType
<1>19. QED
  BY <1>1, <1>10, <1>11, <1>12, <1>13, <1>14, <1>15, <1>16, <1>17, <1>18 DEF Settled,
     Flags

\* The packet lies past the stop time.
LEMMA ProcessDueSettles ==
  ASSUME TypeOK, Settled, Patient, NEW w \in WriteThreads, ProcessPacket(w),
  ff.packets # <<>>,
         Due(Head(ff.packets))
  PROVE  Settled'
<1>0. /\ Frames /\ Single /\ Places /\ Starts /\ OutputFlags /\ FfFlags
      /\ Writers /\ Orders /\ View /\ Files /\ Leftover
      /\ output \in OutputType /\ ff \in FfType /\ app \in AppType
      /\ server \in ServerType
  BY DEF TypeOK, Settled, Flags
<1>1. Go("process_packet", "full_stop") /\ Frames' /\ Single' /\ Kept
  <2>1. stack[w] = <<>>
    BY <1>0, <1>0, RecordAssumption DEF ProcessPacket, Frames, FramesAt
  <2>2. <<"write_wait">> \o stack[w] = <<"write_wait">>
    BY <2>1, Push2, Push3
  <2>3. <<"write_wait">> \in FramesAt(w, "full_stop")
    BY <1>0, RecordAssumption DEF FramesAt
  <2>4. /\ SameHandles /\ w \in Threads /\ pc[w] = "process_packet"
        /\ Call(w, "full_stop", "write_wait")
    BY <1>0, <1>0, RecordAssumption DEF ProcessPacket, Callers, SameHandles, Outside,
       FfType, OutputType
  <2>5. <<"write_wait">> \o stack[w] \in FramesAt(w, "full_stop")
    BY <2>2, <2>3
  <2>6. w # Main \/ "full_stop" # "full_stop"
    BY RecordAssumption
  <2>7. QED
    BY <1>0, <2>4, <2>5, <2>6, CallsTo
<1>2. /\ ff.stopping /\ ff' = [ff EXCEPT !.packets = Tail(@)]
      /\ UNCHANGED <<output, disk, app, server>>
  BY DEF ProcessPacket, Outside, Due
<1>3. Stopper' = Stopper
  BY <1>0, <1>1 DEF Places, Starts, Orders, Stopper
<1>5. output.dataActive /\ Starter = Dead /\ Stopper = Dead /\ ~ff.stopEvent
      /\ Slot \notin Asking \cup Stopping /\ Leaver \notin {"full_stop"} \cup ForcedLabels \cup Stopping
      /\ Writer = "process_packet" /\ Writer' = "full_stop"
  BY <1>0, <1>1, <1>2 DEF Places, Starts, OutputFlags, FfFlags, Orders, Stopper
<1>10. Places'
  BY <1>0, <1>1, <1>2, <1>3, <1>5 DEF Places, FfType
<1>11. Starts'
  BY <1>0, <1>1, <1>2, <1>3, <1>5 DEF Starts, FfType
<1>12. OutputFlags'
  BY <1>0, <1>1, <1>2, <1>3, <1>5 DEF OutputFlags, FfType
<1>13. FfFlags'
  BY <1>0, <1>1, <1>2, <1>3, <1>5 DEF FfFlags, FfType
<1>14. Writers'
  BY <1>0, <1>1, <1>2, <1>3, <1>5 DEF Writers, FfType
<1>15. Orders'
  BY <1>0, <1>1, <1>2, <1>3, <1>5 DEF Orders, FfType
<1>16. View'
  BY <1>0, <1>1, <1>2, <1>3, <1>5 DEF View, FfType
<1>17. Files'
  BY <1>0, <1>1, <1>2, <1>3, <1>5 DEF Files, FfType
<1>18. Leftover'
  BY <1>0, <1>1, <1>2, <1>3, <1>5 DEF Leftover, FfType
<1>19. QED
  BY <1>1, <1>10, <1>11, <1>12, <1>13, <1>14, <1>15, <1>16, <1>17, <1>18 DEF Settled,
     Flags

\* The write thread finds that it is to stop.
LEMMA WriteStoppedSettles ==
  ASSUME TypeOK, Settled, Patient, NEW w \in WriteThreads, WriteWait(w), ff.stopEvent
  PROVE  Settled'
<1>0. /\ Frames /\ Single /\ Places /\ Starts /\ OutputFlags /\ FfFlags
      /\ Writers /\ Orders /\ View /\ Files /\ Leftover
      /\ output \in OutputType /\ ff \in FfType /\ app \in AppType
      /\ server \in ServerType
  BY DEF TypeOK, Settled, Flags
<1>1. Go("write_wait", "write_return") /\ Frames' /\ Single' /\ Kept
  <2>1. FramesAt(w, "write_wait") \subseteq FramesAt(w, "write_return")
    BY RecordAssumption DEF FramesAt
  <2>2. SameHandles
    BY <1>0 DEF WriteWait, SameHandles, Silent, Outside, FfType, OutputType
  <2>3. Goto(w, "write_return") /\ pc[w] = "write_wait" /\ w \in Threads
    BY <1>0, RecordAssumption DEF WriteWait, Callers
  <2>4. QED
    BY <1>0, <2>1, <2>2, <2>3, GoesTo
<1>2. /\ ff.stopEvent /\ ff' = [ff EXCEPT !.writeSem = @ - 1, !.stopEvent = FALSE]
      /\ UNCHANGED <<output, disk, app, server>>
  BY DEF WriteWait, Silent, Outside
<1>3. Stopper' = Stopper
  BY <1>0, <1>1 DEF Places, Starts, Orders, Stopper
<1>9. /\ Writer = "write_wait" /\ Writer' = "write_return"
      /\ UNCHANGED <<Starter, Ender, Slot, Leaver>> /\ Kept
  BY <1>0, <1>1 DEF Places
<1>10. Places'
  BY <1>0, <1>2, <1>3, <1>9 DEF Places, FfType
<1>11. Starts'
  BY <1>0, <1>2, <1>3, <1>9 DEF Places, Starts, FfFlags, Writers, Orders, FfType
<1>12. OutputFlags'
  BY <1>0, <1>2, <1>3, <1>9 DEF OutputFlags, FfType
<1>13. FfFlags'
  BY <1>0, <1>2, <1>3, <1>9 DEF FfFlags, FfType
<1>14. Writers'
  BY <1>0, <1>2, <1>3, <1>9 DEF Places, Starts, OutputFlags, FfFlags, Writers, Orders,
     FfType
<1>15. Orders'
  BY <1>0, <1>2, <1>3, <1>9 DEF Orders, FfType
<1>16. View'
  BY <1>0, <1>2, <1>3, <1>9 DEF View, FfType
<1>17. Files'
  BY <1>0, <1>2, <1>3, <1>9 DEF Files, FfType
<1>18. Leftover'
  BY <1>0, <1>2, <1>3, <1>9 DEF Leftover, FfType
<1>19. QED
  BY <1>1, <1>10, <1>11, <1>12, <1>13, <1>14, <1>15, <1>16, <1>17, <1>18 DEF Settled,
     Flags

\* It is woken for a packet.
LEMMA WriteWokenSettles ==
  ASSUME TypeOK, Settled, Patient, NEW w \in WriteThreads, WriteWait(w), ~ff.stopEvent
  PROVE  Settled'
<1>0. /\ Frames /\ Single /\ Places /\ Starts /\ OutputFlags /\ FfFlags
      /\ Writers /\ Orders /\ View /\ Files /\ Leftover
      /\ output \in OutputType /\ ff \in FfType /\ app \in AppType
      /\ server \in ServerType
  BY DEF TypeOK, Settled, Flags
<1>1. Go("write_wait", "process_packet") /\ Frames' /\ Single' /\ Kept
  <2>1. FramesAt(w, "write_wait") \subseteq FramesAt(w, "process_packet")
    BY RecordAssumption DEF FramesAt
  <2>2. SameHandles
    BY <1>0 DEF WriteWait, SameHandles, Silent, Outside, FfType, OutputType
  <2>3. Goto(w, "process_packet") /\ pc[w] = "write_wait" /\ w \in Threads
    BY <1>0, RecordAssumption DEF WriteWait, Callers
  <2>4. QED
    BY <1>0, <2>1, <2>2, <2>3, GoesTo
<1>2. /\ ~ff.stopEvent /\ ff' = [ff EXCEPT !.writeSem = @ - 1, !.stopEvent = FALSE]
      /\ UNCHANGED <<output, disk, app, server>>
  BY DEF WriteWait, Silent, Outside
<1>3. Stopper' = Stopper
  BY <1>0, <1>1 DEF Places, Starts, Orders, Stopper
<1>9. /\ Writer = "write_wait" /\ Writer' = "process_packet"
      /\ UNCHANGED <<Starter, Ender, Slot, Leaver>> /\ Kept
  BY <1>0, <1>1 DEF Places
<1>10. Places'
  BY <1>0, <1>2, <1>3, <1>9 DEF Places, FfType
<1>11. Starts'
  BY <1>0, <1>2, <1>3, <1>9 DEF Starts, FfType
<1>12. OutputFlags'
  BY <1>0, <1>2, <1>3, <1>9 DEF OutputFlags, FfType
<1>13. FfFlags'
  <2>1. (ff.connecting = (Starter # Dead /\ Slot # "set_connecting"))'
    BY <1>0, <1>2, <1>3, <1>9 DEF Places, Starts, OutputFlags, FfFlags, FfType
  <2>2. (ff.active = (Starter \in {"can_begin", "create_writer"} \/ Writer # Dead))'
    BY <1>0, <1>2, <1>3, <1>9 DEF Places, Starts, OutputFlags, FfFlags, FfType
  <2>3. (ff.writeThreadActive = \/ Starter \in {"start_return", Dead} /\ output.dataActive
                                \/ Stopper \in Creating \cup {"end_signal"} \cup Joining)'
    BY <1>0, <1>2, <1>3, <1>9 DEF Places, Starts, OutputFlags, FfFlags, FfType
  <2>4. (IF Starter \in Opened \/ output.dataActive \/ Stopper # Dead
           THEN ff.data = app.filePath /\ ff.data # NoFile ELSE ff.data = NoFile)'
    BY <1>0, <1>2, <1>3, <1>9 DEF Places, Starts, OutputFlags, FfFlags, FfType
  <2>5. (ff.stopEvent => \/ Stopper = "join_writer"
                         \/ Writer \in Freeing
                         \/ /\ Stopper = Dead /\ Starter = Dead
                            /\ ff.stopping /\ Writer = "write_wait")'
    BY <1>0, <1>2, <1>3, <1>9 DEF Places, Starts, OutputFlags, FfFlags, FfType
  <2>6. (Writer \in Freeing => ff.stopEvent)'
    BY <1>0, <1>2, <1>3, <1>9 DEF Places, Starts, OutputFlags, FfFlags, FfType
  <2>7. (Writer \in {"process_packet", "write_frame"} => ff.data # NoFile)'
    BY <1>0, <1>2, <1>3, <1>9 DEF Places, Starts, OutputFlags, FfFlags, FfType
  <2>8. QED
    BY <2>1, <2>2, <2>3, <2>4, <2>5, <2>6, <2>7 DEF FfFlags
<1>14. Writers'
  BY <1>0, <1>2, <1>3, <1>9 DEF Writers, FfType
<1>15. Orders'
  BY <1>0, <1>2, <1>3, <1>9 DEF Orders, FfType
<1>16. View'
  BY <1>0, <1>2, <1>3, <1>9 DEF View, FfType
<1>17. Files'
  BY <1>0, <1>2, <1>3, <1>9 DEF Files, FfType
<1>18. Leftover'
  BY <1>0, <1>2, <1>3, <1>9 DEF Leftover, FfType
<1>19. QED
  BY <1>1, <1>10, <1>11, <1>12, <1>13, <1>14, <1>15, <1>16, <1>17, <1>18 DEF Settled,
     Flags

\* The server asks for a stop.
LEMMA StopAskedSettles ==
  ASSUME TypeOK, Settled, Patient, StopRecording(FALSE)
  PROVE  Settled'
<1>0. /\ Frames /\ Single /\ Places /\ Starts /\ OutputFlags /\ FfFlags
      /\ Writers /\ Orders /\ View /\ Files /\ Leftover
      /\ output \in OutputType /\ ff \in FfType /\ app \in AppType
      /\ server \in ServerType
  BY DEF TypeOK, Settled, Flags
<1>4. /\ server.view = "recording" /\ Starter = Dead /\ Leaver = "loop" /\ output.active
      /\ output.dataActive /\ Stopper = Dead /\ Writer \in WriteLabels /\ ~ff.stopping
  <2>1. server.view = "recording" /\ Live(StartThreads) = {} /\ ~app.quitting
    BY DEF StopRecording, StopPermitted, Patient
  <2>2. Starter = Dead /\ Leaver = "loop"
    BY <1>0, <2>1 DEF Starter, At, Orders
  <2>3. /\ output.dataActive /\ Stopper = Dead /\ ~ff.stopping
    BY <1>0, <2>1, <2>2 DEF View, OutputType
  <2>4. output.active /\ Writer \in WriteLabels
    BY <1>0, <2>2, <2>3 DEF OutputFlags, Places, Stopper, Writers, OutputType
  <2>5. QED
    BY <2>1, <2>2, <2>3, <2>4
<1>1. Go("idle", "obs_stop") /\ Frames' /\ Single' /\ Kept
  <2>1. stack[OBS] = <<>>
    BY <1>0, <1>4, RecordAssumption DEF StopRecording, Frames, FramesAt
  <2>2. <<"idle">> \o stack[OBS] = <<"idle">>
    BY <2>1, Push2, Push3
  <2>3. <<"idle">> \in FramesAt(OBS, "obs_stop")
    BY <1>4, RecordAssumption DEF FramesAt
  <2>4. /\ SameHandles /\ OBS \in Threads /\ pc[OBS] = "idle"
        /\ Call(OBS, "obs_stop", "idle")
    BY <1>0, <1>4, RecordAssumption DEF StopRecording, Callers, SameHandles, FfType,
       OutputType
  <2>5. <<"idle">> \o stack[OBS] \in FramesAt(OBS, "obs_stop")
    BY <2>2, <2>3
  <2>6. OBS # Main \/ "obs_stop" # "full_stop"
    BY RecordAssumption
  <2>7. QED
    BY <1>0, <2>4, <2>5, <2>6, CallsTo
<1>2. /\ server' = [server EXCEPT !.commands = @ + 1, !.view = "stopping"]
      /\ UNCHANGED <<output, ff, disk, app>>
  BY <1>4 DEF StopRecording
<1>3. Stopper' = Stopper
  BY <1>0, <1>1 DEF Places, Starts, Orders, Stopper
<1>5. /\ Slot = "idle" /\ Slot' = "obs_stop"
      /\ UNCHANGED <<Starter, Writer, Ender, Leaver>>
  BY <1>0, <1>1, <1>4 DEF Places
<1>10. Places'
  BY <1>0, <1>1, <1>2, <1>3, <1>4, <1>5 DEF Places, ServerType
<1>11. Starts'
  BY <1>0, <1>1, <1>2, <1>3, <1>4, <1>5 DEF Starts, ServerType
<1>12. OutputFlags'
  BY <1>0, <1>1, <1>2, <1>3, <1>4, <1>5 DEF OutputFlags, ServerType
<1>13. FfFlags'
  BY <1>0, <1>1, <1>2, <1>3, <1>4, <1>5 DEF FfFlags, ServerType
<1>14. Writers'
  BY <1>0, <1>1, <1>2, <1>3, <1>4, <1>5 DEF Writers, ServerType
<1>15. Orders'
  BY <1>0, <1>1, <1>2, <1>3, <1>4, <1>5 DEF Orders, ServerType
<1>16. View'
  BY <1>0, <1>1, <1>2, <1>3, <1>4, <1>5, OneNotice DEF View, ServerType
<1>17. Files'
  BY <1>0, <1>1, <1>2, <1>3, <1>4, <1>5 DEF Files, ServerType
<1>18. Leftover'
  BY <1>0, <1>1, <1>2, <1>3, <1>4, <1>5 DEF Leftover, ServerType
<1>19. QED
  BY <1>1, <1>10, <1>11, <1>12, <1>13, <1>14, <1>15, <1>16, <1>17, <1>18 DEF Settled,
     Flags

\* The server asks for a forced stop.
LEMMA ForceAskedSettles ==
  ASSUME TypeOK, Settled, Patient, StopRecording(TRUE)
  PROVE  Settled'
<1>0. /\ Frames /\ Single /\ Places /\ Starts /\ OutputFlags /\ FfFlags
      /\ Writers /\ Orders /\ View /\ Files /\ Leftover
      /\ output \in OutputType /\ ff \in FfType /\ app \in AppType
      /\ server \in ServerType
  BY DEF TypeOK, Settled, Flags
<1>4. /\ server.view = "recording" /\ Starter = Dead /\ Leaver = "loop" /\ output.active
      /\ output.dataActive /\ Stopper = Dead /\ Writer \in WriteLabels /\ ~ff.stopping
  <2>1. server.view = "recording" /\ Live(StartThreads) = {} /\ ~app.quitting
    BY DEF StopRecording, StopPermitted, Patient
  <2>2. Starter = Dead /\ Leaver = "loop"
    BY <1>0, <2>1 DEF Starter, At, Orders
  <2>3. /\ output.dataActive /\ Stopper = Dead /\ ~ff.stopping
    BY <1>0, <2>1, <2>2 DEF View, OutputType
  <2>4. output.active /\ Writer \in WriteLabels
    BY <1>0, <2>2, <2>3 DEF OutputFlags, Places, Stopper, Writers, OutputType
  <2>5. QED
    BY <2>1, <2>2, <2>3, <2>4
<1>1. Go("idle", "obs_force_stop") /\ Frames' /\ Single' /\ Kept
  <2>1. stack[OBS] = <<>>
    BY <1>0, <1>4, RecordAssumption DEF StopRecording, Frames, FramesAt
  <2>2. <<"idle">> \o stack[OBS] = <<"idle">>
    BY <2>1, Push2, Push3
  <2>3. <<"idle">> \in FramesAt(OBS, "obs_force_stop")
    BY <1>4, RecordAssumption DEF FramesAt
  <2>4. /\ SameHandles /\ OBS \in Threads /\ pc[OBS] = "idle"
        /\ Call(OBS, "obs_force_stop", "idle")
    BY <1>0, <1>4, RecordAssumption DEF StopRecording, Callers, SameHandles, FfType,
       OutputType
  <2>5. <<"idle">> \o stack[OBS] \in FramesAt(OBS, "obs_force_stop")
    BY <2>2, <2>3
  <2>6. OBS # Main \/ "obs_force_stop" # "full_stop"
    BY RecordAssumption
  <2>7. QED
    BY <1>0, <2>4, <2>5, <2>6, CallsTo
<1>2. /\ server' = [server EXCEPT !.commands = @ + 1, !.view = "stopping"]
      /\ UNCHANGED <<output, ff, disk, app>>
  BY <1>4 DEF StopRecording
<1>3. Stopper' = Stopper
  BY <1>0, <1>1 DEF Places, Starts, Orders, Stopper
<1>5. /\ Slot = "idle" /\ Slot' = "obs_force_stop"
      /\ UNCHANGED <<Starter, Writer, Ender, Leaver>>
  BY <1>0, <1>1, <1>4 DEF Places
<1>10. Places'
  BY <1>0, <1>1, <1>2, <1>3, <1>4, <1>5 DEF Places, ServerType
<1>11. Starts'
  BY <1>0, <1>1, <1>2, <1>3, <1>4, <1>5 DEF Starts, ServerType
<1>12. OutputFlags'
  BY <1>0, <1>1, <1>2, <1>3, <1>4, <1>5 DEF OutputFlags, ServerType
<1>13. FfFlags'
  BY <1>0, <1>1, <1>2, <1>3, <1>4, <1>5 DEF FfFlags, ServerType
<1>14. Writers'
  BY <1>0, <1>1, <1>2, <1>3, <1>4, <1>5 DEF Writers, ServerType
<1>15. Orders'
  BY <1>0, <1>1, <1>2, <1>3, <1>4, <1>5 DEF Orders, ServerType
<1>16. View'
  BY <1>0, <1>1, <1>2, <1>3, <1>4, <1>5, OneNotice DEF View, ServerType
<1>17. Files'
  BY <1>0, <1>1, <1>2, <1>3, <1>4, <1>5 DEF Files, ServerType
<1>18. Leftover'
  BY <1>0, <1>1, <1>2, <1>3, <1>4, <1>5 DEF Leftover, ServerType
<1>19. QED
  BY <1>1, <1>10, <1>11, <1>12, <1>13, <1>14, <1>15, <1>16, <1>17, <1>18 DEF Settled,
     Flags

\* The output is destroyed while it is active.
LEMMA DestroyActiveSettles ==
  ASSUME TypeOK, Settled, Patient, NEW t \in Callers, Destroy(t), Silent, output.active
  PROVE  Settled'
<1>0. /\ Frames /\ Single /\ Places /\ Starts /\ OutputFlags /\ FfFlags
      /\ Writers /\ Orders /\ View /\ Files /\ Leftover
      /\ output \in OutputType /\ ff \in FfType /\ app \in AppType
      /\ server \in ServerType
  BY DEF TypeOK, Settled, Flags
<1>4. t = Main
  BY <1>0, Stands DEF Destroy, Callers, Places
<1>1. Go("destroy", "actual_force_stop") /\ Frames' /\ Single' /\ Kept
  <2>1. stack[t] = <<"exited">>
    BY <1>0, <1>4, RecordAssumption DEF Destroy, Frames, FramesAt
  <2>2. <<"destroy_wait">> \o stack[t] = <<"destroy_wait", "exited">>
    BY <2>1, Push2, Push3
  <2>3. <<"destroy_wait", "exited">> \in FramesAt(t, "actual_force_stop")
    BY <1>4, RecordAssumption DEF FramesAt
  <2>4. /\ SameHandles /\ t \in Threads /\ pc[t] = "destroy"
        /\ Call(t, "actual_force_stop", "destroy_wait")
    BY <1>0, <1>4, RecordAssumption DEF Destroy, Callers, SameHandles, Silent,
       OutputType
  <2>5. <<"destroy_wait">> \o stack[t] \in FramesAt(t, "actual_force_stop")
    BY <2>2, <2>3
  <2>6. t # Main \/ "actual_force_stop" # "full_stop"
    BY RecordAssumption
  <2>7. QED
    BY <1>0, <2>4, <2>5, <2>6, CallsTo
<1>2. output.active /\ UNCHANGED <<output, ff, disk, app, server>>
  BY DEF Destroy, Silent
<1>3. Stopper' = Stopper
  BY <1>0, <1>1 DEF Places, Starts, Orders, Stopper
<1>10. Places'
  BY <1>0, <1>1, <1>2, <1>3 DEF Places
<1>11. Starts'
  BY <1>0, <1>1, <1>2, <1>3 DEF Starts
<1>12. OutputFlags'
  BY <1>0, <1>1, <1>2, <1>3 DEF OutputFlags
<1>13. FfFlags'
  BY <1>0, <1>1, <1>2, <1>3 DEF FfFlags
<1>14. Writers'
  BY <1>0, <1>1, <1>2, <1>3 DEF Writers
<1>15. Orders'
  BY <1>0, <1>1, <1>2, <1>3 DEF Places, OutputFlags, Orders
<1>16. View'
  BY <1>0, <1>1, <1>2, <1>3 DEF Places, View
<1>17. Files'
  BY <1>0, <1>1, <1>2, <1>3 DEF Orders, View, Files
<1>18. Leftover'
  BY <1>0, <1>1, <1>2, <1>3 DEF Leftover
<1>19. QED
  BY <1>1, <1>10, <1>11, <1>12, <1>13, <1>14, <1>15, <1>16, <1>17, <1>18 DEF Settled,
     Flags

\* It is destroyed when it is not.
LEMMA DestroyIdleSettles ==
  ASSUME TypeOK, Settled, Patient, NEW t \in Callers, Destroy(t), Silent, ~output.active
  PROVE  Settled'
<1>0. /\ Frames /\ Single /\ Places /\ Starts /\ OutputFlags /\ FfFlags
      /\ Writers /\ Orders /\ View /\ Files /\ Leftover
      /\ output \in OutputType /\ ff \in FfType /\ app \in AppType
      /\ server \in ServerType
  BY DEF TypeOK, Settled, Flags
<1>1. Go("destroy", "destroy_wait") /\ Frames' /\ Single' /\ Kept
  <2>1. FramesAt(t, "destroy") \subseteq FramesAt(t, "destroy_wait")
    BY RecordAssumption DEF FramesAt
  <2>2. QED
    BY <1>0, <2>1, GoesTo, RecordAssumption
       DEF Destroy, Callers, SameHandles, Silent, Outside, FfType, OutputType
<1>2. ~output.active /\ UNCHANGED <<output, ff, disk, app, server>>
  BY DEF Destroy, Silent
<1>3. Stopper' = Stopper
  BY <1>0, <1>1 DEF Places, Starts, Orders, Stopper
<1>10. Places'
  BY <1>0, <1>1, <1>2, <1>3 DEF Places, OutputType
<1>11. Starts'
  BY <1>0, <1>1, <1>2, <1>3 DEF Starts, OutputType
<1>12. OutputFlags'
  BY <1>0, <1>1, <1>2, <1>3 DEF OutputFlags, OutputType
<1>13. FfFlags'
  BY <1>0, <1>1, <1>2, <1>3 DEF FfFlags, OutputType
<1>14. Writers'
  BY <1>0, <1>1, <1>2, <1>3 DEF Writers, OutputType
<1>15. Orders'
  <2>1. (Slot \in {"actual_start", "plugin_start"} => Down /\ app.filePath # NoFile)'
    BY <1>0, <1>1, <1>2, <1>3 DEF OutputFlags, Orders, OutputType
  <2>2. (Slot = "set_connecting" => Starter # Dead)'
    BY <1>0, <1>1, <1>2, <1>3 DEF OutputFlags, Orders, OutputType
  <2>3. (Slot \in Asking => /\ output.dataActive /\ Starter = Dead
                            /\ Writer \in WriteLabels)'
    BY <1>0, <1>1, <1>2, <1>3 DEF OutputFlags, Orders, OutputType
  <2>4. (Slot \in Asking \cup Stopping => ~ff.stopping)'
    BY <1>0, <1>1, <1>2, <1>3 DEF OutputFlags, Orders, OutputType
  <2>5. (Slot \in Asking \cup Stopping \cup {"set_stop_ts"} => Starter = Dead /\ Leaver = "loop")'
    BY <1>0, <1>1, <1>2, <1>3 DEF OutputFlags, Orders, OutputType
  <2>6. (Slot = "set_stop_ts" => ff.stopping)'
    BY <1>0, <1>1, <1>2, <1>3 DEF OutputFlags, Orders, OutputType
  <2>7. (Leaver # "loop" => /\ Slot \in {"idle", Dead} /\ Starter = Dead
                            /\ output.dataActive => ~ff.stopping)'
    BY <1>0, <1>1, <1>2, <1>3 DEF OutputFlags, Orders, OutputType
  <2>8. (app.quitting <=> Leaver # "loop")'
    BY <1>0, <1>1, <1>2, <1>3 DEF OutputFlags, Orders, OutputType
  <2>9. (Leaver = "loop" => Slot # Dead)'
    BY <1>0, <1>1, <1>2, <1>3 DEF OutputFlags, Orders, OutputType
  <2>10. (Leaver \notin {"loop", "wait_thread"} => Slot = Dead)'
    BY <1>0, <1>1, <1>2, <1>3 DEF OutputFlags, Orders, OutputType
  <2>11. (app.connected <=> Leaver \in {"loop", "wait_thread"})'
    BY <1>0, <1>1, <1>2, <1>3 DEF OutputFlags, Orders, OutputType
  <2>12. (Leaver \in {"wait_thread", "destroy"} \cup ForcedLabels => Ender = Dead)'
    BY <1>0, <1>1, <1>2, <1>3 DEF OutputFlags, Orders, OutputType
  <2>13. (Leaver = "wait_thread" => Stopper = Dead)'
    BY <1>0, <1>1, <1>2, <1>3 DEF OutputFlags, Orders, OutputType
  <2>14. (Leaver \in {"wait_thread", "destroy",
         "full_stop"} => Down \/ output.dataActive)'
    BY <1>0, <1>1, <1>2, <1>3 DEF OutputFlags, Orders, OutputType
  <2>15. (Leaver \in ForcedLabels => output.dataActive)'
    BY <1>0, <1>1, <1>2, <1>3 DEF OutputFlags, Orders, OutputType
  <2>16. (Leaver \in Stopping => ~ff.stopping)'
    BY <1>0, <1>1, <1>2, <1>3 DEF OutputFlags, Orders, OutputType
  <2>17. (Leaver \in {"destroy_wait", "destroy_join", "plugin_destroy", "exited"} =>
              Writer = Dead /\ ~output.dataActive /\ Stopper = Dead)'
    BY <1>0, <1>1, <1>2, <1>3 DEF OutputFlags, Orders, OutputType
  <2>18. (Leaver = "full_stop" => (Short <=> ~output.dataActive))'
    BY <1>0, <1>1, <1>2, <1>3 DEF OutputFlags, Orders, OutputType
  <2>19. (Leaver \in {"plugin_destroy", "exited"} => Ender = Dead)'
    BY <1>0, <1>1, <1>2, <1>3 DEF OutputFlags, Orders, OutputType
  <2>20. QED
    BY <2>1, <2>2, <2>3, <2>4, <2>5, <2>6, <2>7, <2>8, <2>9, <2>10, <2>11, <2>12, <2>13,
       <2>14, <2>15, <2>16, <2>17, <2>18, <2>19 DEF Orders
<1>16. View'
  BY <1>0, <1>1, <1>2, <1>3 DEF View, OutputType
<1>17. Files'
  BY <1>0, <1>1, <1>2, <1>3 DEF Orders, View, Files, OutputType
<1>18. Leftover'
  BY <1>0, <1>1, <1>2, <1>3 DEF Leftover, OutputType
<1>19. QED
  BY <1>1, <1>10, <1>11, <1>12, <1>13, <1>14, <1>15, <1>16, <1>17, <1>18 DEF Settled,
     Flags

\* The slot forces the output type to stop.
LEMMA PluginForceSettles ==
  ASSUME TypeOK, Settled, Patient, NEW t \in Callers, FfmpegForceStop(t), t # Main
  PROVE  Settled'
<1>0. /\ Frames /\ Single /\ Places /\ Starts /\ OutputFlags /\ FfFlags
      /\ Writers /\ Orders /\ View /\ Files /\ Leftover
      /\ output \in OutputType /\ ff \in FfType /\ app \in AppType
      /\ server \in ServerType
  BY DEF TypeOK, Settled, Flags
<1>4. ff.active
  BY <1>0, Stands DEF FfmpegForceStop, Callers, Places, FfFlags, Orders, FfType
<1>1. Go("plugin_force_stop", "full_stop") /\ Frames' /\ Single' /\ Kept
  <2>1. FramesAt(t, "plugin_force_stop") \subseteq FramesAt(t, "full_stop")
    BY <1>4, RecordAssumption DEF FramesAt
  <2>2. QED
    BY <1>0, <1>4, <2>1, GoesTo, RecordAssumption
       DEF FfmpegForceStop, Callers, SameHandles, Silent, Outside, FfType, OutputType
<1>2. UNCHANGED <<output, ff, disk, app, server>>
  BY <1>4 DEF FfmpegForceStop, Silent, Outside
<1>3. Stopper' = Stopper
  BY <1>0, <1>1 DEF Places, Starts, Orders, Stopper
<1>10. Places'
  BY <1>0, <1>1, <1>2, <1>3 DEF Places
<1>11. Starts'
  BY <1>0, <1>1, <1>2, <1>3 DEF Starts
<1>12. OutputFlags'
  BY <1>0, <1>1, <1>2, <1>3 DEF OutputFlags
<1>13. FfFlags'
  BY <1>0, <1>1, <1>2, <1>3 DEF FfFlags
<1>14. Writers'
  BY <1>0, <1>1, <1>2, <1>3 DEF Places, Writers
<1>15. Orders'
  BY <1>0, <1>1, <1>2, <1>3 DEF Orders
<1>16. View'
  BY <1>0, <1>1, <1>2, <1>3 DEF View
<1>17. Files'
  BY <1>0, <1>1, <1>2, <1>3 DEF Files
<1>18. Leftover'
  BY <1>0, <1>1, <1>2, <1>3 DEF Leftover
<1>19. QED
  BY <1>1, <1>10, <1>11, <1>12, <1>13, <1>14, <1>15, <1>16, <1>17, <1>18 DEF Settled,
     Flags

\* The main thread does.
LEMMA PluginForceMainSettles ==
  ASSUME TypeOK, Settled, Patient, NEW t \in Callers, FfmpegForceStop(t), t = Main
  PROVE  Settled'
<1>0. /\ Frames /\ Single /\ Places /\ Starts /\ OutputFlags /\ FfFlags
      /\ Writers /\ Orders /\ View /\ Files /\ Leftover
      /\ output \in OutputType /\ ff \in FfType /\ app \in AppType
      /\ server \in ServerType
  BY DEF TypeOK, Settled, Flags
<1>4. ff.active
  BY <1>0, Stands DEF FfmpegForceStop, Callers, Places, FfFlags, Orders, FfType,
     OutputFlags
<1>1. /\ Leaver = "plugin_force_stop" /\ Leaver' = "full_stop" /\ ~Short'
      /\ UNCHANGED <<Starter, Writer, Ender, Slot>> /\ Frames' /\ Single'
  <2>1. Goto(t, "full_stop") /\ pc[t] = "plugin_force_stop" /\ t \in Threads
    BY <1>4, RecordAssumption DEF FfmpegForceStop, Callers
  <2>2. FramesAt(t, "plugin_force_stop") \subseteq FramesAt(t, "full_stop")
    BY RecordAssumption DEF FramesAt
  <2>3. SameHandles
    BY DEF FfmpegForceStop, SameHandles, Outside
  <2>4. Go("plugin_force_stop", "full_stop") /\ Frames' /\ Single'
    BY <1>0, <2>1, <2>2, <2>3, GoesTo
  <2>5. Leaver = "plugin_force_stop" /\ Leaver' = "full_stop"
    BY <2>1, RecordAssumption DEF Leaver, Goto, TypeOK, ControlOK
  <2>6. stack[t] = <<"destroy_wait", "exited">> /\ UNCHANGED stack
    BY <1>0, <2>1, RecordAssumption DEF Frames, FramesAt, Goto
  <2>7. ~Short'
    BY <2>6 DEF Short
  <2>8. Slot # "plugin_force_stop"
    BY <1>0, <2>5 DEF Orders
  <2>9. QED
    BY <1>0, <2>4, <2>5, <2>7, <2>8 DEF Places
<1>2. UNCHANGED <<output, ff, disk, app, server>>
  BY <1>4 DEF FfmpegForceStop, Silent, Outside
<1>3. Stopper' = Stopper
  BY <1>0, <1>1, <1>4 DEF Places, Starts, Orders, Stopper
<1>10. Places'
  BY <1>0, <1>1, <1>2, <1>3 DEF Places
<1>11. Starts'
  BY <1>0, <1>1, <1>2, <1>3 DEF Starts
<1>12. OutputFlags'
  BY <1>0, <1>1, <1>2, <1>3 DEF Places, OutputFlags, Orders
<1>13. FfFlags'
  BY <1>0, <1>1, <1>2, <1>3 DEF FfFlags
<1>14. Writers'
  BY <1>0, <1>1, <1>2, <1>3 DEF Writers
<1>15. Orders'
  BY <1>0, <1>1, <1>2, <1>3 DEF Orders
<1>16. View'
  BY <1>0, <1>1, <1>2, <1>3 DEF View
<1>17. Files'
  BY <1>0, <1>1, <1>2, <1>3 DEF Files
<1>18. Leftover'
  BY <1>0, <1>1, <1>2, <1>3 DEF Leftover
<1>19. QED
  BY <1>1, <1>10, <1>11, <1>12, <1>13, <1>14, <1>15, <1>16, <1>17, <1>18 DEF Settled,
     Flags

\* The output type is destroyed.
LEMMA FfmpegDestroySettles ==
  ASSUME TypeOK, Settled, Patient, FfmpegDestroy
  PROVE  Settled'
<1>0. /\ Frames /\ Single /\ Places /\ Starts /\ OutputFlags /\ FfFlags
      /\ Writers /\ Orders /\ View /\ Files /\ Leftover
      /\ output \in OutputType /\ ff \in FfType /\ app \in AppType
      /\ server \in ServerType
  BY DEF TypeOK, Settled, Flags
<1>4. TRUE
  OBVIOUS
<1>1. /\ Leaver = "plugin_destroy" /\ Leaver' = "full_stop" /\ Short'
      /\ UNCHANGED <<Starter, Writer, Ender, Slot>> /\ Frames' /\ Single'
  <2>1. Goto(Main, "full_stop") /\ pc[Main] = "plugin_destroy" /\ Main \in Threads
    BY RecordAssumption DEF FfmpegDestroy
  <2>2. FramesAt(Main, "plugin_destroy") \subseteq FramesAt(Main, "full_stop")
    BY RecordAssumption DEF FramesAt
  <2>3. SameHandles
    BY DEF FfmpegDestroy, SameHandles, Outside
  <2>4. Go("plugin_destroy", "full_stop") /\ Frames' /\ Single'
    BY <1>0, <2>1, <2>2, <2>3, GoesTo
  <2>5. Leaver = "plugin_destroy" /\ Leaver' = "full_stop"
    BY <2>1, RecordAssumption DEF Leaver, Goto, TypeOK, ControlOK
  <2>6. stack[Main] = <<"exited">> /\ UNCHANGED stack
    BY <1>0, <2>1, RecordAssumption DEF Frames, FramesAt, Goto
  <2>7. Short'
    BY <2>6 DEF Short
  <2>8. QED
    BY <1>0, <2>4, <2>5, <2>7 DEF Places
<1>2. UNCHANGED <<output, ff, disk, app, server>>
  BY DEF FfmpegDestroy, Outside
<1>3. Stopper' = Stopper
  BY <1>0, <1>1, <1>4 DEF Places, Starts, Orders, Stopper
<1>10. Places'
  BY <1>0, <1>1, <1>2, <1>3 DEF Places
<1>11. Starts'
  BY <1>0, <1>1, <1>2, <1>3 DEF Starts
<1>12. OutputFlags'
  BY <1>0, <1>1, <1>2, <1>3 DEF Places, OutputFlags, Orders
<1>13. FfFlags'
  BY <1>0, <1>1, <1>2, <1>3 DEF FfFlags
<1>14. Writers'
  BY <1>0, <1>1, <1>2, <1>3 DEF Writers
<1>15. Orders'
  BY <1>0, <1>1, <1>2, <1>3 DEF Orders
<1>16. View'
  BY <1>0, <1>1, <1>2, <1>3 DEF View
<1>17. Files'
  BY <1>0, <1>1, <1>2, <1>3 DEF Files
<1>18. Leftover'
  BY <1>0, <1>1, <1>2, <1>3 DEF Leftover
<1>19. QED
  BY <1>1, <1>10, <1>11, <1>12, <1>13, <1>14, <1>15, <1>16, <1>17, <1>18 DEF Settled,
     Flags

\* The OBS thread has quit: the output is released.
LEMMA ThreadWaitedSettles ==
  ASSUME TypeOK, Settled, Patient, ThreadWaited
  PROVE  Settled'
<1>0. /\ Frames /\ Single /\ Places /\ Starts /\ OutputFlags /\ FfFlags
      /\ Writers /\ Orders /\ View /\ Files /\ Leftover
      /\ output \in OutputType /\ ff \in FfType /\ app \in AppType
      /\ server \in ServerType
  BY DEF TypeOK, Settled, Flags
<1>4. Leaver = "wait_thread" /\ Slot = Dead
  BY <1>0 DEF ThreadWaited, SpendsASecond, Orders, Leaver, Slot
<1>1. Go("wait_thread", "destroy") /\ Frames' /\ Single' /\ Kept
  <2>1. stack[Main] = <<>>
    BY <1>0, <1>4, RecordAssumption DEF ThreadWaited, Frames, FramesAt
  <2>2. <<"exited">> \o stack[Main] = <<"exited">>
    BY <2>1, Push2, Push3
  <2>3. <<"exited">> \in FramesAt(Main, "destroy")
    BY <1>4, RecordAssumption DEF FramesAt
  <2>4. /\ SameHandles /\ Main \in Threads /\ pc[Main] = "wait_thread"
        /\ Call(Main, "destroy", "exited")
    BY <1>0, <1>4, RecordAssumption DEF ThreadWaited, Callers, SameHandles, OutputType
  <2>5. <<"exited">> \o stack[Main] \in FramesAt(Main, "destroy")
    BY <2>2, <2>3
  <2>6. Main # Main \/ "destroy" # "full_stop"
    BY RecordAssumption
  <2>7. QED
    BY <1>0, <2>4, <2>5, <2>6, CallsTo
<1>2. app' = [app EXCEPT !.connected = FALSE] /\ UNCHANGED <<output, ff, disk, server>>
  BY DEF ThreadWaited
<1>3. Stopper' = Stopper
  BY <1>0, <1>1 DEF Places, Starts, Orders, Stopper
<1>10. Places'
  BY <1>0, <1>1, <1>2, <1>3, <1>4 DEF Places, AppType
<1>11. Starts'
  BY <1>0, <1>1, <1>2, <1>3, <1>4 DEF Starts, AppType
<1>12. OutputFlags'
  BY <1>0, <1>1, <1>2, <1>3, <1>4 DEF OutputFlags, AppType
<1>13. FfFlags'
  BY <1>0, <1>1, <1>2, <1>3, <1>4 DEF FfFlags, AppType
<1>14. Writers'
  BY <1>0, <1>1, <1>2, <1>3, <1>4 DEF Writers, AppType
<1>15. Orders'
  BY <1>0, <1>1, <1>2, <1>3, <1>4 DEF Places, Orders, AppType
<1>16. View'
  BY <1>0, <1>1, <1>2, <1>3, <1>4 DEF View, AppType
<1>17. Files'
  BY <1>0, <1>1, <1>2, <1>3, <1>4 DEF Files, AppType
<1>18. Leftover'
  BY <1>0, <1>1, <1>2, <1>3, <1>4 DEF Leftover, AppType
<1>19. QED
  BY <1>1, <1>10, <1>11, <1>12, <1>13, <1>14, <1>15, <1>16, <1>17, <1>18 DEF Settled,
     Flags

\* The event loop of the OBS thread ends.
LEMMA ThreadQuitsSettles ==
  ASSUME TypeOK, Settled, Patient, ThreadQuits
  PROVE  Settled'
<1>0. /\ Frames /\ Single /\ Places /\ Starts /\ OutputFlags /\ FfFlags
      /\ Writers /\ Orders /\ View /\ Files /\ Leftover
      /\ output \in OutputType /\ ff \in FfType /\ app \in AppType
      /\ server \in ServerType
  BY DEF TypeOK, Settled, Flags
<1>1. Go("idle", "dead") /\ Frames' /\ Single' /\ Kept
  <2>1. FramesAt(OBS, "idle") \subseteq FramesAt(OBS, "dead")
    BY RecordAssumption DEF FramesAt
  <2>2. QED
    BY <1>0, <2>1, GoesTo, RecordAssumption
       DEF ThreadQuits, Callers, SameHandles, Silent, Outside, FfType, OutputType
<1>2. app.quitting /\ UNCHANGED <<output, ff, disk, app, server>>
  BY DEF ThreadQuits, Outside
<1>3. Stopper' = Stopper
  BY <1>0, <1>1 DEF Places, Starts, Orders, Stopper
<1>10. Places'
  BY <1>0, <1>1, <1>2, <1>3 DEF Places
<1>11. Starts'
  BY <1>0, <1>1, <1>2, <1>3 DEF Places, Starts, Orders
<1>12. OutputFlags'
  BY <1>0, <1>1, <1>2, <1>3 DEF Places, OutputFlags, Orders
<1>13. FfFlags'
  <2>1. (ff.connecting = (Starter # Dead /\ Slot # "set_connecting"))'
    BY <1>0, <1>1, <1>2, <1>3 DEF Places, FfFlags
  <2>2. (ff.active = (Starter \in {"can_begin", "create_writer"} \/ Writer # Dead))'
    BY <1>0, <1>1, <1>2, <1>3 DEF Places, FfFlags
  <2>3. (ff.writeThreadActive = \/ Starter \in {"start_return", Dead} /\ output.dataActive
                                \/ Stopper \in Creating \cup {"end_signal"} \cup Joining)'
    BY <1>0, <1>1, <1>2, <1>3 DEF Places, FfFlags
  <2>4. (IF Starter \in Opened \/ output.dataActive \/ Stopper # Dead
           THEN ff.data = app.filePath /\ ff.data # NoFile ELSE ff.data = NoFile)'
    BY <1>0, <1>1, <1>2, <1>3 DEF Places, FfFlags
  <2>5. (ff.stopEvent => \/ Stopper = "join_writer"
                         \/ Writer \in Freeing
                         \/ /\ Stopper = Dead /\ Starter = Dead
                            /\ ff.stopping /\ Writer = "write_wait")'
    BY <1>0, <1>1, <1>2, <1>3 DEF Places, FfFlags
  <2>6. (Writer \in Freeing => ff.stopEvent)'
    BY <1>0, <1>1, <1>2, <1>3 DEF Places, FfFlags
  <2>7. (Writer \in {"process_packet", "write_frame"} => ff.data # NoFile)'
    BY <1>0, <1>1, <1>2, <1>3 DEF Places, FfFlags
  <2>8. QED
    BY <2>1, <2>2, <2>3, <2>4, <2>5, <2>6, <2>7 DEF FfFlags
<1>14. Writers'
  BY <1>0, <1>1, <1>2, <1>3 DEF Places, Writers
<1>15. Orders'
  BY <1>0, <1>1, <1>2, <1>3 DEF Orders
<1>16. View'
  BY <1>0, <1>1, <1>2, <1>3 DEF Orders, View
<1>17. Files'
  BY <1>0, <1>1, <1>2, <1>3 DEF Files
<1>18. Leftover'
  BY <1>0, <1>1, <1>2, <1>3 DEF Leftover
<1>19. QED
  BY <1>1, <1>10, <1>11, <1>12, <1>13, <1>14, <1>15, <1>16, <1>17, <1>18 DEF Settled,
     Flags

\* The socket drops while nothing, or only a recording, goes on.
LEMMA SocketDropsSettles ==
  ASSUME TypeOK, Settled, Patient, SocketDisconnected
  PROVE  Settled'
<1>0. /\ Frames /\ Single /\ Places /\ Starts /\ OutputFlags /\ FfFlags
      /\ Writers /\ Orders /\ View /\ Files /\ Leftover
      /\ output \in OutputType /\ ff \in FfType /\ app \in AppType
      /\ server \in ServerType
  BY DEF TypeOK, Settled, Flags
<1>1. Go("loop", "wait_thread") /\ Frames' /\ Single' /\ Kept
  <2>1. FramesAt(Main, "loop") \subseteq FramesAt(Main, "wait_thread")
    BY RecordAssumption DEF FramesAt
  <2>2. QED
    BY <1>0, <2>1, GoesTo, RecordAssumption
       DEF SocketDisconnected, Callers, SameHandles, Silent, Outside, FfType, OutputType
<1>2. app' = [app EXCEPT !.quitting = TRUE] /\ UNCHANGED <<output, ff, disk, server>>
  BY DEF SocketDisconnected
<1>3. Stopper' = Stopper
  BY <1>0, <1>1 DEF Places, Starts, Orders, Stopper
<1>5. /\ Slot = "idle" /\ Starter = Dead /\ Ender = Dead /\ Stopper = Dead
      /\ Writer = Dead \/ (output.dataActive /\ server.view = "recording")
      /\ output.dataActive => ~ff.stopping
  <2>1. /\ Slot = "idle" /\ Starter = Dead /\ Ender = Dead /\ Leaver = "loop"
        /\ Writer = Dead \/ server.view = "recording"
    BY DEF SocketDisconnected, Steady, Patient, Drained, Live, At, Starter, Writer,
       Ender, Slot, Leaver
  <2>2. CASE server.view = "recording"
    BY <1>0, <2>1, <2>2 DEF View, OutputType
  <2>3. CASE Writer = Dead
    <3>1. ~output.dataActive
      BY <1>0, <2>1, <2>3 DEF OutputFlags, OutputType
    <3>2. Stopper = Dead
      BY <2>1, <2>3 DEF Stopper
    <3>3. QED
      BY <1>0, <2>1, <2>3, <3>1, <3>2 DEF OutputType, FfType
  <2>4. QED
    BY <2>1, <2>2, <2>3
<1>10. Places'
  BY <1>0, <1>1, <1>2, <1>3, <1>5 DEF Places, AppType
<1>11. Starts'
  BY <1>0, <1>1, <1>2, <1>3, <1>5 DEF Starts, AppType
<1>12. OutputFlags'
  BY <1>0, <1>1, <1>2, <1>3, <1>5 DEF OutputFlags, AppType
<1>13. FfFlags'
  BY <1>0, <1>1, <1>2, <1>3, <1>5 DEF FfFlags, AppType
<1>14. Writers'
  BY <1>0, <1>1, <1>2, <1>3, <1>5 DEF Writers, AppType
<1>15. Orders'
  BY <1>0, <1>1, <1>2, <1>3, <1>5 DEF Places, Orders, AppType
<1>16. View'
  BY <1>0, <1>1, <1>2, <1>3, <1>5 DEF OutputFlags, View, AppType
<1>17. Files'
  BY <1>0, <1>1, <1>2, <1>3, <1>5 DEF Files, AppType
<1>18. Leftover'
  BY <1>0, <1>1, <1>2, <1>3, <1>5 DEF Leftover, AppType
<1>19. QED
  BY <1>1, <1>10, <1>11, <1>12, <1>13, <1>14, <1>15, <1>16, <1>17, <1>18 DEF Settled,
     Flags

\* The server asks for a recording.
LEMMA StartRecordingSettles ==
  ASSUME TypeOK, Settled, Patient, NEW p \in Paths, StartRecording(p)
  PROVE  Settled'
<1>0. /\ Frames /\ Single /\ Places /\ Starts /\ OutputFlags /\ FfFlags
      /\ Writers /\ Orders /\ View /\ Files /\ Leftover
      /\ output \in OutputType /\ ff \in FfType /\ app \in AppType
      /\ server \in ServerType
  BY DEF TypeOK, Settled, Flags
<1>4. /\ server.view = "idle" /\ Starter = Dead /\ Writer = Dead /\ Ender = Dead
      /\ Leaver = "loop" /\ Slot = "idle" /\ Stopper = Dead
  <2>1. server.view = "idle" /\ Drained /\ ~app.quitting /\ Slot = "idle"
    BY DEF StartRecording, StartPermitted, Patient, Slot
  <2>2. Starter = Dead /\ Writer = Dead /\ Ender = Dead
    BY <2>1 DEF Drained, Live, At, Starter, Writer, Ender
  <2>3. QED
    BY <1>0, <2>1, <2>2 DEF Orders, Stopper
<1>1. Go("idle", "actual_start") /\ Frames' /\ Single' /\ Kept
  <2>1. stack[OBS] = <<>>
    BY <1>0, <1>4, RecordAssumption DEF StartRecording, Frames, FramesAt
  <2>2. <<"idle">> \o stack[OBS] = <<"idle">>
    BY <2>1, Push2, Push3
  <2>3. <<"idle">> \in FramesAt(OBS, "actual_start")
    BY <1>4, RecordAssumption DEF FramesAt
  <2>4. /\ SameHandles /\ OBS \in Threads /\ pc[OBS] = "idle"
        /\ Call(OBS, "actual_start", "idle")
    BY <1>0, <1>4, RecordAssumption DEF StartRecording, Callers, SameHandles, OutputType
  <2>5. <<"idle">> \o stack[OBS] \in FramesAt(OBS, "actual_start")
    BY <2>2, <2>3
  <2>6. OBS # Main \/ "actual_start" # "full_stop"
    BY RecordAssumption
  <2>7. QED
    BY <1>0, <2>4, <2>5, <2>6, CallsTo
<1>2. /\ server' = [server EXCEPT !.commands = @ + 1, !.view = "starting"]
      /\ app' = [app EXCEPT !.filePath = p] /\ p # NoFile /\ UNCHANGED <<output, ff, disk>>
  BY RecordAssumption DEF StartRecording
<1>3. Stopper' = Stopper
  BY <1>0, <1>1 DEF Places, Starts, Orders, Stopper
<1>5. Slot' = "actual_start" /\ UNCHANGED <<Starter, Writer, Ender, Leaver>>
  BY <1>1, <1>4
<1>6. ff.data = NoFile /\ Quiet
  <2>1. ~output.dataActive /\ Quiet
    BY <1>0, <1>4 DEF View
  <2>2. QED
    BY <1>0, <1>4, <2>1 DEF FfFlags
<1>10. Places'
  BY <1>0, <1>1, <1>2, <1>3, <1>4, <1>5, <1>6 DEF Places, AppType, ServerType
<1>11. Starts'
  BY <1>0, <1>1, <1>2, <1>3, <1>4, <1>5, <1>6 DEF Starts, AppType, ServerType
<1>12. OutputFlags'
  BY <1>0, <1>1, <1>2, <1>3, <1>4, <1>5, <1>6 DEF OutputFlags, AppType, ServerType
<1>13. FfFlags'
  BY <1>0, <1>1, <1>2, <1>3, <1>4, <1>5, <1>6 DEF FfFlags, AppType, ServerType
<1>14. Writers'
  BY <1>0, <1>1, <1>2, <1>3, <1>4, <1>5, <1>6 DEF Writers, AppType, ServerType
<1>15. Orders'
  BY <1>0, <1>1, <1>2, <1>3, <1>4, <1>5, <1>6 DEF Orders, AppType, ServerType
<1>16. View'
  BY <1>0, <1>1, <1>2, <1>3, <1>4, <1>5, <1>6, OneNotice DEF View, AppType, ServerType
<1>17. Files'
  BY <1>0, <1>1, <1>2, <1>3, <1>4, <1>5, <1>6, OneNotice DEF Files, AppType, ServerType
<1>18. Leftover'
  BY <1>0, <1>1, <1>2, <1>3, <1>4, <1>5, <1>6 DEF Leftover, AppType, ServerType
<1>19. QED
  BY <1>1, <1>10, <1>11, <1>12, <1>13, <1>14, <1>15, <1>16, <1>17, <1>18 DEF Settled,
     Flags

\* The server asks for a recording without a name.
LEMMA StartEmptySettles ==
  ASSUME TypeOK, Settled, Patient, StartRecordingEmpty
  PROVE  Settled'
<1>0. /\ Frames /\ Single /\ Places /\ Starts /\ OutputFlags /\ FfFlags
      /\ Writers /\ Orders /\ View /\ Files /\ Leftover
      /\ output \in OutputType /\ ff \in FfType /\ app \in AppType
      /\ server \in ServerType
  BY DEF TypeOK, Settled, Flags
<1>1. /\ UNCHANGED <<Starter, Writer, Ender, Slot, Leaver>> /\ (Short' <=> Short)
      /\ Frames' /\ Single'
  <2>1. SameHandles /\ UNCHANGED control
    BY <1>0 DEF StartRecordingEmpty, SameHandles, Outside, FfType
  <2>2. QED
    BY <1>0, <2>1, StaysPut
<1>2. /\ server' = [server EXCEPT !.commands = @ + 1, !.view = "idle"]
      /\ UNCHANGED <<output, ff, disk, app>>
  BY DEF StartRecordingEmpty, Outside
<1>3. Stopper' = Stopper
  BY <1>1 DEF Stopper
<1>4. server.view = "idle"
  BY DEF StartRecordingEmpty, StartPermitted, Patient
<1>10. Places'
  BY <1>0, <1>1, <1>2, <1>3, <1>4 DEF Places, ServerType
<1>11. Starts'
  BY <1>0, <1>1, <1>2, <1>3, <1>4 DEF Starts, ServerType
<1>12. OutputFlags'
  BY <1>0, <1>1, <1>2, <1>3, <1>4 DEF OutputFlags, ServerType
<1>13. FfFlags'
  BY <1>0, <1>1, <1>2, <1>3, <1>4 DEF FfFlags, ServerType
<1>14. Writers'
  BY <1>0, <1>1, <1>2, <1>3, <1>4 DEF Writers, ServerType
<1>15. Orders'
  BY <1>0, <1>1, <1>2, <1>3, <1>4 DEF Orders, ServerType
<1>16. View'
  BY <1>0, <1>1, <1>2, <1>3, <1>4 DEF View, ServerType
<1>17. Files'
  BY <1>0, <1>1, <1>2, <1>3, <1>4 DEF Files, ServerType
<1>18. Leftover'
  BY <1>0, <1>1, <1>2, <1>3, <1>4 DEF Leftover, ServerType
<1>19. QED
  BY <1>1, <1>10, <1>11, <1>12, <1>13, <1>14, <1>15, <1>16, <1>17, <1>18 DEF Settled,
     Flags

\* A frame comes.
LEMMA CaptureEnterSettles ==
  ASSUME TypeOK, Settled, Patient, CaptureEnter
  PROVE  Settled'
<1>0. /\ Frames /\ Single /\ Places /\ Starts /\ OutputFlags /\ FfFlags
      /\ Writers /\ Orders /\ View /\ Files /\ Leftover
      /\ output \in OutputType /\ ff \in FfType /\ app \in AppType
      /\ server \in ServerType
  BY DEF TypeOK, Settled, Flags
<1>1. /\ UNCHANGED <<Starter, Writer, Ender, Slot, Leaver>> /\ (Short' <=> Short)
      /\ Frames' /\ Single'
  <2>1. SameHandles /\ UNCHANGED control
    BY <1>0 DEF CaptureEnter, SameHandles, Outside, FfType
  <2>2. QED
    BY <1>0, <2>1, StaysPut
<1>2. /\ output.dataActive /\ ff' = [ff EXCEPT !.inCallback = TRUE]
      /\ UNCHANGED <<output, disk, app, server>>
  BY DEF CaptureEnter, Outside
<1>3. Stopper' = Stopper
  BY <1>1 DEF Stopper
<1>10. Places'
  BY <1>0, <1>1, <1>2, <1>3 DEF Places, FfType
<1>11. Starts'
  BY <1>0, <1>1, <1>2, <1>3 DEF Starts, FfType
<1>12. OutputFlags'
  BY <1>0, <1>1, <1>2, <1>3 DEF OutputFlags, FfType
<1>13. FfFlags'
  BY <1>0, <1>1, <1>2, <1>3 DEF FfFlags, FfType
<1>14. Writers'
  BY <1>0, <1>1, <1>2, <1>3 DEF Writers, FfType
<1>15. Orders'
  BY <1>0, <1>1, <1>2, <1>3 DEF Orders, FfType
<1>16. View'
  BY <1>0, <1>1, <1>2, <1>3 DEF View, FfType
<1>17. Files'
  BY <1>0, <1>1, <1>2, <1>3 DEF Files, FfType
<1>18. Leftover'
  BY <1>0, <1>1, <1>2, <1>3 DEF Leftover, FfType
<1>19. QED
  BY <1>1, <1>10, <1>11, <1>12, <1>13, <1>14, <1>15, <1>16, <1>17, <1>18 DEF Settled,
     Flags

\* Its packet is queued.
LEMMA CapturePushSettles ==
  ASSUME TypeOK, Settled, Patient, NEW when \in {"early", "late"}, CapturePush(when)
  PROVE  Settled'
<1>0. /\ Frames /\ Single /\ Places /\ Starts /\ OutputFlags /\ FfFlags
      /\ Writers /\ Orders /\ View /\ Files /\ Leftover
      /\ output \in OutputType /\ ff \in FfType /\ app \in AppType
      /\ server \in ServerType
  BY DEF TypeOK, Settled, Flags
<1>1. /\ UNCHANGED <<Starter, Writer, Ender, Slot, Leaver>> /\ (Short' <=> Short)
      /\ Frames' /\ Single'
  <2>1. SameHandles /\ UNCHANGED control
    BY <1>0 DEF CapturePush, SameHandles, Outside, FfType
  <2>2. QED
    BY <1>0, <2>1, StaysPut
<1>2. /\ ff.inCallback /\ UNCHANGED <<output, disk, app, server>>
      /\ ff' = [ff EXCEPT !.inCallback = FALSE, !.packets = Append(@, when), !.writeSem = @ + 1]
  BY DEF CapturePush, Outside
<1>3. Stopper' = Stopper
  BY <1>1 DEF Stopper
<1>4. /\ Len(ff'.packets) + (IF ff'.inCallback THEN 1 ELSE 0)
           = Len(ff.packets) + (IF ff.inCallback THEN 1 ELSE 0)
  BY <1>0, <1>2 DEF FfType
<1>10. Places'
  BY <1>0, <1>1, <1>2, <1>3, <1>4 DEF Places, FfType
<1>11. Starts'
  BY <1>0, <1>1, <1>2, <1>3, <1>4 DEF Starts, FfType
<1>12. OutputFlags'
  BY <1>0, <1>1, <1>2, <1>3, <1>4 DEF OutputFlags, FfType
<1>13. FfFlags'
  BY <1>0, <1>1, <1>2, <1>3, <1>4 DEF FfFlags, FfType
<1>14. Writers'
  BY <1>0, <1>1, <1>2, <1>3, <1>4 DEF Writers, FfType
<1>15. Orders'
  BY <1>0, <1>1, <1>2, <1>3, <1>4 DEF Orders, FfType
<1>16. View'
  BY <1>0, <1>1, <1>2, <1>3, <1>4 DEF View, FfType
<1>17. Files'
  BY <1>0, <1>1, <1>2, <1>3, <1>4 DEF Files, FfType
<1>18. Leftover'
  BY <1>0, <1>1, <1>2, <1>3, <1>4 DEF Leftover, FfType
<1>19. QED
  BY <1>1, <1>10, <1>11, <1>12, <1>13, <1>14, <1>15, <1>16, <1>17, <1>18 DEF Settled,
     Flags

\* The file was freed under the callback.
LEMMA CaptureFreedSettles ==
  ASSUME TypeOK, Settled, Patient, CaptureFreed
  PROVE  Settled'
<1>0. /\ Frames /\ Single /\ Places /\ Starts /\ OutputFlags /\ FfFlags
      /\ Writers /\ Orders /\ View /\ Files /\ Leftover
      /\ output \in OutputType /\ ff \in FfType /\ app \in AppType
      /\ server \in ServerType
  BY DEF TypeOK, Settled, Flags
<1>1. /\ UNCHANGED <<Starter, Writer, Ender, Slot, Leaver>> /\ (Short' <=> Short)
      /\ Frames' /\ Single'
  <2>1. SameHandles /\ UNCHANGED control
    BY <1>0 DEF CaptureFreed, SameHandles, Outside, FfType
  <2>2. QED
    BY <1>0, <2>1, StaysPut
<1>2. /\ ff' = [ff EXCEPT !.inCallback = FALSE] /\ UNCHANGED <<output, disk, server>>
      /\ \E c \in BOOLEAN : app' = [app EXCEPT !.crashed = c]
  BY DEF CaptureFreed, Outside
<1>3. Stopper' = Stopper
  BY <1>1 DEF Stopper
<1>10. Places'
  BY <1>0, <1>1, <1>2, <1>3 DEF Places, FfType, AppType
<1>11. Starts'
  BY <1>0, <1>1, <1>2, <1>3 DEF Starts, FfType, AppType
<1>12. OutputFlags'
  BY <1>0, <1>1, <1>2, <1>3 DEF OutputFlags, FfType, AppType
<1>13. FfFlags'
  BY <1>0, <1>1, <1>2, <1>3 DEF FfFlags, FfType, AppType
<1>14. Writers'
  BY <1>0, <1>1, <1>2, <1>3 DEF Writers, FfType, AppType
<1>15. Orders'
  BY <1>0, <1>1, <1>2, <1>3 DEF Orders, FfType, AppType
<1>16. View'
  BY <1>0, <1>1, <1>2, <1>3 DEF View, FfType, AppType
<1>17. Files'
  BY <1>0, <1>1, <1>2, <1>3 DEF Files, FfType, AppType
<1>18. Leftover'
  BY <1>0, <1>1, <1>2, <1>3 DEF Leftover, FfType, AppType
<1>19. QED
  BY <1>1, <1>10, <1>11, <1>12, <1>13, <1>14, <1>15, <1>16, <1>17, <1>18 DEF Settled,
     Flags

\* The server hears that the recording has started.
LEMMA DeliverStartedSettles ==
  ASSUME TypeOK, Settled, Patient, Deliver, Posted(Started), server.view = "starting"
  PROVE  Settled'
<1>0. /\ Frames /\ Single /\ Places /\ Starts /\ OutputFlags /\ FfFlags
      /\ Writers /\ Orders /\ View /\ Files /\ Leftover
      /\ output \in OutputType /\ ff \in FfType /\ app \in AppType
      /\ server \in ServerType
  BY DEF TypeOK, Settled, Flags
<1>1. /\ UNCHANGED <<Starter, Writer, Ender, Slot, Leaver>> /\ (Short' <=> Short)
      /\ Frames' /\ Single'
  <2>1. SameHandles /\ UNCHANGED control
    BY <1>0 DEF Deliver, SameHandles, Outside, FfType
  <2>2. QED
    BY <1>0, <2>1, StaysPut
<1>2. TRUE
  BY DEF Deliver, Outside
<1>3. Stopper' = Stopper
  BY <1>1 DEF Stopper
<1>4. /\ app' = [app EXCEPT !.posted = <<>>] /\ UNCHANGED <<output, ff, disk>>
      /\ server' = [server EXCEPT !.view = "recording"] /\ Slot = "idle"
  <2>1. PICK n : n = Started
    OBVIOUS
  <2>2. app.posted = <<n>>
    BY <2>1
  <2>3. Head(app.posted) = n /\ Tail(app.posted) = <<>>
    BY ONLY <2>2
  <2>4. n.kind = "started" 
    BY <2>1 DEF Started, Error, Stopped
  <2>5. /\ /\ app' = [app EXCEPT !.posted = <<>>] /\ Received(n)
        /\ UNCHANGED <<output, ff, disk>>
    BY <2>3 DEF Deliver
  <2>6. QED
    BY <1>0, <2>4, <2>5 DEF Received, ServerType, Deliver, Slot
<1>10. Places'
  BY <1>0, <1>1, <1>3, <1>4 DEF Places, AppType, ServerType
<1>11. Starts'
  BY <1>0, <1>1, <1>3, <1>4 DEF Starts, AppType, ServerType
<1>12. OutputFlags'
  BY <1>0, <1>1, <1>3, <1>4 DEF OutputFlags, AppType, ServerType
<1>13. FfFlags'
  BY <1>0, <1>1, <1>3, <1>4 DEF FfFlags, AppType, ServerType
<1>14. Writers'
  BY <1>0, <1>1, <1>3, <1>4 DEF Writers, AppType, ServerType
<1>15. Orders'
  BY <1>0, <1>1, <1>3, <1>4 DEF Orders, AppType, ServerType
<1>16. View'
  BY <1>0, <1>1, <1>3, <1>4, OneNotice DEF View, AppType, ServerType
<1>17. Files'
  BY <1>0, <1>1, <1>3, <1>4, OneNotice DEF Orders, Files, AppType, ServerType
<1>18. Leftover'
  BY <1>0, <1>1, <1>3, <1>4 DEF Leftover, AppType, ServerType
<1>19. QED
  BY <1>1, <1>10, <1>11, <1>12, <1>13, <1>14, <1>15, <1>16, <1>17, <1>18 DEF Settled,
     Flags

\* It hears that it has not.
LEMMA DeliverErrorSettles ==
  ASSUME TypeOK, Settled, Patient, Deliver, Posted(Error), server.view = "starting"
  PROVE  Settled'
<1>0. /\ Frames /\ Single /\ Places /\ Starts /\ OutputFlags /\ FfFlags
      /\ Writers /\ Orders /\ View /\ Files /\ Leftover
      /\ output \in OutputType /\ ff \in FfType /\ app \in AppType
      /\ server \in ServerType
  BY DEF TypeOK, Settled, Flags
<1>1. /\ UNCHANGED <<Starter, Writer, Ender, Slot, Leaver>> /\ (Short' <=> Short)
      /\ Frames' /\ Single'
  <2>1. SameHandles /\ UNCHANGED control
    BY <1>0 DEF Deliver, SameHandles, Outside, FfType
  <2>2. QED
    BY <1>0, <2>1, StaysPut
<1>2. TRUE
  BY DEF Deliver, Outside
<1>3. Stopper' = Stopper
  BY <1>1 DEF Stopper
<1>4. /\ app' = [app EXCEPT !.posted = <<>>] /\ UNCHANGED <<output, ff, disk>>
      /\ server' = [server EXCEPT !.view = "idle"] /\ Slot = "idle"
  <2>1. PICK n : n = Error
    OBVIOUS
  <2>2. app.posted = <<n>>
    BY <2>1
  <2>3. Head(app.posted) = n /\ Tail(app.posted) = <<>>
    BY ONLY <2>2
  <2>4. n.kind = "error" 
    BY <2>1 DEF Started, Error, Stopped
  <2>5. /\ /\ app' = [app EXCEPT !.posted = <<>>] /\ Received(n)
        /\ UNCHANGED <<output, ff, disk>>
    BY <2>3 DEF Deliver
  <2>6. QED
    BY <1>0, <2>4, <2>5 DEF Received, ServerType, Deliver, Slot
<1>10. Places'
  BY <1>0, <1>1, <1>3, <1>4 DEF Places, AppType, ServerType
<1>11. Starts'
  BY <1>0, <1>1, <1>3, <1>4 DEF Starts, AppType, ServerType
<1>12. OutputFlags'
  BY <1>0, <1>1, <1>3, <1>4 DEF OutputFlags, AppType, ServerType
<1>13. FfFlags'
  BY <1>0, <1>1, <1>3, <1>4 DEF FfFlags, AppType, ServerType
<1>14. Writers'
  BY <1>0, <1>1, <1>3, <1>4 DEF Writers, AppType, ServerType
<1>15. Orders'
  BY <1>0, <1>1, <1>3, <1>4 DEF Orders, AppType, ServerType
<1>16. View'
  <2>1. (server.view = "idle" =>
           /\ Quiet /\ ~output.dataActive
           /\ Starter # Dead => Starter = "start_return" /\ Writer = Dead
           /\ Stopper \notin Clearing \cup Creating \cup {"end_signal"}
           /\ Slot \notin {"actual_start", "plugin_start", "set_connecting"})'
    BY <1>0, <1>1, <1>3, <1>4, OneNotice DEF Places, OutputFlags, Writers, Orders, View,
       AppType, ServerType
  <2>2. (server.view = "starting" =>
           /\ ff.stopping => Slot \in {"actual_start", "plugin_start"} \/ Posted(Error)
           /\ Stopper = Dead \/ Leaver \in Stopping
           /\ \/ /\ Quiet
                 /\ \/ Slot \in {"actual_start", "plugin_start"}
                    \/ Starter \notin {Dead, "writer_active", "start_return"}
              \/ /\ Posted(Started)
                 /\ Starter \in {Dead, "writer_active", "start_return"}
                 /\ output.dataActive
                 /\ Slot \in {"set_connecting", "idle"} /\ Leaver = "loop"
              \/ /\ Posted(Error)
                 /\ Starter \in {Dead, "start_return"}
                 /\ Writer = Dead /\ Ender = Dead
                 /\ Slot \in {"set_connecting", "idle", Dead})'
    BY <1>0, <1>1, <1>3, <1>4, OneNotice DEF Places, OutputFlags, Writers, Orders, View,
       AppType, ServerType
  <2>3. (server.view = "recording" =>
           /\ Quiet
           /\ Leaver \in {"loop", "wait_thread", "destroy"} =>
                /\ output.dataActive /\ ~ff.stopping /\ Stopper = Dead
                /\ Slot \in {"idle", Dead}
                /\ Starter \in {Dead, "writer_active", "start_return"})'
    BY <1>0, <1>1, <1>3, <1>4, OneNotice DEF Places, OutputFlags, Writers, Orders, View,
       AppType, ServerType
  <2>4. (server.view = "stopping" =>
           /\ Starter = Dead
           /\ \/ /\ Quiet /\ Leaver = "loop"
                 /\ output.dataActive \/ Stopper \in Creating \cup {"end_signal"}
                 /\ Slot \in {"idle", "set_stop_ts"} => ff.stopping
              \/ /\ Posted(Stopped(app.filePath)) /\ ff.stopping
                 /\ ~output.dataActive /\ Stopper \notin Creating \cup {"end_signal"}
                 /\ Slot \in {"idle", "set_stop_ts", Dead})'
    BY <1>0, <1>1, <1>3, <1>4, OneNotice DEF Places, OutputFlags, Writers, Orders, View,
       AppType, ServerType
  <2>5. (Slot \in {"actual_start", "plugin_start",
        "set_connecting"} => server.view = "starting")'
    BY <1>0, <1>1, <1>3, <1>4, OneNotice DEF Places, OutputFlags, Writers, Orders, View,
       AppType, ServerType
  <2>6. (Slot \in {"actual_start", "plugin_start"} => Quiet)'
    BY <1>0, <1>1, <1>3, <1>4, OneNotice DEF Places, OutputFlags, Writers, Orders, View,
       AppType, ServerType
  <2>7. (Slot \in Asking \cup Clearing \cup Creating \cup {"end_signal"} => server.view = "stopping")'
    BY <1>0, <1>1, <1>3, <1>4, OneNotice DEF Places, OutputFlags, Writers, Orders, View,
       AppType, ServerType
  <2>8. (Slot \in Joining \cup Freeing => server.view = "idle")'
    BY <1>0, <1>1, <1>3, <1>4, OneNotice DEF Places, OutputFlags, Writers, Orders, View,
       AppType, ServerType
  <2>9. QED
    BY <2>1, <2>2, <2>3, <2>4, <2>5, <2>6, <2>7, <2>8 DEF View
<1>17. Files'
  BY <1>0, <1>1, <1>3, <1>4, OneNotice DEF Files, AppType, ServerType
<1>18. Leftover'
  BY <1>0, <1>1, <1>3, <1>4 DEF Leftover, AppType, ServerType
<1>19. QED
  BY <1>1, <1>10, <1>11, <1>12, <1>13, <1>14, <1>15, <1>16, <1>17, <1>18 DEF Settled,
     Flags

\* It hears that the recording has stopped.
LEMMA DeliverStoppedSettles ==
  ASSUME TypeOK, Settled, Patient, Deliver, Posted(Stopped(app.filePath)),
  server.view = "stopping"
  PROVE  Settled'
<1>0. /\ Frames /\ Single /\ Places /\ Starts /\ OutputFlags /\ FfFlags
      /\ Writers /\ Orders /\ View /\ Files /\ Leftover
      /\ output \in OutputType /\ ff \in FfType /\ app \in AppType
      /\ server \in ServerType
  BY DEF TypeOK, Settled, Flags
<1>1. /\ UNCHANGED <<Starter, Writer, Ender, Slot, Leaver>> /\ (Short' <=> Short)
      /\ Frames' /\ Single'
  <2>1. SameHandles /\ UNCHANGED control
    BY <1>0 DEF Deliver, SameHandles, Outside, FfType
  <2>2. QED
    BY <1>0, <2>1, StaysPut
<1>2. TRUE
  BY DEF Deliver, Outside
<1>3. Stopper' = Stopper
  BY <1>1 DEF Stopper
<1>4. /\ app' = [app EXCEPT !.posted = <<>>] /\ UNCHANGED <<output, ff, disk>>
      /\ server' = [server EXCEPT !.view = "idle", !.reported = @ \cup {app.filePath}] /\ Slot = "idle"
  <2>1. PICK n : n = Stopped(app.filePath)
    OBVIOUS
  <2>2. app.posted = <<n>>
    BY <2>1
  <2>3. Head(app.posted) = n /\ Tail(app.posted) = <<>>
    BY ONLY <2>2
  <2>4. n.kind = "stopped" /\ n.file = app.filePath
    BY <2>1 DEF Started, Error, Stopped
  <2>5. /\ /\ app' = [app EXCEPT !.posted = <<>>] /\ Received(n)
        /\ UNCHANGED <<output, ff, disk>>
    BY <2>3 DEF Deliver
  <2>6. QED
    BY <1>0, <2>4, <2>5 DEF Received, ServerType, Deliver, Slot
<1>5. /\ ~output.dataActive /\ Starter = Dead
      /\ Stopper \notin Clearing \cup Creating \cup {"end_signal"}
  <2>1. /\ ~output.dataActive /\ Starter = Dead
        /\ Stopper \notin Creating \cup {"end_signal"}
    BY <1>0, OneNotice DEF View
  <2>2. Stopper \in Clearing => Writer \notin {Dead, "write_return"}
    BY <1>0 DEF Writers
  <2>3. Stopper \in Clearing => ~ff.stopEvent
    BY <1>0 DEF FfFlags, Places, Stopper
  <2>4. QED
    BY <1>0, <2>1, <2>2, <2>3 DEF OutputFlags, OutputType
<1>10. Places'
  BY <1>0, <1>1, <1>3, <1>4, <1>5 DEF Places, AppType, ServerType
<1>11. Starts'
  BY <1>0, <1>1, <1>3, <1>4, <1>5 DEF Starts, AppType, ServerType
<1>12. OutputFlags'
  BY <1>0, <1>1, <1>3, <1>4, <1>5 DEF OutputFlags, AppType, ServerType
<1>13. FfFlags'
  BY <1>0, <1>1, <1>3, <1>4, <1>5 DEF FfFlags, AppType, ServerType
<1>14. Writers'
  BY <1>0, <1>1, <1>3, <1>4, <1>5 DEF Writers, AppType, ServerType
<1>15. Orders'
  BY <1>0, <1>1, <1>3, <1>4, <1>5 DEF Orders, AppType, ServerType
<1>16. View'
  BY <1>0, <1>1, <1>3, <1>4, <1>5, OneNotice DEF Places, Starts, OutputFlags, FfFlags,
     Writers, Orders, View, Files, AppType, ServerType
<1>17. Files'
  BY <1>0, <1>1, <1>3, <1>4, <1>5, OneNotice DEF Files, AppType, ServerType
<1>18. Leftover'
  BY <1>0, <1>1, <1>3, <1>4, <1>5 DEF Leftover, AppType, ServerType
<1>19. QED
  BY <1>1, <1>10, <1>11, <1>12, <1>13, <1>14, <1>15, <1>16, <1>17, <1>18 DEF Settled,
     Flags

\* The slot tells the server itself that the recording has stopped.
LEMMA SignalOBSSettles ==
  ASSUME TypeOK, Settled, Patient, NEW t \in Callers, EndSignal(t), RecordingStopped(t),
         UNCHANGED <<ff, disk>>, t = OBS
  PROVE  Settled'
<1>0. /\ Frames /\ Single /\ Places /\ Starts /\ OutputFlags /\ FfFlags
      /\ Writers /\ Orders /\ View /\ Files /\ Leftover
      /\ output \in OutputType /\ ff \in FfType /\ app \in AppType
      /\ server \in ServerType
  BY DEF TypeOK, Settled, Flags
<1>4. TRUE
  OBVIOUS
<1>1. Go("end_signal", "deactivate") /\ Frames' /\ Single' /\ Kept
  <2>1. stack[t] = <<"deactivate", "idle">>
    BY <1>0, <1>4, RecordAssumption DEF EndSignal, Frames, FramesAt, Return
  <2>2. Head(stack[t]) = "deactivate" /\ Tail(stack[t]) = <<"idle">>
    BY ONLY <2>1
  <2>3. <<"idle">> \in FramesAt(t, "deactivate")
    BY <1>4, RecordAssumption DEF FramesAt
  <2>4. SameHandles /\ t \in Threads /\ pc[t] = "end_signal" /\ Return(t)
    BY <1>0, <1>4, RecordAssumption DEF EndSignal, SameHandles, FfType, OutputType
  <2>5. QED
    BY <1>0, <2>2, <2>3, <2>4, ReturnsTo
<1>2. output' = [output EXCEPT !.stopCode = "success"] /\ UNCHANGED <<ff, disk>>
  BY DEF EndSignal
<1>3. Stopper = "end_signal" /\ Stopper' = "deactivate"
  BY <1>0, <1>1 DEF Places, Starts, Orders, Stopper
<1>5. /\ Slot = "end_signal" /\ Slot' = "deactivate"
      /\ UNCHANGED <<Starter, Writer, Ender, Leaver>>
  BY <1>0, <1>1, Stands, RecordAssumption DEF EndSignal, Places, Starts, Writers,
     Orders, Slot
<1>6. /\ server.view = "stopping" /\ UNCHANGED app
      /\ server' = [server EXCEPT !.view = "idle", !.reported = @ \cup {app.filePath}]
  <2>1. /\ output.stopCode = "success" /\ Stopper = "end_signal" /\ Leaver = "loop"
        /\ Slot = "end_signal"
    BY <1>0, <1>3, <1>5 DEF OutputFlags, Starts, Orders
  <2>2. app.connected
    BY <1>0, <2>1 DEF Orders, AppType
  <2>3. PICK n : n = Stopped(app.filePath)
    OBVIOUS
  <2>4. n.kind = "stopped" /\ n.file = app.filePath
    BY <2>3 DEF Stopped
  <2>5. Received(n) /\ UNCHANGED app
    BY <2>1, <2>2, <2>3 DEF RecordingStopped, Notify
  <2>6. QED
    BY <1>0, <2>1, <2>4, <2>5 DEF Received, ServerType, View
<1>10. Places'
  BY <1>0, <1>1, <1>2, <1>3, <1>5, <1>6 DEF Places, OutputType, ServerType
<1>11. Starts'
  BY <1>0, <1>1, <1>2, <1>3, <1>5, <1>6 DEF Starts, OutputType, ServerType
<1>12. OutputFlags'
  BY <1>0, <1>1, <1>2, <1>3, <1>5, <1>6 DEF Places, OutputFlags, Orders, OutputType,
     ServerType
<1>13. FfFlags'
  BY <1>0, <1>1, <1>2, <1>3, <1>5, <1>6 DEF FfFlags, OutputType, ServerType
<1>14. Writers'
  BY <1>0, <1>1, <1>2, <1>3, <1>5, <1>6 DEF Writers, OutputType, ServerType
<1>15. Orders'
  BY <1>0, <1>1, <1>2, <1>3, <1>5, <1>6 DEF Orders, OutputType, ServerType
<1>16. View'
  BY <1>0, <1>1, <1>2, <1>3, <1>5, <1>6, OneNotice DEF OutputFlags, View, OutputType,
     ServerType
<1>17. Files'
  BY <1>0, <1>1, <1>2, <1>3, <1>5, <1>6 DEF Files, OutputType, ServerType
<1>18. Leftover'
  BY <1>0, <1>1, <1>2, <1>3, <1>5, <1>6 DEF Leftover, OutputType, ServerType
<1>19. QED
  BY <1>1, <1>10, <1>11, <1>12, <1>13, <1>14, <1>15, <1>16, <1>17, <1>18 DEF Settled,
     Flags

\* The main thread, which has disconnected the signals, tells nobody.
LEMMA SignalMainSettles ==
  ASSUME TypeOK, Settled, Patient, NEW t \in Callers, EndSignal(t), RecordingStopped(t),
         UNCHANGED <<ff, disk>>, t = Main
  PROVE  Settled'
<1>0. /\ Frames /\ Single /\ Places /\ Starts /\ OutputFlags /\ FfFlags
      /\ Writers /\ Orders /\ View /\ Files /\ Leftover
      /\ output \in OutputType /\ ff \in FfType /\ app \in AppType
      /\ server \in ServerType
  BY DEF TypeOK, Settled, Flags
<1>4. TRUE
  OBVIOUS
<1>1. Go("end_signal", "deactivate") /\ Frames' /\ Single' /\ Kept
  <2>1. stack[t] = <<"deactivate", "destroy_wait", "exited">>
    BY <1>0, <1>4, RecordAssumption DEF EndSignal, Frames, FramesAt, Return
  <2>2. Head(stack[t]) = "deactivate" /\ Tail(stack[t]) = <<"destroy_wait", "exited">>
    BY ONLY <2>1
  <2>3. <<"destroy_wait", "exited">> \in FramesAt(t, "deactivate")
    BY <1>4, RecordAssumption DEF FramesAt
  <2>4. SameHandles /\ t \in Threads /\ pc[t] = "end_signal" /\ Return(t)
    BY <1>0, <1>4, RecordAssumption DEF EndSignal, SameHandles, FfType, OutputType
  <2>5. QED
    BY <1>0, <2>2, <2>3, <2>4, ReturnsTo
<1>2. output' = [output EXCEPT !.stopCode = "success"] /\ UNCHANGED <<ff, disk>>
  BY DEF EndSignal
<1>3. Stopper = "end_signal" /\ Stopper' = "deactivate"
  BY <1>0, <1>1 DEF Places, Starts, Orders, Stopper
<1>5. /\ Leaver = "end_signal" /\ Leaver' = "deactivate"
      /\ UNCHANGED <<Starter, Writer, Ender, Slot>>
  BY <1>0, <1>1, Stands, RecordAssumption DEF EndSignal, Places, Starts, Writers,
     Orders, Leaver
<1>6. UNCHANGED <<app, server>>
  <2>1. ~app.connected
    BY <1>0, <1>5 DEF Orders, AppType
  <2>2. QED
    BY <2>1 DEF RecordingStopped, Notify
<1>10. Places'
  BY <1>0, <1>1, <1>2, <1>3, <1>5, <1>6 DEF Places, OutputType
<1>11. Starts'
  BY <1>0, <1>1, <1>2, <1>3, <1>5, <1>6 DEF Starts, OutputType
<1>12. OutputFlags'
  <2>1. (output.dataActive = Capturing)'
    BY <1>0, <1>1, <1>2, <1>3, <1>5, <1>6 DEF Places, OutputFlags, Orders, OutputType
  <2>2. (output.hooked = \/ output.dataActive \/ Stopper \in Creating
                         \/ Ender = "end_disconnect")'
    BY <1>0, <1>1, <1>2, <1>3, <1>5, <1>6 DEF Places, OutputFlags, Orders, OutputType
  <2>3. (output.active = \/ output.dataActive /\ Starter # "begin_activate"
                         \/ Stopper \in Creating
                         \/ Ender \in {"end_disconnect", "end_deactivate"})'
    BY <1>0, <1>1, <1>2, <1>3, <1>5, <1>6 DEF Places, OutputFlags, Orders, OutputType
  <2>4. (output.endThreadActive = (Stopper = "end_create" \/ Ender # Dead))'
    BY <1>0, <1>1, <1>2, <1>3, <1>5, <1>6 DEF Places, OutputFlags, Orders, OutputType
  <2>5. (stopping = \/ Slot \in {"plugin_stop", "plugin_force_stop", "full_stop"}
                    \/ Leaver = "plugin_force_stop"
                    \/ Leaver = "full_stop" /\ output.dataActive
                    \/ ff.stopping /\ output.dataActive
                    \/ Stopper \in Clearing \cup Creating
                    \/ Ender \in {"end_disconnect", "end_deactivate", "end_event"})'
    BY <1>0, <1>1, <1>2, <1>3, <1>5, <1>6 DEF Places, OutputFlags, Orders, OutputType
  <2>6. (Ender # Dead => Stopper \notin Clearing \cup Creating /\ ~output.dataActive)'
    BY <1>0, <1>1, <1>2, <1>3, <1>5, <1>6 DEF Places, OutputFlags, Orders, OutputType
  <2>7. (output.stopCode = IF Starter \in {"end_check", "end_inactive"}
                           THEN "connect_failed" ELSE "success")'
    BY <1>0, <1>1, <1>2, <1>3, <1>5, <1>6 DEF Places, OutputFlags, Orders, OutputType
  <2>8. QED
    BY <2>1, <2>2, <2>3, <2>4, <2>5, <2>6, <2>7 DEF OutputFlags
<1>13. FfFlags'
  BY <1>0, <1>1, <1>2, <1>3, <1>5, <1>6 DEF FfFlags, OutputType
<1>14. Writers'
  BY <1>0, <1>1, <1>2, <1>3, <1>5, <1>6 DEF Writers, OutputType
<1>15. Orders'
  BY <1>0, <1>1, <1>2, <1>3, <1>5, <1>6 DEF Orders, OutputType
<1>16. View'
  BY <1>0, <1>1, <1>2, <1>3, <1>5, <1>6 DEF View, OutputType
<1>17. Files'
  BY <1>0, <1>1, <1>2, <1>3, <1>5, <1>6 DEF Files, OutputType
<1>18. Leftover'
  BY <1>0, <1>1, <1>2, <1>3, <1>5, <1>6 DEF Leftover, OutputType
<1>19. QED
  BY <1>1, <1>10, <1>11, <1>12, <1>13, <1>14, <1>15, <1>16, <1>17, <1>18 DEF Settled,
     Flags

\* The write thread posts it.
LEMMA SignalWriterSettles ==
  ASSUME TypeOK, Settled, Patient, NEW t \in Callers, EndSignal(t), RecordingStopped(t),
         UNCHANGED <<ff, disk>>, t \in WriteThreads, app.connected
  PROVE  Settled'
<1>0. /\ Frames /\ Single /\ Places /\ Starts /\ OutputFlags /\ FfFlags
      /\ Writers /\ Orders /\ View /\ Files /\ Leftover
      /\ output \in OutputType /\ ff \in FfType /\ app \in AppType
      /\ server \in ServerType
  BY DEF TypeOK, Settled, Flags
<1>4. TRUE
  OBVIOUS
<1>1. Go("end_signal", "deactivate") /\ Frames' /\ Single' /\ Kept
  <2>1. stack[t] = <<"deactivate", "write_wait">>
    BY <1>0, <1>4, RecordAssumption DEF EndSignal, Frames, FramesAt, Return
  <2>2. Head(stack[t]) = "deactivate" /\ Tail(stack[t]) = <<"write_wait">>
    BY ONLY <2>1
  <2>3. <<"write_wait">> \in FramesAt(t, "deactivate")
    BY <1>4, RecordAssumption DEF FramesAt
  <2>4. SameHandles /\ t \in Threads /\ pc[t] = "end_signal" /\ Return(t)
    BY <1>0, <1>4, RecordAssumption DEF EndSignal, SameHandles, FfType, OutputType
  <2>5. QED
    BY <1>0, <2>2, <2>3, <2>4, ReturnsTo
<1>2. output' = [output EXCEPT !.stopCode = "success"] /\ UNCHANGED <<ff, disk>>
  BY DEF EndSignal
<1>3. Stopper = "end_signal" /\ Stopper' = "deactivate"
  BY <1>0, <1>1 DEF Places, Starts, Orders, Stopper
<1>5. /\ Writer = "end_signal" /\ Writer' = "deactivate"
      /\ UNCHANGED <<Starter, Ender, Slot, Leaver>>
  BY <1>0, <1>1, Stands, RecordAssumption DEF EndSignal, Places, Starts, Writers, Orders
<1>6. /\ server.view = "stopping" /\ Quiet /\ Leaver = "loop" /\ ff.stopping
      /\ app' = [app EXCEPT !.posted = <<Stopped(app.filePath)>>] /\ UNCHANGED server
  <2>1. /\ output.stopCode = "success" /\ Starter = Dead
        /\ Leaver \in {"loop", "wait_thread"}
    BY <1>0, <1>3 DEF OutputFlags, Starts, Orders, AppType
  <2>2. server.view = "stopping" /\ Quiet /\ Leaver = "loop" /\ ff.stopping
    <3>1. Leaver = "loop" /\ ff.stopping
      BY <1>0, <1>3, <1>5, <2>1 DEF Orders, Writers, FfType
    <3>2. QED
      BY <1>0, <1>3, <2>1, <3>1 DEF View, ServerType
  <2>3. t # OBS
    BY RecordAssumption
  <2>4. /\ app' = [app EXCEPT !.posted = Append(@, Stopped(app.filePath))]
        /\ UNCHANGED server
    BY <2>1, <2>3 DEF RecordingStopped, Notify
  <2>5. app.posted = <<>>
    BY <2>2
  <2>6. PICK n : n = Stopped(app.filePath)
    OBVIOUS
  <2>7. Append(app.posted, n) = <<n>>
    BY ONLY <2>5
  <2>8. QED
    BY <2>2, <2>4, <2>6, <2>7
<1>10. Places'
  BY <1>0, <1>1, <1>2, <1>3, <1>5, <1>6 DEF Places, OutputType, AppType
<1>11. Starts'
  BY <1>0, <1>1, <1>2, <1>3, <1>5, <1>6 DEF Starts, OutputType, AppType
<1>12. OutputFlags'
  <2>1. (output.dataActive = Capturing)'
    BY <1>0, <1>1, <1>2, <1>3, <1>5, <1>6 DEF Places, Starts, OutputFlags, Orders,
       OutputType, AppType
  <2>2. (output.hooked = \/ output.dataActive \/ Stopper \in Creating
                         \/ Ender = "end_disconnect")'
    BY <1>0, <1>1, <1>2, <1>3, <1>5, <1>6 DEF Places, Starts, OutputFlags, Orders,
       OutputType, AppType
  <2>3. (output.active = \/ output.dataActive /\ Starter # "begin_activate"
                         \/ Stopper \in Creating
                         \/ Ender \in {"end_disconnect", "end_deactivate"})'
    BY <1>0, <1>1, <1>2, <1>3, <1>5, <1>6 DEF Places, Starts, OutputFlags, Orders,
       OutputType, AppType
  <2>4. (output.endThreadActive = (Stopper = "end_create" \/ Ender # Dead))'
    BY <1>0, <1>1, <1>2, <1>3, <1>5, <1>6 DEF Places, Starts, OutputFlags, Orders,
       OutputType, AppType
  <2>5. (stopping = \/ Slot \in {"plugin_stop", "plugin_force_stop", "full_stop"}
                    \/ Leaver = "plugin_force_stop"
                    \/ Leaver = "full_stop" /\ output.dataActive
                    \/ ff.stopping /\ output.dataActive
                    \/ Stopper \in Clearing \cup Creating
                    \/ Ender \in {"end_disconnect", "end_deactivate", "end_event"})'
    BY <1>0, <1>1, <1>2, <1>3, <1>5, <1>6 DEF Places, Starts, OutputFlags, Orders,
       OutputType, AppType
  <2>6. (Ender # Dead => Stopper \notin Clearing \cup Creating /\ ~output.dataActive)'
    BY <1>0, <1>1, <1>2, <1>3, <1>5, <1>6 DEF Places, Starts, OutputFlags, Orders,
       OutputType, AppType
  <2>7. (output.stopCode = IF Starter \in {"end_check", "end_inactive"}
                           THEN "connect_failed" ELSE "success")'
    BY <1>0, <1>1, <1>2, <1>3, <1>5, <1>6 DEF Places, Starts, OutputFlags, Orders,
       OutputType, AppType
  <2>8. QED
    BY <2>1, <2>2, <2>3, <2>4, <2>5, <2>6, <2>7 DEF OutputFlags
<1>13. FfFlags'
  BY <1>0, <1>1, <1>2, <1>3, <1>5, <1>6 DEF FfFlags, OutputType, AppType
<1>14. Writers'
  BY <1>0, <1>1, <1>2, <1>3, <1>5, <1>6 DEF Writers, OutputType, AppType
<1>15. Orders'
  BY <1>0, <1>1, <1>2, <1>3, <1>5, <1>6 DEF Orders, OutputType, AppType
<1>16. View'
  <2>1. (server.view = "idle" =>
           /\ Quiet /\ ~output.dataActive
           /\ Starter # Dead => Starter = "start_return" /\ Writer = Dead
           /\ Stopper \notin Clearing \cup Creating \cup {"end_signal"}
           /\ Slot \notin {"actual_start", "plugin_start", "set_connecting"})'
    BY <1>0, <1>1, <1>2, <1>3, <1>5, <1>6, OneNotice DEF Places, OutputFlags, Writers,
       Orders, View, OutputType, AppType
  <2>2. (server.view = "starting" =>
           /\ ff.stopping => Slot \in {"actual_start", "plugin_start"} \/ Posted(Error)
           /\ Stopper = Dead \/ Leaver \in Stopping
           /\ \/ /\ Quiet
                 /\ \/ Slot \in {"actual_start", "plugin_start"}
                    \/ Starter \notin {Dead, "writer_active", "start_return"}
              \/ /\ Posted(Started)
                 /\ Starter \in {Dead, "writer_active", "start_return"}
                 /\ output.dataActive
                 /\ Slot \in {"set_connecting", "idle"} /\ Leaver = "loop"
              \/ /\ Posted(Error)
                 /\ Starter \in {Dead, "start_return"}
                 /\ Writer = Dead /\ Ender = Dead
                 /\ Slot \in {"set_connecting", "idle", Dead})'
    BY <1>0, <1>1, <1>2, <1>3, <1>5, <1>6, OneNotice DEF Places, OutputFlags, Writers,
       Orders, View, OutputType, AppType
  <2>3. (server.view = "recording" =>
           /\ Quiet
           /\ Leaver \in {"loop", "wait_thread", "destroy"} =>
                /\ output.dataActive /\ ~ff.stopping /\ Stopper = Dead
                /\ Slot \in {"idle", Dead}
                /\ Starter \in {Dead, "writer_active", "start_return"})'
    BY <1>0, <1>1, <1>2, <1>3, <1>5, <1>6, OneNotice DEF Places, OutputFlags, Writers,
       Orders, View, OutputType, AppType
  <2>4. (server.view = "stopping" =>
           /\ Starter = Dead
           /\ \/ /\ Quiet /\ Leaver = "loop"
                 /\ output.dataActive \/ Stopper \in Creating \cup {"end_signal"}
                 /\ Slot \in {"idle", "set_stop_ts"} => ff.stopping
              \/ /\ Posted(Stopped(app.filePath)) /\ ff.stopping
                 /\ ~output.dataActive /\ Stopper \notin Creating \cup {"end_signal"}
                 /\ Slot \in {"idle", "set_stop_ts", Dead})'
    BY <1>0, <1>1, <1>2, <1>3, <1>5, <1>6, OneNotice DEF Places, OutputFlags, Writers,
       Orders, View, OutputType, AppType
  <2>5. (Slot \in {"actual_start", "plugin_start",
        "set_connecting"} => server.view = "starting")'
    BY <1>0, <1>1, <1>2, <1>3, <1>5, <1>6, OneNotice DEF Places, OutputFlags, Writers,
       Orders, View, OutputType, AppType
  <2>6. (Slot \in {"actual_start", "plugin_start"} => Quiet)'
    BY <1>0, <1>1, <1>2, <1>3, <1>5, <1>6, OneNotice DEF Places, OutputFlags, Writers,
       Orders, View, OutputType, AppType
  <2>7. (Slot \in Asking \cup Clearing \cup Creating \cup {"end_signal"} => server.view = "stopping")'
    BY <1>0, <1>1, <1>2, <1>3, <1>5, <1>6, OneNotice DEF Places, OutputFlags, Writers,
       Orders, View, OutputType, AppType
  <2>8. (Slot \in Joining \cup Freeing => server.view = "idle")'
    BY <1>0, <1>1, <1>2, <1>3, <1>5, <1>6, OneNotice DEF Places, OutputFlags, Writers,
       Orders, View, OutputType, AppType
  <2>9. QED
    BY <2>1, <2>2, <2>3, <2>4, <2>5, <2>6, <2>7, <2>8 DEF View
<1>17. Files'
  BY <1>0, <1>1, <1>2, <1>3, <1>5, <1>6, OneNotice DEF FfFlags, Files, OutputType,
     AppType
<1>18. Leftover'
  BY <1>0, <1>1, <1>2, <1>3, <1>5, <1>6 DEF Leftover, OutputType, AppType
<1>19. QED
  BY <1>1, <1>10, <1>11, <1>12, <1>13, <1>14, <1>15, <1>16, <1>17, <1>18 DEF Settled,
     Flags

\* The write thread tells nobody when the signals are disconnected.
LEMMA SignalNobodySettles ==
  ASSUME TypeOK, Settled, Patient, NEW t \in Callers, EndSignal(t), RecordingStopped(t),
         UNCHANGED <<ff, disk>>, t \in WriteThreads, ~app.connected
  PROVE  Settled'
<1>0. /\ Frames /\ Single /\ Places /\ Starts /\ OutputFlags /\ FfFlags
      /\ Writers /\ Orders /\ View /\ Files /\ Leftover
      /\ output \in OutputType /\ ff \in FfType /\ app \in AppType
      /\ server \in ServerType
  BY DEF TypeOK, Settled, Flags
<1>4. TRUE
  OBVIOUS
<1>1. Go("end_signal", "deactivate") /\ Frames' /\ Single' /\ Kept
  <2>1. stack[t] = <<"deactivate", "write_wait">>
    BY <1>0, <1>4, RecordAssumption DEF EndSignal, Frames, FramesAt, Return
  <2>2. Head(stack[t]) = "deactivate" /\ Tail(stack[t]) = <<"write_wait">>
    BY ONLY <2>1
  <2>3. <<"write_wait">> \in FramesAt(t, "deactivate")
    BY <1>4, RecordAssumption DEF FramesAt
  <2>4. SameHandles /\ t \in Threads /\ pc[t] = "end_signal" /\ Return(t)
    BY <1>0, <1>4, RecordAssumption DEF EndSignal, SameHandles, FfType, OutputType
  <2>5. QED
    BY <1>0, <2>2, <2>3, <2>4, ReturnsTo
<1>2. output' = [output EXCEPT !.stopCode = "success"] /\ UNCHANGED <<ff, disk>>
  BY DEF EndSignal
<1>3. Stopper = "end_signal" /\ Stopper' = "deactivate"
  BY <1>0, <1>1 DEF Places, Starts, Orders, Stopper
<1>5. /\ Writer = "end_signal" /\ Writer' = "deactivate"
      /\ UNCHANGED <<Starter, Ender, Slot, Leaver>>
  BY <1>0, <1>1, Stands, RecordAssumption DEF EndSignal, Places, Starts, Writers, Orders
<1>6. UNCHANGED <<app, server>> /\ Leaver \notin {"loop", "wait_thread"} /\ ff.stopping
  BY <1>0, <1>5 DEF RecordingStopped, Notify, Orders, AppType, Writers
<1>10. Places'
  BY <1>0, <1>1, <1>2, <1>3, <1>5, <1>6 DEF Places, OutputType
<1>11. Starts'
  BY <1>0, <1>1, <1>2, <1>3, <1>5, <1>6 DEF Starts, OutputType
<1>12. OutputFlags'
  BY <1>0, <1>1, <1>2, <1>3, <1>5, <1>6 DEF Places, OutputFlags, Orders, OutputType
<1>13. FfFlags'
  BY <1>0, <1>1, <1>2, <1>3, <1>5, <1>6 DEF FfFlags, OutputType
<1>14. Writers'
  BY <1>0, <1>1, <1>2, <1>3, <1>5, <1>6 DEF Writers, OutputType
<1>15. Orders'
  BY <1>0, <1>1, <1>2, <1>3, <1>5, <1>6 DEF Orders, OutputType
<1>16. View'
  BY <1>0, <1>1, <1>2, <1>3, <1>5, <1>6, OneNotice DEF View, OutputType
<1>17. Files'
  BY <1>0, <1>1, <1>2, <1>3, <1>5, <1>6 DEF Files, OutputType
<1>18. Leftover'
  BY <1>0, <1>1, <1>2, <1>3, <1>5, <1>6 DEF Leftover, OutputType
<1>19. QED
  BY <1>1, <1>10, <1>11, <1>12, <1>13, <1>14, <1>15, <1>16, <1>17, <1>18 DEF Settled,
     Flags

\* The start thread posts that the recording could not be started.
LEMMA EndInactiveSettles ==
  ASSUME TypeOK, Settled, Patient, NEW t \in Callers, EndInactive(t),
  RecordingStopped(t),
         UNCHANGED <<ff, disk>>
  PROVE  Settled'
<1>0. /\ Frames /\ Single /\ Places /\ Starts /\ OutputFlags /\ FfFlags
      /\ Writers /\ Orders /\ View /\ Files /\ Leftover
      /\ output \in OutputType /\ ff \in FfType /\ app \in AppType
      /\ server \in ServerType
  BY DEF TypeOK, Settled, Flags
<1>4. t \in StartThreads /\ pc[t] = "end_inactive" /\ Starter = "end_inactive"
  BY <1>0, Stands DEF EndInactive, Callers, Places
<1>1. Go("end_inactive", "start_return") /\ Frames' /\ Single' /\ Kept
  <2>1. stack[t] = <<"start_return">>
    BY <1>0, <1>4, RecordAssumption DEF EndInactive, Frames, FramesAt, Return
  <2>2. Head(stack[t]) = "start_return" /\ Tail(stack[t]) = <<>>
    BY ONLY <2>1
  <2>3. <<>> \in FramesAt(t, "start_return")
    BY <1>4, RecordAssumption DEF FramesAt
  <2>4. SameHandles /\ t \in Threads /\ pc[t] = "end_inactive" /\ Return(t)
    BY <1>0, <1>4, RecordAssumption DEF EndInactive, SameHandles, FfType, OutputType
  <2>5. QED
    BY <1>0, <2>2, <2>3, <2>4, ReturnsTo
<1>2. /\ output' = [output EXCEPT !.stopCode = "success", !.stoppingEvent = TRUE]
      /\ UNCHANGED <<ff, disk>>
  BY DEF EndInactive
<1>3. Stopper' = Stopper
  BY <1>0, <1>1 DEF Places, Starts, Orders, Stopper
<1>5. /\ Starter = "end_inactive" /\ Starter' = "start_return"
      /\ UNCHANGED <<Writer, Ender, Slot, Leaver>>
  BY <1>0, <1>1, <1>4 DEF Places, Starts
<1>6. /\ server.view = "starting" /\ Quiet /\ Writer = Dead
      /\ app' = [app EXCEPT !.posted = <<Error>>] /\ UNCHANGED server
  <2>1. /\ t # OBS /\ output.stopCode = "connect_failed" /\ Leaver = "loop"
        /\ Writer = Dead
    BY <1>0, <1>4, RecordAssumption DEF OutputFlags, Starts
  <2>2. app.connected /\ Quiet /\ server.view = "starting"
    BY <1>0, <1>4, <2>1 DEF View, Orders, AppType, ServerType
  <2>3. app' = [app EXCEPT !.posted = Append(@, Error)] /\ UNCHANGED server
    BY <2>1, <2>2 DEF RecordingStopped, Notify
  <2>4. PICK n : n = Error
    OBVIOUS
  <2>5. app.posted = <<>>
    BY <2>2
  <2>6. Append(app.posted, n) = <<n>>
    BY ONLY <2>5
  <2>7. QED
    BY <2>1, <2>2, <2>3, <2>4, <2>6
<1>10. Places'
  BY <1>0, <1>1, <1>2, <1>3, <1>5, <1>6 DEF Places, OutputType, AppType
<1>11. Starts'
  BY <1>0, <1>1, <1>2, <1>3, <1>5, <1>6 DEF Starts, OutputType, AppType
<1>12. OutputFlags'
  BY <1>0, <1>1, <1>2, <1>3, <1>5, <1>6 DEF Places, Starts, OutputFlags, Orders,
     OutputType, AppType
<1>13. FfFlags'
  BY <1>0, <1>1, <1>2, <1>3, <1>5, <1>6 DEF OutputFlags, FfFlags, OutputType, AppType
<1>14. Writers'
  BY <1>0, <1>1, <1>2, <1>3, <1>5, <1>6 DEF Writers, OutputType, AppType
<1>15. Orders'
  BY <1>0, <1>1, <1>2, <1>3, <1>5, <1>6 DEF Orders, OutputType, AppType
<1>16. View'
  BY <1>0, <1>1, <1>2, <1>3, <1>5, <1>6, OneNotice DEF Places, Starts, View, OutputType,
     AppType
<1>17. Files'
  BY <1>0, <1>1, <1>2, <1>3, <1>5, <1>6, OneNotice DEF Files, OutputType, AppType
<1>18. Leftover'
  BY <1>0, <1>1, <1>2, <1>3, <1>5, <1>6 DEF Leftover, OutputType, AppType
<1>19. QED
  BY <1>1, <1>10, <1>11, <1>12, <1>13, <1>14, <1>15, <1>16, <1>17, <1>18 DEF Settled,
     Flags

\* The output is active, which the start thread posts.
LEMMA BeginActivateSettles ==
  ASSUME TypeOK, Settled, Patient, NEW s \in StartThreads, BeginActivate(s,
  "writer_active"),
         Notify(s, Started), UNCHANGED <<ff, disk>>
  PROVE  Settled'
<1>0. /\ Frames /\ Single /\ Places /\ Starts /\ OutputFlags /\ FfFlags
      /\ Writers /\ Orders /\ View /\ Files /\ Leftover
      /\ output \in OutputType /\ ff \in FfType /\ app \in AppType
      /\ server \in ServerType
  BY DEF TypeOK, Settled, Flags
<1>1. Go("begin_activate", "writer_active") /\ Frames' /\ Single' /\ Kept
  <2>1. FramesAt(s, "begin_activate") \subseteq FramesAt(s, "writer_active")
    BY RecordAssumption DEF FramesAt
  <2>2. SameHandles
    BY <1>0 DEF BeginActivate, SameHandles, Silent, Outside, FfType, OutputType
  <2>3. Goto(s, "writer_active") /\ pc[s] = "begin_activate" /\ s \in Threads
    BY <1>0, RecordAssumption DEF BeginActivate, Callers
  <2>4. QED
    BY <1>0, <2>1, <2>2, <2>3, GoesTo
<1>2. output' = [output EXCEPT !.active = TRUE] /\ UNCHANGED <<ff, disk>>
  BY DEF BeginActivate
<1>3. Stopper' = Stopper
  BY <1>0, <1>1 DEF Places, Starts, Orders, Stopper
<1>5. /\ Starter = "begin_activate" /\ Starter' = "writer_active"
      /\ UNCHANGED <<Writer, Ender, Slot, Leaver>>
  BY <1>0, <1>1 DEF Places, Starts
<1>6. /\ /\ server.view = "starting" /\ Quiet
      /\ app' = [app EXCEPT !.posted = <<Started>>] /\ UNCHANGED server
  <2>1. s # OBS /\ output.dataActive /\ Leaver = "loop"
    BY <1>0, <1>5, RecordAssumption DEF OutputFlags, Starts, OutputType
  <2>2. app.connected /\ Quiet /\ server.view = "starting"
    BY <1>0, <1>5, <2>1 DEF View, Orders, AppType, ServerType
  <2>3. app' = [app EXCEPT !.posted = Append(@, Started)] /\ UNCHANGED server
    BY <2>1, <2>2 DEF Notify
  <2>4. PICK n : n = Started
    OBVIOUS
  <2>5. app.posted = <<>>
    BY <2>2
  <2>6. Append(app.posted, n) = <<n>>
    BY ONLY <2>5
  <2>7. QED
    BY <2>2, <2>3, <2>4, <2>6
<1>10. Places'
  BY <1>0, <1>1, <1>2, <1>3, <1>5, <1>6 DEF Places, OutputType, AppType
<1>11. Starts'
  BY <1>0, <1>1, <1>2, <1>3, <1>5, <1>6 DEF Starts, OutputType, AppType
<1>12. OutputFlags'
  BY <1>0, <1>1, <1>2, <1>3, <1>5, <1>6 DEF OutputFlags, OutputType, AppType
<1>13. FfFlags'
  BY <1>0, <1>1, <1>2, <1>3, <1>5, <1>6 DEF FfFlags, OutputType, AppType
<1>14. Writers'
  BY <1>0, <1>1, <1>2, <1>3, <1>5, <1>6 DEF Writers, OutputType, AppType
<1>15. Orders'
  BY <1>0, <1>1, <1>2, <1>3, <1>5, <1>6 DEF Orders, OutputType, AppType
<1>16. View'
  <2>1. (server.view = "idle" =>
           /\ Quiet /\ ~output.dataActive
           /\ Starter # Dead => Starter = "start_return" /\ Writer = Dead
           /\ Stopper \notin Clearing \cup Creating \cup {"end_signal"}
           /\ Slot \notin {"actual_start", "plugin_start", "set_connecting"})'
    BY <1>0, <1>1, <1>2, <1>3, <1>5, <1>6, OneNotice DEF Places, OutputFlags, Writers,
       Orders, View, OutputType, AppType
  <2>2. (server.view = "starting" =>
           /\ ff.stopping => Slot \in {"actual_start", "plugin_start"} \/ Posted(Error)
           /\ Stopper = Dead \/ Leaver \in Stopping
           /\ \/ /\ Quiet
                 /\ \/ Slot \in {"actual_start", "plugin_start"}
                    \/ Starter \notin {Dead, "writer_active", "start_return"}
              \/ /\ Posted(Started)
                 /\ Starter \in {Dead, "writer_active", "start_return"}
                 /\ output.dataActive
                 /\ Slot \in {"set_connecting", "idle"} /\ Leaver = "loop"
              \/ /\ Posted(Error)
                 /\ Starter \in {Dead, "start_return"}
                 /\ Writer = Dead /\ Ender = Dead
                 /\ Slot \in {"set_connecting", "idle", Dead})'
    BY <1>0, <1>1, <1>2, <1>3, <1>5, <1>6, OneNotice DEF Places, OutputFlags, Writers,
       Orders, View, OutputType, AppType
  <2>3. (server.view = "recording" =>
           /\ Quiet
           /\ Leaver \in {"loop", "wait_thread", "destroy"} =>
                /\ output.dataActive /\ ~ff.stopping /\ Stopper = Dead
                /\ Slot \in {"idle", Dead}
                /\ Starter \in {Dead, "writer_active", "start_return"})'
    BY <1>0, <1>1, <1>2, <1>3, <1>5, <1>6, OneNotice DEF Places, OutputFlags, Writers,
       Orders, View, OutputType, AppType
  <2>4. (server.view = "stopping" =>
           /\ Starter = Dead
           /\ \/ /\ Quiet /\ Leaver = "loop"
                 /\ output.dataActive \/ Stopper \in Creating \cup {"end_signal"}
                 /\ Slot \in {"idle", "set_stop_ts"} => ff.stopping
              \/ /\ Posted(Stopped(app.filePath)) /\ ff.stopping
                 /\ ~output.dataActive /\ Stopper \notin Creating \cup {"end_signal"}
                 /\ Slot \in {"idle", "set_stop_ts", Dead})'
    BY <1>0, <1>1, <1>2, <1>3, <1>5, <1>6, OneNotice DEF Places, OutputFlags, Writers,
       Orders, View, OutputType, AppType
  <2>5. (Slot \in {"actual_start", "plugin_start",
        "set_connecting"} => server.view = "starting")'
    BY <1>0, <1>1, <1>2, <1>3, <1>5, <1>6, OneNotice DEF Places, OutputFlags, Writers,
       Orders, View, OutputType, AppType
  <2>6. (Slot \in {"actual_start", "plugin_start"} => Quiet)'
    BY <1>0, <1>1, <1>2, <1>3, <1>5, <1>6, OneNotice DEF Places, OutputFlags, Writers,
       Orders, View, OutputType, AppType
  <2>7. (Slot \in Asking \cup Clearing \cup Creating \cup {"end_signal"} => server.view = "stopping")'
    BY <1>0, <1>1, <1>2, <1>3, <1>5, <1>6, OneNotice DEF Places, OutputFlags, Writers,
       Orders, View, OutputType, AppType
  <2>8. (Slot \in Joining \cup Freeing => server.view = "idle")'
    BY <1>0, <1>1, <1>2, <1>3, <1>5, <1>6, OneNotice DEF Places, OutputFlags, Writers,
       Orders, View, OutputType, AppType
  <2>9. QED
    BY <2>1, <2>2, <2>3, <2>4, <2>5, <2>6, <2>7, <2>8 DEF View
<1>17. Files'
  BY <1>0, <1>1, <1>2, <1>3, <1>5, <1>6, OneNotice DEF Files, OutputType, AppType
<1>18. Leftover'
  BY <1>0, <1>1, <1>2, <1>3, <1>5, <1>6 DEF Leftover, OutputType, AppType
<1>19. QED
  BY <1>1, <1>10, <1>11, <1>12, <1>13, <1>14, <1>15, <1>16, <1>17, <1>18 DEF Settled,
     Flags

\* The start thread signals that the file could not be opened.
LEMMA ConnectFailedSettles ==
  ASSUME TypeOK, Settled, Patient, NEW s \in StartThreads, ConnectFailed(s)
  PROVE  Settled'
<1>0. /\ Frames /\ Single /\ Places /\ Starts /\ OutputFlags /\ FfFlags
      /\ Writers /\ Orders /\ View /\ Files /\ Leftover
      /\ output \in OutputType /\ ff \in FfType /\ app \in AppType
      /\ server \in ServerType
  BY DEF TypeOK, Settled, Flags
<1>1. Go("connect_failed", "end_check") /\ Frames' /\ Single' /\ Kept
  <2>1. stack[s] = <<>>
    BY <1>0, <1>0, RecordAssumption DEF ConnectFailed, Frames, FramesAt
  <2>2. <<"start_return">> \o stack[s] = <<"start_return">>
    BY <2>1, Push2, Push3
  <2>3. <<"start_return">> \in FramesAt(s, "end_check")
    BY <1>0, RecordAssumption DEF FramesAt
  <2>4. /\ SameHandles /\ s \in Threads /\ pc[s] = "connect_failed"
        /\ Call(s, "end_check", "start_return")
    BY <1>0, <1>0, RecordAssumption DEF ConnectFailed, Callers, SameHandles, SignalStop,
       FfType, OutputType
  <2>5. <<"start_return">> \o stack[s] \in FramesAt(s, "end_check")
    BY <2>2, <2>3
  <2>6. s # Main \/ "end_check" # "full_stop"
    BY RecordAssumption
  <2>7. QED
    BY <1>0, <2>4, <2>5, <2>6, CallsTo
<1>2. /\ output' = [output EXCEPT !.stopCode = "connect_failed"]
      /\ UNCHANGED <<ff, disk, app, server>>
  BY DEF ConnectFailed, SignalStop
<1>3. Stopper' = Stopper
  BY <1>0, <1>1 DEF Places, Starts, Orders, Stopper
<1>5. /\ Starter = "connect_failed" /\ Starter' = "end_check"
      /\ UNCHANGED <<Writer, Ender, Slot, Leaver>>
  BY <1>0, <1>1 DEF Places, Starts
<1>10. Places'
  BY <1>0, <1>1, <1>2, <1>3, <1>5 DEF Places, OutputType
<1>11. Starts'
  BY <1>0, <1>1, <1>2, <1>3, <1>5 DEF Starts, OutputType
<1>12. OutputFlags'
  BY <1>0, <1>1, <1>2, <1>3, <1>5 DEF OutputFlags, OutputType
<1>13. FfFlags'
  BY <1>0, <1>1, <1>2, <1>3, <1>5 DEF FfFlags, OutputType
<1>14. Writers'
  BY <1>0, <1>1, <1>2, <1>3, <1>5 DEF Writers, OutputType
<1>15. Orders'
  BY <1>0, <1>1, <1>2, <1>3, <1>5 DEF Orders, OutputType
<1>16. View'
  BY <1>0, <1>1, <1>2, <1>3, <1>5 DEF View, OutputType
<1>17. Files'
  BY <1>0, <1>1, <1>2, <1>3, <1>5 DEF Files, OutputType
<1>18. Leftover'
  BY <1>0, <1>1, <1>2, <1>3, <1>5 DEF Leftover, OutputType
<1>19. QED
  BY <1>1, <1>10, <1>11, <1>12, <1>13, <1>14, <1>15, <1>16, <1>17, <1>18 DEF Settled,
     Flags

\* The slot creates the end thread.
LEMMA EndCreateOBSSettles ==
  ASSUME TypeOK, Settled, Patient, NEW t \in Callers, NEW e \in EndThreads, EndCreate(t,
  e), Silent,
         t = OBS
  PROVE  Settled'
<1>0. /\ Frames /\ Single /\ Places /\ Starts /\ OutputFlags /\ FfFlags
      /\ Writers /\ Orders /\ View /\ Files /\ Leftover
      /\ output \in OutputType /\ ff \in FfType /\ app \in AppType
      /\ server \in ServerType
  BY DEF TypeOK, Settled, Flags
<1>4. Stopper = "end_create" /\ Slot = "end_create" /\ Ender = Dead
  <2>1. Slot = "end_create"
    BY <1>0, Stands, RecordAssumption DEF EndCreate, Slot
  <2>2. Stopper = "end_create"
    BY <1>0, <2>1 DEF Places, Orders, Stopper
  <2>3. QED
    BY <1>0, <2>1, <2>2 DEF OutputFlags
<1>1. /\ Slot' = "end_signal" /\ Ender' = "end_disconnect"
      /\ UNCHANGED <<Starter, Leaver, Writer>> /\ Frames' /\ Single' /\ (Short' <=> Short)
  <2>1. /\ /\ t \in Threads /\ e \in EndThreads /\ t \notin EndThreads
        /\ pc[t] = "end_create" /\ At(EndThreads) = Dead
        /\ pc' = [pc EXCEPT ![t] = "end_signal", ![e] = "end_disconnect"] /\ UNCHANGED stack
    BY <1>0, <1>4, RecordAssumption DEF EndCreate, Callers, Ender
  <2>2. /\ FramesAt(t, "end_create") \subseteq FramesAt(t, "end_signal")
        /\ <<>> \in FramesAt(e, "end_disconnect") /\ FramesAt(e, Dead) = {<<>>}
    BY <2>1, <1>4, RecordAssumption DEF FramesAt
  <2>3. Created(t, EndThreads, e, "end_signal", "end_disconnect")
    <3>1. pc[t] # Dead
      BY <2>1
    <3>2. FramesAt(t, pc[t]) \subseteq FramesAt(t, "end_signal")
      BY <2>1, <2>2
    <3>3. QED
      BY <1>0, <2>1, <2>2, <3>1, <3>2, Creates
  <2>4. StartThreads # EndThreads /\ WriteThreads # EndThreads
    BY <2>1, RecordAssumption
  <2>5. /\ Ender' = "end_disconnect"
        /\ Starter' = (IF t \in StartThreads THEN "end_signal" ELSE Starter)
        /\ Writer' = (IF t \in WriteThreads THEN "end_signal" ELSE Writer)
    BY <2>3, <2>4 DEF Starter, Writer, Ender, Created
  <2>6. Single'
    <3>1. /\ Alone(EndThreads)' /\ Alone(StartThreads)' /\ Alone(WriteThreads)'
          /\ Live(StartThreads)' \subseteq Live(StartThreads)
          /\ Live(WriteThreads)' \subseteq Live(WriteThreads)
      BY <2>3, <2>4 DEF Alone, Created
    <3>2. QED
      BY <1>0, <2>3, <3>1 DEF Single, Created, EndCreate, Silent, Outside, FfType,
         OutputType
  <2>7. Short' <=> Short
    BY <2>1 DEF Short
  <2>8. QED
    BY <1>0, <1>4, <2>1, <2>3, <2>5, <2>6, <2>7, RecordAssumption DEF Ender, Slot,
       Leaver, Created
<1>2. output' = [output EXCEPT !.endThread = e] /\ UNCHANGED <<ff, disk, app, server>>
  BY DEF EndCreate, Silent
<1>3. Stopper' = "end_signal"
  BY <1>0, <1>1, <1>4 DEF Places, Orders, Stopper
<1>10. Places'
  BY <1>0, <1>1, <1>2, <1>3, <1>4 DEF Places, OutputType
<1>11. Starts'
  BY <1>0, <1>1, <1>2, <1>3, <1>4 DEF Starts, OutputType
<1>12. OutputFlags'
  BY <1>0, <1>1, <1>2, <1>3, <1>4 DEF Places, OutputFlags, Orders, OutputType
<1>13. FfFlags'
  BY <1>0, <1>1, <1>2, <1>3, <1>4 DEF FfFlags, OutputType
<1>14. Writers'
  BY <1>0, <1>1, <1>2, <1>3, <1>4 DEF Writers, OutputType
<1>15. Orders'
  BY <1>0, <1>1, <1>2, <1>3, <1>4 DEF Orders, OutputType
<1>16. View'
  BY <1>0, <1>1, <1>2, <1>3, <1>4 DEF View, OutputType
<1>17. Files'
  BY <1>0, <1>1, <1>2, <1>3, <1>4 DEF Files, OutputType
<1>18. Leftover'
  BY <1>0, <1>1, <1>2, <1>3, <1>4 DEF Leftover, OutputType
<1>19. QED
  BY <1>1, <1>10, <1>11, <1>12, <1>13, <1>14, <1>15, <1>16, <1>17, <1>18 DEF Settled,
     Flags

\* The main thread does.
LEMMA EndCreateMainSettles ==
  ASSUME TypeOK, Settled, Patient, NEW t \in Callers, NEW e \in EndThreads, EndCreate(t,
  e), Silent,
         t = Main
  PROVE  Settled'
<1>0. /\ Frames /\ Single /\ Places /\ Starts /\ OutputFlags /\ FfFlags
      /\ Writers /\ Orders /\ View /\ Files /\ Leftover
      /\ output \in OutputType /\ ff \in FfType /\ app \in AppType
      /\ server \in ServerType
  BY DEF TypeOK, Settled, Flags
<1>4. Stopper = "end_create" /\ Leaver = "end_create" /\ Ender = Dead
  <2>1. Leaver = "end_create"
    BY <1>0, Stands, RecordAssumption DEF EndCreate, Leaver
  <2>2. Stopper = "end_create"
    BY <1>0, <2>1 DEF Places, Orders, Stopper
  <2>3. QED
    BY <1>0, <2>1, <2>2 DEF OutputFlags
<1>1. /\ Leaver' = "end_signal" /\ Ender' = "end_disconnect"
      /\ UNCHANGED <<Starter, Slot, Writer>> /\ Frames' /\ Single' /\ (Short' <=> Short)
  <2>1. /\ /\ t \in Threads /\ e \in EndThreads /\ t \notin EndThreads
        /\ pc[t] = "end_create" /\ At(EndThreads) = Dead
        /\ pc' = [pc EXCEPT ![t] = "end_signal", ![e] = "end_disconnect"] /\ UNCHANGED stack
    BY <1>0, <1>4, RecordAssumption DEF EndCreate, Callers, Ender
  <2>2. /\ FramesAt(t, "end_create") \subseteq FramesAt(t, "end_signal")
        /\ <<>> \in FramesAt(e, "end_disconnect") /\ FramesAt(e, Dead) = {<<>>}
    BY <2>1, <1>4, RecordAssumption DEF FramesAt
  <2>3. Created(t, EndThreads, e, "end_signal", "end_disconnect")
    <3>1. pc[t] # Dead
      BY <2>1
    <3>2. FramesAt(t, pc[t]) \subseteq FramesAt(t, "end_signal")
      BY <2>1, <2>2
    <3>3. QED
      BY <1>0, <2>1, <2>2, <3>1, <3>2, Creates
  <2>4. StartThreads # EndThreads /\ WriteThreads # EndThreads
    BY <2>1, RecordAssumption
  <2>5. /\ Ender' = "end_disconnect"
        /\ Starter' = (IF t \in StartThreads THEN "end_signal" ELSE Starter)
        /\ Writer' = (IF t \in WriteThreads THEN "end_signal" ELSE Writer)
    BY <2>3, <2>4 DEF Starter, Writer, Ender, Created
  <2>6. Single'
    <3>1. /\ Alone(EndThreads)' /\ Alone(StartThreads)' /\ Alone(WriteThreads)'
          /\ Live(StartThreads)' \subseteq Live(StartThreads)
          /\ Live(WriteThreads)' \subseteq Live(WriteThreads)
      BY <2>3, <2>4 DEF Alone, Created
    <3>2. QED
      BY <1>0, <2>3, <3>1 DEF Single, Created, EndCreate, Silent, Outside, FfType,
         OutputType
  <2>7. Short' <=> Short
    BY <2>1 DEF Short
  <2>8. QED
    BY <1>0, <1>4, <2>1, <2>3, <2>5, <2>6, <2>7, RecordAssumption DEF Ender, Slot,
       Leaver, Created
<1>2. output' = [output EXCEPT !.endThread = e] /\ UNCHANGED <<ff, disk, app, server>>
  BY DEF EndCreate, Silent
<1>3. Stopper' = "end_signal"
  BY <1>0, <1>1, <1>4 DEF Places, Orders, Stopper
<1>10. Places'
  BY <1>0, <1>1, <1>2, <1>3, <1>4 DEF Places, OutputType
<1>11. Starts'
  BY <1>0, <1>1, <1>2, <1>3, <1>4 DEF Starts, OutputType
<1>12. OutputFlags'
  BY <1>0, <1>1, <1>2, <1>3, <1>4 DEF Places, OutputFlags, Orders, OutputType
<1>13. FfFlags'
  BY <1>0, <1>1, <1>2, <1>3, <1>4 DEF FfFlags, OutputType
<1>14. Writers'
  BY <1>0, <1>1, <1>2, <1>3, <1>4 DEF Writers, OutputType
<1>15. Orders'
  BY <1>0, <1>1, <1>2, <1>3, <1>4 DEF Orders, OutputType
<1>16. View'
  BY <1>0, <1>1, <1>2, <1>3, <1>4 DEF Places, OutputFlags, Writers, Orders, View,
     OutputType
<1>17. Files'
  BY <1>0, <1>1, <1>2, <1>3, <1>4 DEF Files, OutputType
<1>18. Leftover'
  BY <1>0, <1>1, <1>2, <1>3, <1>4 DEF Leftover, OutputType
<1>19. QED
  BY <1>1, <1>10, <1>11, <1>12, <1>13, <1>14, <1>15, <1>16, <1>17, <1>18 DEF Settled,
     Flags

\* The write thread does.
LEMMA EndCreateWriterSettles ==
  ASSUME TypeOK, Settled, Patient, NEW t \in Callers, NEW e \in EndThreads, EndCreate(t,
  e), Silent,
         t \in WriteThreads
  PROVE  Settled'
<1>0. /\ Frames /\ Single /\ Places /\ Starts /\ OutputFlags /\ FfFlags
      /\ Writers /\ Orders /\ View /\ Files /\ Leftover
      /\ output \in OutputType /\ ff \in FfType /\ app \in AppType
      /\ server \in ServerType
  BY DEF TypeOK, Settled, Flags
<1>4. Stopper = "end_create" /\ Writer = "end_create" /\ Ender = Dead
  <2>1. Writer = "end_create"
    BY <1>0, Stands, RecordAssumption DEF EndCreate
  <2>2. Stopper = "end_create"
    BY <1>0, <2>1 DEF Places, Orders, Stopper
  <2>3. QED
    BY <1>0, <2>1, <2>2 DEF OutputFlags
<1>1. /\ Writer' = "end_signal" /\ Ender' = "end_disconnect"
      /\ UNCHANGED <<Starter, Slot, Leaver>> /\ Frames' /\ Single' /\ (Short' <=> Short)
  <2>1. /\ /\ t \in Threads /\ e \in EndThreads /\ t \notin EndThreads
        /\ pc[t] = "end_create" /\ At(EndThreads) = Dead
        /\ pc' = [pc EXCEPT ![t] = "end_signal", ![e] = "end_disconnect"] /\ UNCHANGED stack
    BY <1>0, <1>4, RecordAssumption DEF EndCreate, Callers, Ender
  <2>2. /\ FramesAt(t, "end_create") \subseteq FramesAt(t, "end_signal")
        /\ <<>> \in FramesAt(e, "end_disconnect") /\ FramesAt(e, Dead) = {<<>>}
    BY <2>1, <1>4, RecordAssumption DEF FramesAt
  <2>3. Created(t, EndThreads, e, "end_signal", "end_disconnect")
    <3>1. pc[t] # Dead
      BY <2>1
    <3>2. FramesAt(t, pc[t]) \subseteq FramesAt(t, "end_signal")
      BY <2>1, <2>2
    <3>3. QED
      BY <1>0, <2>1, <2>2, <3>1, <3>2, Creates
  <2>4. StartThreads # EndThreads /\ WriteThreads # EndThreads
    BY <2>1, RecordAssumption
  <2>5. /\ Ender' = "end_disconnect"
        /\ Starter' = (IF t \in StartThreads THEN "end_signal" ELSE Starter)
        /\ Writer' = (IF t \in WriteThreads THEN "end_signal" ELSE Writer)
    BY <2>3, <2>4 DEF Starter, Writer, Ender, Created
  <2>6. Single'
    <3>1. /\ Alone(EndThreads)' /\ Alone(StartThreads)' /\ Alone(WriteThreads)'
          /\ Live(StartThreads)' \subseteq Live(StartThreads)
          /\ Live(WriteThreads)' \subseteq Live(WriteThreads)
      BY <2>3, <2>4 DEF Alone, Created
    <3>2. QED
      BY <1>0, <2>3, <3>1 DEF Single, Created, EndCreate, Silent, Outside, FfType,
         OutputType
  <2>7. Short' <=> Short
    BY <2>1 DEF Short
  <2>8. QED
    BY <1>0, <1>4, <2>1, <2>3, <2>5, <2>6, <2>7, RecordAssumption DEF Ender, Slot,
       Leaver, Created
<1>2. output' = [output EXCEPT !.endThread = e] /\ UNCHANGED <<ff, disk, app, server>>
  BY DEF EndCreate, Silent
<1>3. Stopper' = "end_signal"
  BY <1>0, <1>1, <1>4 DEF Places, Orders, Stopper
<1>10. Places'
  BY <1>0, <1>1, <1>2, <1>3, <1>4 DEF Places, OutputType
<1>11. Starts'
  BY <1>0, <1>1, <1>2, <1>3, <1>4 DEF Starts, OutputType
<1>12. OutputFlags'
  BY <1>0, <1>1, <1>2, <1>3, <1>4 DEF Places, Starts, OutputFlags, Orders, OutputType
<1>13. FfFlags'
  BY <1>0, <1>1, <1>2, <1>3, <1>4 DEF FfFlags, OutputType
<1>14. Writers'
  BY <1>0, <1>1, <1>2, <1>3, <1>4 DEF Writers, OutputType
<1>15. Orders'
  BY <1>0, <1>1, <1>2, <1>3, <1>4 DEF OutputFlags, Orders, OutputType
<1>16. View'
  BY <1>0, <1>1, <1>2, <1>3, <1>4 DEF View, OutputType
<1>17. Files'
  BY <1>0, <1>1, <1>2, <1>3, <1>4 DEF Files, OutputType
<1>18. Leftover'
  BY <1>0, <1>1, <1>2, <1>3, <1>4 DEF Leftover, OutputType
<1>19. QED
  BY <1>1, <1>10, <1>11, <1>12, <1>13, <1>14, <1>15, <1>16, <1>17, <1>18 DEF Settled,
     Flags

\* The start thread creates the write thread.
LEMMA CreateWriterSettles ==
  ASSUME TypeOK, Settled, Patient, NEW s \in StartThreads, NEW w \in WriteThreads,
  CreateWriterAs(s, w)
  PROVE  Settled'
<1>0. /\ Frames /\ Single /\ Places /\ Starts /\ OutputFlags /\ FfFlags
      /\ Writers /\ Orders /\ View /\ Files /\ Leftover
      /\ output \in OutputType /\ ff \in FfType /\ app \in AppType
      /\ server \in ServerType
  BY DEF TypeOK, Settled, Flags
<1>4. Starter = "create_writer" /\ Writer = Dead
  <2>1. Starter = "create_writer"
    BY <1>0, Stands, RecordAssumption DEF CreateWriterAs
  <2>2. QED
    BY <1>0, <2>1 DEF Starts
<1>1. /\ Starter' = "begin_capture" /\ Writer' = "write_wait"
      /\ UNCHANGED <<Ender, Slot, Leaver>> /\ Frames' /\ Single' /\ (Short' <=> Short)
  <2>1. /\ /\ s \in Threads /\ w \in WriteThreads /\ s \notin WriteThreads
        /\ pc[s] = "create_writer" /\ At(WriteThreads) = Dead
        /\ pc' = [pc EXCEPT ![s] = "begin_capture", ![w] = "write_wait"] /\ UNCHANGED stack
    BY <1>0, <1>4, RecordAssumption DEF CreateWriterAs, Callers, Writer
  <2>2. /\ FramesAt(s, "create_writer") \subseteq FramesAt(s, "begin_capture")
        /\ <<>> \in FramesAt(w, "write_wait") /\ FramesAt(w, Dead) = {<<>>}
    BY <2>1, <1>4, RecordAssumption DEF FramesAt
  <2>3. Created(s, WriteThreads, w, "begin_capture", "write_wait")
    <3>1. pc[s] # Dead
      BY <2>1
    <3>2. FramesAt(s, pc[s]) \subseteq FramesAt(s, "begin_capture")
      BY <2>1, <2>2
    <3>3. QED
      BY <1>0, <2>1, <2>2, <3>1, <3>2, Creates
  <2>4. StartThreads # WriteThreads /\ EndThreads # WriteThreads
    BY <2>1, RecordAssumption
  <2>5. /\ Writer' = "write_wait"
        /\ Starter' = (IF s \in StartThreads THEN "begin_capture" ELSE Starter)
        /\ Ender' = (IF s \in EndThreads THEN "begin_capture" ELSE Ender)
    BY <2>3, <2>4 DEF Starter, Writer, Ender, Created
  <2>6. Single'
    <3>1. /\ Alone(WriteThreads)' /\ Alone(StartThreads)' /\ Alone(EndThreads)'
          /\ Live(StartThreads)' \subseteq Live(StartThreads)
          /\ Live(EndThreads)' \subseteq Live(EndThreads)
      BY <2>3, <2>4 DEF Alone, Created
    <3>2. QED
      BY <1>0, <2>3, <3>1 DEF Single, Created, CreateWriterAs, Silent, Outside, FfType,
         OutputType
  <2>7. Short' <=> Short
    BY <2>1 DEF Short
  <2>8. QED
    BY <1>0, <1>4, <2>1, <2>3, <2>5, <2>6, <2>7, RecordAssumption DEF Writer, Slot,
       Leaver, Created
<1>2. /\ ff' = [ff EXCEPT !.writeThread = w, !.detached = @ \ {w}]
      /\ UNCHANGED <<output, disk, app, server>>
  BY DEF CreateWriterAs, Outside
<1>3. Stopper' = Dead /\ Stopper = Dead
  BY <1>0, <1>1, <1>4 DEF Stopper, Starts, Orders
<1>5. /\ Ender = Dead /\ Leaver = "loop" /\ Slot \in {"set_connecting", "idle"}
      /\ ~ff.stopping
  BY <1>0, <1>4 DEF Starts
<1>10. Places'
  BY <1>0, <1>1, <1>2, <1>3, <1>4, <1>5 DEF Places, FfType
<1>11. Starts'
  BY <1>0, <1>1, <1>2, <1>3, <1>4, <1>5 DEF Starts, FfType
<1>12. OutputFlags'
  BY <1>0, <1>1, <1>2, <1>3, <1>4, <1>5 DEF OutputFlags, FfType
<1>13. FfFlags'
  BY <1>0, <1>1, <1>2, <1>3, <1>4, <1>5 DEF FfFlags, FfType
<1>14. Writers'
  BY <1>0, <1>1, <1>2, <1>3, <1>4, <1>5 DEF Writers, FfType
<1>15. Orders'
  BY <1>0, <1>1, <1>2, <1>3, <1>4, <1>5 DEF Orders, FfType
<1>16. View'
  BY <1>0, <1>1, <1>2, <1>3, <1>4, <1>5 DEF View, FfType
<1>17. Files'
  BY <1>0, <1>1, <1>2, <1>3, <1>4, <1>5 DEF Files, FfType
<1>18. Leftover'
  BY <1>0, <1>1, <1>2, <1>3, <1>4, <1>5 DEF Leftover, FfType
<1>19. QED
  BY <1>1, <1>10, <1>11, <1>12, <1>13, <1>14, <1>15, <1>16, <1>17, <1>18 DEF Settled,
     Flags

\* The start slot creates the start thread.
LEMMA FfmpegStartSettles ==
  ASSUME TypeOK, Settled, Patient, NEW s \in StartThreads, FfmpegStartAs(s)
  PROVE  Settled'
<1>0. /\ Frames /\ Single /\ Places /\ Starts /\ OutputFlags /\ FfFlags
      /\ Writers /\ Orders /\ View /\ Files /\ Leftover
      /\ output \in OutputType /\ ff \in FfType /\ app \in AppType
      /\ server \in ServerType
  BY DEF TypeOK, Settled, Flags
<1>4. Slot = "plugin_start" /\ Starter = Dead
  BY <1>0 DEF FfmpegStartAs, Slot, Orders
<1>1. /\ Starter' = "data_init" /\ Slot' = "set_connecting"
      /\ UNCHANGED <<Writer, Ender, Leaver>> /\ Frames' /\ Single' /\ (Short' <=> Short)
  <2>1. /\ /\ OBS \in Threads /\ s \in StartThreads /\ OBS \notin StartThreads
        /\ pc[OBS] = "plugin_start" /\ At(StartThreads) = Dead
        /\ pc' = [pc EXCEPT ![OBS] = "set_connecting", ![s] = "data_init"] /\ UNCHANGED stack
    BY <1>0, <1>4, RecordAssumption DEF FfmpegStartAs, Callers, Starter
  <2>2. /\ FramesAt(OBS, "plugin_start") \subseteq FramesAt(OBS, "set_connecting")
        /\ <<>> \in FramesAt(s, "data_init") /\ FramesAt(s, Dead) = {<<>>}
    BY <2>1, <1>4, RecordAssumption DEF FramesAt
  <2>3. Created(OBS, StartThreads, s, "set_connecting", "data_init")
    <3>1. pc[OBS] # Dead
      BY <2>1
    <3>2. FramesAt(OBS, pc[OBS]) \subseteq FramesAt(OBS, "set_connecting")
      BY <2>1, <2>2
    <3>3. QED
      BY <1>0, <2>1, <2>2, <3>1, <3>2, Creates
  <2>4. WriteThreads # StartThreads /\ EndThreads # StartThreads
    BY <2>1, RecordAssumption
  <2>5. /\ Starter' = "data_init"
        /\ Writer' = (IF OBS \in WriteThreads THEN "set_connecting" ELSE Writer)
        /\ Ender' = (IF OBS \in EndThreads THEN "set_connecting" ELSE Ender)
    BY <2>3, <2>4 DEF Starter, Writer, Ender, Created
  <2>6. Single'
    <3>1. /\ Alone(StartThreads)' /\ Alone(WriteThreads)' /\ Alone(EndThreads)'
          /\ Live(WriteThreads)' \subseteq Live(WriteThreads)
          /\ Live(EndThreads)' \subseteq Live(EndThreads)
      BY <2>3, <2>4 DEF Alone, Created
    <3>2. QED
      BY <1>0, <2>3, <3>1 DEF Single, Created, FfmpegStartAs, Silent, Outside, FfType,
         OutputType
  <2>7. Short' <=> Short
    BY <2>1 DEF Short
  <2>8. QED
    BY <1>0, <1>4, <2>1, <2>3, <2>5, <2>6, <2>7, RecordAssumption DEF Starter, Slot,
       Leaver, Created
<1>2. /\ ff' = [ff EXCEPT !.stopping = FALSE, !.stopTs = "old"]
      /\ UNCHANGED <<output, disk, app, server>>
  BY DEF FfmpegStartAs, Outside
<1>3. Stopper' = Stopper
  BY <1>0, <1>1, <1>4 DEF Stopper, Starts
<1>10. Places'
  BY <1>0, <1>1, <1>2, <1>3, <1>4 DEF Places, FfType
<1>11. Starts'
  BY <1>0, <1>1, <1>2, <1>3, <1>4 DEF Places, Starts, Orders, FfType
<1>12. OutputFlags'
  BY <1>0, <1>1, <1>2, <1>3, <1>4 DEF Places, OutputFlags, Orders, FfType
<1>13. FfFlags'
  BY <1>0, <1>1, <1>2, <1>3, <1>4 DEF Places, Starts, OutputFlags, FfFlags, Orders,
     FfType
<1>14. Writers'
  BY <1>0, <1>1, <1>2, <1>3, <1>4 DEF Places, Writers, Orders, FfType
<1>15. Orders'
  BY <1>0, <1>1, <1>2, <1>3, <1>4 DEF Orders, FfType
<1>16. View'
  BY <1>0, <1>1, <1>2, <1>3, <1>4 DEF View, FfType
<1>17. Files'
  BY <1>0, <1>1, <1>2, <1>3, <1>4 DEF Files, FfType
<1>18. Leftover'
  BY <1>0, <1>1, <1>2, <1>3, <1>4 DEF Leftover, FfType
<1>19. QED
  BY <1>1, <1>10, <1>11, <1>12, <1>13, <1>14, <1>15, <1>16, <1>17, <1>18 DEF Settled,
     Flags

(***************************************************************************)
(* The steps together.                                                     *)
(***************************************************************************)
\* The parts of Settled, with the types of what they speak of.
LEMMA Parts ==
  ASSUME TypeOK, Settled
  PROVE  /\ Frames /\ Single /\ Places /\ Starts /\ OutputFlags /\ FfFlags
         /\ Writers /\ Orders /\ View /\ Files /\ Leftover
         /\ output \in OutputType /\ ff \in FfType /\ app \in AppType
         /\ server \in ServerType
BY DEF TypeOK, Settled, Flags

\* Initially nothing is under way.
LEMMA InitSettled == Init => Settled
<1> SUFFICES ASSUME Init PROVE Settled
  OBVIOUS
<1>1. /\ pc[OBS] = "idle" /\ pc[Main] = "loop"
      /\ \A t \in StartThreads \cup WriteThreads \cup EndThreads : pc[t] = Dead
      /\ \A t \in Threads : stack[t] = <<>>
  BY RecordAssumption DEF Init
<1>2. Live(StartThreads) = {} /\ Live(WriteThreads) = {} /\ Live(EndThreads) = {}
  BY <1>1 DEF Live
<1>3. /\ Starter = Dead /\ Writer = Dead /\ Ender = Dead
      /\ Slot = "idle" /\ Leaver = "loop"
  BY <1>1, <1>2 DEF Starter, Writer, Ender, Slot, Leaver, At
<1>4. Stopper = Dead
  BY <1>3 DEF Stopper
<1>5. Frames /\ Single
  <2>1. Frames
    BY <1>1, RecordAssumption DEF Frames, FramesAt
  <2>2. Single
    BY <1>2 DEF Init, Single, Alone
  <2>3. QED
    BY <2>1, <2>2
<1>6. Places /\ Starts /\ Writers
  BY <1>3, <1>4 DEF Places, Starts, Writers
<1>7. OutputFlags /\ FfFlags
  BY <1>3, <1>4 DEF OutputFlags, FfFlags, Init, ObsOutputCreate
<1>8. Orders
  BY <1>3, <1>4 DEF Orders, Init, ObsOutputCreate
<1>9. View /\ Files /\ Leftover
  BY <1>3, <1>4 DEF View, Files, Leftover, Init, ObsOutputCreate
<1>10. QED
  BY <1>5, <1>6, <1>7, <1>8, <1>9 DEF Settled, Flags

\* What libobs steps through in a calling thread keeps it,
LEMMA ObsSettles ==
  ASSUME TypeOK, Settled, Patient, NEW t \in Callers, ObsStep(t)
  PROVE  Settled'
<1>0. /\ Places /\ Single
  BY Parts
<1>1. CASE (ActualStart(t) \/ ObsOutputStop(t) \/ ActualStop(t)) /\ Silent
  BY <1>1, ActualStartSettles, ObsStopSettles, ActualStopSettles
<1>2. CASE (ObsOutputForceStop(t) \/ ActualForceStop(t)) /\ Silent
  BY <1>2, ForceStopSettles, ActualForceStopSettles
<1>3. CASE (EndCheck(t) \/ EndClear(t) \/ EndJoin(t)) /\ Silent
  BY <1>3, EndCheckSettles, EndNothingSettles, EndClearSettles, EndJoinSettles
<1>4. ASSUME NEW e \in EndThreads, EndCreate(t, e), Silent PROVE Settled'
  <2>1. t \in {OBS, Main} \cup WriteThreads
    BY <1>0, <1>4, Stands DEF Callers, EndCreate, Places
  <2>2. QED
    BY <1>4, <2>1, EndCreateOBSSettles, EndCreateMainSettles, EndCreateWriterSettles
<1>5. CASE (EndInactive(t) \/ EndSignal(t)) /\ RecordingStopped(t)
                                            /\ UNCHANGED <<ff, disk>>
  <2>1. CASE EndInactive(t)
    BY <1>5, <2>1, EndInactiveSettles
  <2>2. CASE EndSignal(t)
    <3>1. t \in {OBS, Main} \cup WriteThreads
      BY <1>0, <2>2, Stands DEF Callers, EndSignal, Places
    <3>2. QED
      BY <1>5, <2>2, <3>1, SignalOBSSettles, SignalMainSettles,
         SignalWriterSettles, SignalNobodySettles
  <2>3. QED
    BY <1>5, <2>1, <2>2
<1>6. CASE (Destroy(t) \/ DestroyWait(t) \/ DestroyJoin(t)) /\ Silent
  BY <1>6, DestroyActiveSettles, DestroyIdleSettles, DestroyWaitSettles,
     DestroyJoinSettles
<1>7. QED
  BY <1>1, <1>2, <1>3, <1>4, <1>5, <1>6 DEF ObsStep, Patient

\* the steps that stop the recorder,
LEMMA StopSettles ==
  ASSUME TypeOK, Settled, Patient, NEW t \in Callers, StopStep(t)
  PROVE  Settled'
<1>0. /\ Places /\ Single
  BY Parts
<1>1. CASE FfmpegStop(t) \/ SetStopTs(t) \/ FfmpegForceStop(t)
  BY <1>1, FfmpegStopSettles, SetStopTsSettles, PluginForceSettles,
     PluginForceMainSettles
<1>2. CASE FullStop(t)
  <2>1. t \in {OBS, Main} \cup WriteThreads
    BY <1>0, <1>2, Stands DEF Callers, FullStop, Places
  <2>2. QED
    BY <1>2, <2>1, FullStopOBSSettles, FullStopMainSettles,
       FullStopWriterSettles, FullStopNothingSettles
<1>3. CASE Deactivate(t) \/ JoinWriter(t) \/ FreePackets(t) \/ WriteTrailer(t)
  BY <1>3, DeactivateSettles, JoinWriterSettles, FreePacketsSettles,
     WriteTrailerSettles
<1>4. CASE CloseFile(t)
  <2>1. t \in {OBS, Main} \cup WriteThreads
    BY <1>0, <1>4, Stands DEF Callers, CloseFile, Places
  <2>2. QED
    BY <1>4, <2>1, CloseFileOBSSettles, CloseFileMainSettles,
       CloseFileWriterSettles
<1>5. QED
  BY <1>1, <1>2, <1>3, <1>4 DEF StopStep

\* those of the start thread,
LEMMA StartSettles ==
  ASSUME TypeOK, Settled, Patient, NEW s \in StartThreads, StartStep(s)
  PROVE  Settled'
<1>1. CASE DataInit(s) \/ OpenFile(s) \/ OpenFileFails(s) \/ SetActive(s)
  BY <1>1, DataInitSettles, OpenFileSettles, OpenFailsSettles, SetActiveSettles
<1>2. CASE CanBeginDataCapture(s, "create_writer", "connect_failed") /\ Silent
  BY <1>2, CanBeginSettles
<1>3. CASE CreateWriter(s)
  <2>1. PICK w \in WriteThreads :
          /\ pc[w] = Dead
          /\ ff' = [ff EXCEPT !.writeThread = w, !.detached = @ \ {w}]
          /\ pc' = [pc EXCEPT ![s] = "begin_capture", ![w] = "write_wait"]
    BY <1>3, Zenon DEF CreateWriter
  <2>2. CreateWriterAs(s, w)
    BY <1>3, <2>1 DEF CreateWriter, CreateWriterAs
  <2>3. QED
    BY <2>2, CreateWriterSettles
<1>4. CASE BeginDataCapture(s, "writer_active") /\ Silent
  BY <1>4, BeginCaptureSettles
<1>5. CASE BeginActivate(s, "writer_active") /\ Notify(s, Started)
                                             /\ UNCHANGED <<ff, disk>>
  BY <1>5, BeginActivateSettles
<1>6. CASE WriterActive(s) \/ ConnectFailed(s) \/ StartReturn(s)
  BY <1>6, WriterActiveSettles, ConnectFailedSettles, StartReturnSettles
<1>7. ~CreateWriterFails(s)
  BY DEF CreateWriterFails, Patient
<1>8. QED
  BY <1>1, <1>2, <1>3, <1>4, <1>5, <1>6, <1>7 DEF StartStep

\* of the write thread,
LEMMA WriteSettles ==
  ASSUME TypeOK, Settled, Patient, NEW w \in WriteThreads, WriteStep(w)
  PROVE  Settled'
<1>1. CASE WriteWait(w)
  BY <1>1, WriteStoppedSettles, WriteWokenSettles
<1>2. CASE ProcessPacket(w)
  BY <1>2, ProcessNothingSettles, ProcessFrameSettles, ProcessDueSettles
<1>3. CASE WriteFrame(w) \/ WriteReturn(w)
  BY <1>3, WriteFrameSettles, WriteReturnSettles
<1>4. ~WriteFrameFails(w)
  BY DEF WriteFrameFails, Patient
<1>5. QED
  BY <1>1, <1>2, <1>3, <1>4 DEF WriteStep

\* of the end thread: it alone runs them,
LEMMA EndSettles ==
  ASSUME TypeOK, Settled, Patient, NEW e \in Threads, EndStep(e)
  PROVE  Settled'
<1>0. /\ Places /\ Single
  BY Parts
<1>1. e \in EndThreads
  BY <1>0, Stands DEF EndStep, EndDisconnect, EndDeactivate, EndEvent, EndReturn,
     Places
<1>2. QED
  BY <1>1, EndDisconnectSettles, EndDeactivateSettles, EndEventSettles,
     EndReturnSettles DEF EndStep

\* of the slots,
LEMMA SlotSettles ==
  ASSUME TypeOK, Settled, Patient, SlotStep
  PROVE  Settled'
<1>0. /\ Places /\ Orders /\ FfFlags /\ View /\ ff \in FfType /\ server \in ServerType
  BY Parts
<1>1. CASE FfmpegStart
  <2>1. PICK s \in StartThreads : FfmpegStartAs(s)
    BY <1>1 DEF FfmpegStart, FfmpegStartAs
  <2>2. QED
    BY <2>1, FfmpegStartSettles
<1>2. ~FfmpegStartRefused
  BY <1>0 DEF FfmpegStartRefused, Orders, FfFlags, FfType, Slot
<1>3. ~FfmpegStartFails
  BY DEF FfmpegStartFails, Patient
<1>4. CASE SetConnecting
  BY <1>4, SetConnectingSettles
<1>5. ~StartFailed
  BY <1>0 DEF StartFailed, Places, Slot
<1>6. CASE Deliver
  <2>1. \/ server.view = "starting" /\ (Posted(Started) \/ Posted(Error))
        \/ server.view = "stopping" /\ Posted(Stopped(app.filePath))
    BY <1>0, <1>6 DEF Deliver, View, ServerType
  <2>2. QED
    BY <1>6, <2>1, DeliverStartedSettles, DeliverErrorSettles,
       DeliverStoppedSettles
<1>7. QED
  BY <1>1, <1>2, <1>3, <1>4, <1>5, <1>6 DEF SlotStep

\* and every step.
LEMMA NextSettled == Patient /\ TypeOK /\ Settled /\ [Next]_vars => Settled'
<1> SUFFICES ASSUME Patient, TypeOK, Settled, [Next]_vars PROVE Settled'
  OBVIOUS
<1>1. CASE Command
  <2>1. ASSUME NEW force \in BOOLEAN, StopRecording(force) PROVE Settled'
    BY <2>1, StopAskedSettles, ForceAskedSettles
  <2>2. QED
    BY <1>1, <2>1, StartRecordingSettles, StartEmptySettles DEF Command
<1>2. CASE SocketDisconnected \/ MainStep
  BY <1>2, SocketDropsSettles, ThreadQuitsSettles, ThreadWaitedSettles,
     FfmpegDestroySettles DEF MainStep
<1>3. CASE SlotStep
  BY <1>3, SlotSettles
<1>4. CASE CaptureStep
  BY <1>4, CaptureEnterSettles, CapturePushSettles, CaptureFreedSettles
     DEF CaptureStep
<1>5. ASSUME NEW t \in Callers, ObsStep(t) \/ StopStep(t) PROVE Settled'
  BY <1>5, ObsSettles, StopSettles
<1>6. ASSUME NEW s \in StartThreads, StartStep(s) PROVE Settled'
  BY <1>6, StartSettles
<1>7. ASSUME NEW w \in WriteThreads, WriteStep(w) PROVE Settled'
  BY <1>7, WriteSettles
<1>8. ASSUME NEW e \in Threads, EndStep(e) PROVE Settled'
  BY <1>8, EndSettles
<1>9. CASE UNCHANGED vars
  <2>1. /\ UNCHANGED <<Starter, Writer, Ender, Slot, Leaver>> /\ (Short' <=> Short)
        /\ Frames' /\ Single'
    BY <1>9, Parts, StaysPut DEF vars, SameHandles
  <2>2. Stopper' = Stopper
    BY <2>1 DEF Stopper
  <2>3. UNCHANGED <<output, ff, disk, app, server>>
    BY <1>9 DEF vars
  <2>4. Places' /\ Starts' /\ Writers'
    BY <2>1, <2>2, <2>3, Parts DEF Places, Starts, Writers
  <2>5. OutputFlags'
    BY <2>1, <2>2, <2>3, Parts DEF OutputFlags
  <2>6. FfFlags'
    BY <2>1, <2>2, <2>3, Parts DEF FfFlags
  <2>7. Orders'
    BY <2>1, <2>2, <2>3, Parts DEF Orders
  <2>8. Leftover'
    BY <2>1, <2>2, <2>3, Parts DEF Leftover
  <2>9. View'
    BY <2>1, <2>2, <2>3, Parts DEF View
  <2>10. Files'
    BY <2>1, <2>2, <2>3, Parts DEF Files
  <2>11. QED
    BY <2>1, <2>4, <2>5, <2>6, <2>7, <2>8, <2>9, <2>10 DEF Settled, Flags
<1>10. QED
  BY <1>1, <1>2, <1>3, <1>4, <1>5, <1>6, <1>7, <1>8, <1>9 DEF Next

\* So the places determine the flags in every state a patient server sees.
THEOREM AlwaysSettled ==
  ASSUME Patient
  PROVE  Spec => [](TypeOK /\ Settled)
<1>1. Init => TypeOK /\ Settled
  BY InitTypeOK, InitSettled
<1>2. TypeOK /\ Settled /\ [Next]_vars => (TypeOK /\ Settled)'
  BY NextTypeOK, NextSettled
<1>3. QED
  BY <1>1, <1>2, PTL DEF Spec

\* ffmpeg-output's write thread has the file open whenever it writes.
LEMMA SettledHasFile == TypeOK /\ Settled => WriterHasFile
<1> SUFFICES ASSUME TypeOK, Settled, NEW w \in WriteThreads, pc[w] = "write_frame"
             PROVE  ff.data # NoFile
  BY DEF WriterHasFile
<1>1. Writer = "write_frame"
  BY Parts, AtAlone DEF Single, Writer
<1>2. QED
  BY <1>1, Parts DEF FfFlags

\* Where a thread that closes the file stands.
LEMMA ClosingStands ==
  ASSUME TypeOK, Settled, NEW t \in Callers, Closing(t)
  PROVE  /\ \/ t = OBS /\ Slot \in Freeing
            \/ t = Main /\ Leaver \in Freeing
            \/ t \in WriteThreads /\ Writer \in Freeing
         /\ Stopper # Dead
<1>1. pc[t] \in {"write_trailer", "close_file"}
  BY DEF Closing
<1>2. \/ t = OBS /\ Slot \in Freeing
      \/ t = Main /\ Leaver \in Freeing
      \/ t \in WriteThreads /\ Writer \in Freeing
  BY <1>1, Parts, Stands DEF Callers, Places
<1>3. Stopper # Dead
  BY <1>2 DEF Stopper
<1>4. QED
  BY <1>2, <1>3

\* One thread at a time closes the file, and none opens one meanwhile.
LEMMA SettledOneOwner == TypeOK /\ Settled => OneOwnerOfData
<1> SUFFICES ASSUME TypeOK, Settled, NEW t \in Callers, NEW u \in Callers,
                    Closing(t), Closing(u) \/ pc[u] = "open_file"
             PROVE  t = u
  BY DEF OneOwnerOfData
<1>1. /\ \/ t = OBS /\ Slot \in Freeing
         \/ t = Main /\ Leaver \in Freeing
         \/ t \in WriteThreads /\ Writer \in Freeing
      /\ Stopper # Dead
  BY ClosingStands
<1>2. pc[u] # "open_file"
  <2>1. ASSUME pc[u] = "open_file" PROVE FALSE
    <3>1. Starter = "open_file"
      BY <2>1, Parts, Stands DEF Callers, Places
    <3>2. QED
      BY <1>1, <3>1, Parts DEF Starts
  <2>2. QED
    BY <2>1
<1>3. \/ u = OBS /\ Slot \in Freeing
      \/ u = Main /\ Leaver \in Freeing
      \/ u \in WriteThreads /\ Writer \in Freeing
  BY <1>2, ClosingStands
<1>4. t \in WriteThreads /\ u \in WriteThreads => t = u
  BY <1>2, Parts DEF Single, Alone, Live, Closing
<1>5. Slot \in Freeing \/ Leaver \in Freeing => Writer \notin Freeing
  BY Parts DEF Places
<1>6. ~(Slot \in Freeing /\ Leaver \in Freeing)
  BY Parts DEF Orders
<1>7. QED
  BY <1>1, <1>3, <1>4, <1>5, <1>6

\* At most one notification is under way, and one that is awaited.
LEMMA SettledNoStray == TypeOK /\ Settled => NoStrayNotice
BY Parts DEF View, NoStrayNotice

\* With every thread of a recording gone nothing of it is left.
LEMMA DrainedIsDown == Drained => Starter = Dead /\ Writer = Dead /\ Ender = Dead
BY DEF Drained, Live, Starter, Writer, Ender, At

\* What is left is what the flags say when no thread is left.
LEMMA SettledClean == TypeOK /\ Settled => CleanWhenDrained
<1> SUFFICES ASSUME TypeOK, Settled, Drained, Slot = "idle"
             PROVE  /\ ~output.active /\ ~output.dataActive /\ ~output.hooked
                    /\ output.stoppingEvent /\ ~output.endThreadActive
                    /\ ~ff.active /\ ~ff.connecting /\ ~ff.writeThreadActive
                    /\ ~ff.stopEvent /\ Len(ff.packets) <= 1 /\ ff.data = NoFile
  BY DEF CleanWhenDrained, Slot
<1>1. Starter = Dead /\ Writer = Dead /\ Ender = Dead
  BY DrainedIsDown
<1>2. Leaver \in {"loop", "wait_thread"}
  BY Parts DEF Orders, Places
<1>3. Stopper = Dead
  BY <1>1, <1>2 DEF Stopper
<1>4. /\ ~output.active /\ ~output.dataActive /\ ~output.hooked
      /\ output.stoppingEvent /\ ~output.endThreadActive
  BY <1>1, <1>2, <1>3, Parts DEF OutputFlags, OutputType
<1>5. /\ ~ff.active /\ ~ff.connecting /\ ~ff.writeThreadActive
      /\ ~ff.stopEvent /\ ff.data = NoFile
  BY <1>1, <1>3, <1>4, Parts DEF FfFlags, FfType
<1>6. Len(ff.packets) <= 1
  BY <1>3, <1>4, Parts DEF Leftover, FfType
<1>7. QED
  BY <1>4, <1>5, <1>6

\* The main thread leaves when the others have gone and the file is closed.
LEMMA SettledExit == TypeOK /\ Settled => ExitCompletesFile
<1> SUFFICES ASSUME TypeOK, Settled, Leaver = "exited"
             PROVE  /\ Drained /\ ff.data = NoFile
                    /\ server.view = "recording" => app.filePath \in disk
  BY DEF ExitCompletesFile, Leaver
<1>1. /\ Starter = Dead /\ Writer = Dead /\ Ender = Dead /\ Stopper = Dead
      /\ ~output.dataActive
  BY Parts DEF Orders
<1>2. ASSUME NEW t \in StartThreads \cup WriteThreads \cup EndThreads, pc[t] # Dead
      PROVE  FALSE
  BY <1>1, <1>2, Parts, AtAlone DEF Single, Starter, Writer, Ender
<1>3. Drained
  BY <1>2 DEF Drained, Live
<1>4. ff.data = NoFile
  BY <1>1, Parts DEF FfFlags
<1>5. server.view = "recording" => app.filePath \in disk
  BY <1>1, Parts DEF Files
<1>6. QED
  BY <1>3, <1>4, <1>5

\* WriterHasFile: av_interleaved_write_frame never runs on a context that
\* ffmpeg_data_free has cleared.
THEOREM WriterAlwaysHasFile ==
  ASSUME Patient
  PROVE  Spec => []WriterHasFile
BY AlwaysSettled, SettledHasFile, PTL

\* OneOwnerOfData: ffmpeg_data_free is never run by two threads at once, nor
\* beside an ffmpeg_data_init that opens the next file.
THEOREM AlwaysOneOwner ==
  ASSUME Patient
  PROVE  Spec => []OneOwnerOfData
BY AlwaysSettled, SettledOneOwner, PTL

\* NoStrayNotice: each start and each stop is answered once, and nothing is
\* said that was not asked for.
THEOREM NeverStrayNotice ==
  ASSUME Patient
  PROVE  Spec => []NoStrayNotice
BY AlwaysSettled, SettledNoStray, PTL

\* CleanWhenDrained: a recording whose threads are gone leaves no flag, event or
\* file that the next one could meet.
THEOREM DrainedIsClean ==
  ASSUME Patient
  PROVE  Spec => []CleanWhenDrained
BY AlwaysSettled, SettledClean, PTL

\* ExitCompletesFile: when the process has left in the middle of a recording, no
\* thread of it is left and the file has its trailer.
THEOREM ExitAlwaysCompletesFile ==
  ASSUME Patient
  PROVE  Spec => []ExitCompletesFile
BY AlwaysSettled, SettledExit, PTL

(***************************************************************************)
(* The refinement.  While the socket lasts as well, each step of the       *)
(* detailed model is one of RecordingPromise or changes nothing it shows.  *)
(***************************************************************************)
Lasting == Allowed \subseteq {"open_fails", "force"}

\* The server is there: the main thread runs its loop.
Stays == TypeOK /\ Settled /\ ~app.quitting

\* What a step does that the promise shows, and one that it does not.
Seen   == Promise!Next /\ app.quitting' = app.quitting
Unseen == UNCHANGED Promise!vars /\ app.quitting' = app.quitting

\* What the promise shows is made of these.
Shown == <<server.view, server.reported, app.filePath, app.quitting, ff.data, disk>>

\* A step that changes nothing the server is promised is not seen.
LEMMA Stutters == UNCHANGED Shown => Unseen
BY DEF Unseen, Shown, Promise!vars

\* While the server is there the main thread does not stir.
LEMMA StaysLoop ==
  ASSUME Stays
  PROVE  /\ Leaver = "loop" /\ pc[Main] = "loop"
         /\ output \in OutputType /\ ff \in FfType /\ app \in AppType
         /\ server \in ServerType
BY Parts DEF Stays, Orders, Leaver

\* The file is open from the start that opened it to its trailer.
LEMMA OpenStands ==
  ASSUME Stays
  PROVE  /\ Starter \in Opened \/ output.dataActive \/ Stopper # Dead =>
              ff.data = app.filePath /\ ff.data # NoFile
         /\ ~(Starter \in Opened \/ output.dataActive \/ Stopper # Dead) =>
              ff.data = NoFile
         /\ ff.data # NoFile => (ff.data \in disk <=> Stopper = "close_file")
BY Parts DEF Stays, FfFlags, Files

\* A command of the server is Start, Stop, or one that is only posted.
LEMMA CommandSeen ==
  ASSUME Lasting, Stays, Command
  PROVE  Unseen \/ Seen
<1>0. /\ "early" \notin Allowed /\ "rush" \notin Allowed
      /\ ff \in FfType /\ app \in AppType /\ server \in ServerType
  BY StaysLoop DEF Lasting
<1>1. ASSUME NEW p \in Paths, StartRecording(p) PROVE Seen
  <2>1. ff.data = NoFile /\ server.view = "idle"
    BY <1>0, <1>1, SettledClean DEF StartRecording, StartPermitted, Stays,
       CleanWhenDrained
  <2>2. /\ server'.view = "starting" /\ server'.reported = server.reported
        /\ app'.filePath = p /\ app'.quitting = app.quitting
        /\ UNCHANGED <<ff, disk>>
    BY <1>0, <1>1 DEF StartRecording, AppType, ServerType
  <2>3. Promise!Start(p)
    BY <2>1, <2>2 DEF Promise!Start
  <2>4. QED
    BY <2>2, <2>3 DEF Seen, Promise!Next
<1>2. CASE StartRecordingEmpty
  BY Stutters, <1>0, <1>2 DEF StartRecordingEmpty, StartPermitted, ServerType, Shown
<1>3. ASSUME NEW force \in BOOLEAN, StopRecording(force) PROVE Seen
  <2>1. /\ server.view = "recording" /\ server'.view = "stopping"
        /\ server'.reported = server.reported
        /\ UNCHANGED <<ff, disk, app>>
    BY <1>0, <1>3 DEF StopRecording, StopPermitted, ServerType
  <2>2. Promise!Stop
    BY <2>1 DEF Promise!Stop
  <2>3. QED
    BY <2>1, <2>2 DEF Seen, Promise!Next
<1>4. QED
  BY <1>1, <1>2, <1>3 DEF Command

\* A slot reports what the OBS thread delivers: Begin, Fail or Report.
LEMMA SlotSeen ==
  ASSUME Lasting, Stays, SlotStep
  PROVE  Unseen \/ Seen
<1>0. /\ ff \in FfType /\ app \in AppType /\ server \in ServerType
      /\ Places /\ View /\ Files /\ Leaver = "loop"
  BY StaysLoop, Parts DEF Stays
<1>1. CASE FfmpegStart \/ FfmpegStartRefused \/ FfmpegStartFails \/ SetConnecting
  BY Stutters, <1>0, <1>1 DEF FfmpegStart, FfmpegStartRefused, FfmpegStartFails,
     SetConnecting, Outside, FfType, Shown
<1>2. ~StartFailed
  BY <1>0 DEF StartFailed, Places, Slot
<1>3. CASE Deliver
  <2>1. \/ server.view = "starting" /\ (Posted(Started) \/ Posted(Error))
        \/ server.view = "stopping" /\ Posted(Stopped(app.filePath))
    BY <1>0, <1>3 DEF Deliver, View, ServerType
  <2>2. PICK n : /\ app.posted = <<n>>
                 /\ \/ server.view = "starting" /\ n \in {Started, Error}
                    \/ server.view = "stopping" /\ n = Stopped(app.filePath)
    BY <2>1
  <2>3. Head(app.posted) = n
    BY ONLY <2>2
  <2>4. /\ app' = [app EXCEPT !.posted = Tail(@)] /\ Received(n)
        /\ UNCHANGED <<output, ff, disk>>
    BY <1>3, <2>3 DEF Deliver
  <2>5. /\ app'.filePath = app.filePath /\ app'.quitting = app.quitting
        /\ UNCHANGED <<ff, disk>>
    BY <1>0, <2>4 DEF AppType
  <2>6. CASE server.view = "starting" /\ n = Started
    <3>1. ff.data # NoFile /\ ff.data \notin disk
      <4>1. Posted(Started) /\ server.view = "starting"
        BY <2>2, <2>6
      <4>2. output.dataActive /\ Stopper = Dead
        BY <1>0, <4>1, OneNotice DEF View
      <4>3. QED
        BY <4>2, OpenStands
    <3>2. server'.view = "recording" /\ server'.reported = server.reported
      BY <1>0, <2>4, <2>6 DEF Received, Started, ServerType
    <3>3. Promise!Begin
      BY <2>5, <2>6, <3>1, <3>2 DEF Promise!Begin
    <3>4. QED
      BY <2>5, <3>3 DEF Seen, Promise!Next
  <2>7. CASE server.view = "starting" /\ n = Error
    <3>1. ff.data = NoFile
      <4>1. Posted(Error) /\ server.view = "starting"
        BY <2>2, <2>7
      <4>2. Starter \in {Dead, "start_return"} /\ Writer = Dead /\ Stopper = Dead
        BY <1>0, <4>1, OneNotice DEF View
      <4>3. ~output.dataActive
        BY <4>2, Parts DEF Stays, OutputFlags
      <4>4. QED
        BY <4>2, <4>3, OpenStands
    <3>2. server'.view = "idle" /\ server'.reported = server.reported
      BY <1>0, <2>4, <2>7 DEF Received, Error, ServerType
    <3>3. Promise!Fail
      BY <2>5, <2>7, <3>1, <3>2 DEF Promise!Fail
    <3>4. QED
      BY <2>5, <3>3 DEF Seen, Promise!Next
  <2>8. CASE server.view = "stopping" /\ n = Stopped(app.filePath)
    <3>1. (ff.data # NoFile /\ ff.data \notin disk) \/ app.filePath \in disk
      BY <1>0, <2>2, <2>8, OpenStands DEF Files
    <3>2. /\ server'.view = "idle"
          /\ server'.reported = server.reported \cup {app.filePath}
      BY <1>0, <2>4, <2>8 DEF Received, Stopped, ServerType
    <3>3. Promise!Report
      BY <2>5, <2>8, <3>1, <3>2 DEF Promise!Report
    <3>4. QED
      BY <2>5, <3>3 DEF Seen, Promise!Next
  <2>9. QED
    BY <2>2, <2>6, <2>7, <2>8
<1>4. QED
  BY <1>1, <1>2, <1>3 DEF SlotStep

\* Frames and packets are not seen.
LEMMA CaptureSeen ==
  ASSUME Stays, CaptureStep
  PROVE  Unseen
BY Stutters, StaysLoop DEF CaptureStep, CaptureEnter, CaptureFreed, CapturePush,
   Outside,
   FfType, AppType, Shown

\* A stop that libobs signals is reported at once only from the OBS thread.
LEMMA ObsSeen ==
  ASSUME Lasting, Stays, NEW t \in Callers, ObsStep(t)
  PROVE  Unseen \/ Seen
<1>0. /\ output \in OutputType /\ ff \in FfType /\ app \in AppType
      /\ server \in ServerType
      /\ Single /\ Places /\ OutputFlags /\ Orders /\ View /\ Leaver = "loop"
  BY StaysLoop, Parts DEF Stays
<1>1. CASE Silent
  BY Stutters, <1>1 DEF Silent, Shown
<1>2. CASE (EndInactive(t) \/ EndSignal(t)) /\ RecordingStopped(t)
                                            /\ UNCHANGED <<ff, disk>>
  <2>1. PICK n : /\ n = (IF output.stopCode = "success" THEN Stopped(app.filePath)
                         ELSE Error)
                 /\ Notify(t, n)
    BY <1>2 DEF RecordingStopped
  <2>2. CASE t # OBS
    BY Stutters, <1>0, <1>2, <2>1, <2>2 DEF Notify, AppType, Shown
  <2>3. CASE t = OBS
    <3>1. Slot = "end_signal"
      BY <1>0, <1>2, <2>3 DEF EndInactive, EndSignal, Places, Slot
    <3>2. server.view = "stopping" /\ Stopper = "end_signal" /\ Starter = Dead
      BY <1>0, <3>1 DEF View, Orders, Stopper
    <3>3. n = Stopped(app.filePath)
      BY <1>0, <2>1, <3>2 DEF OutputFlags
    <3>4. CASE ~app.connected
      BY Stutters, <1>2, <2>1, <3>4, <1>0 DEF Notify, AppType, Shown
    <3>5. CASE app.connected
      <4>1. Received(n) /\ UNCHANGED <<app, ff, disk>>
        BY <1>2, <2>1, <2>3, <3>5 DEF Notify
      <4>2. /\ server'.view = "idle"
            /\ server'.reported = server.reported \cup {app.filePath}
        BY <1>0, <3>3, <4>1 DEF Received, Stopped, ServerType
      <4>3. ff.data # NoFile /\ ff.data \notin disk
        BY <3>2, OpenStands
      <4>4. Promise!Report
        BY <3>2, <4>1, <4>2, <4>3 DEF Promise!Report
      <4>5. QED
        BY <4>1, <4>4 DEF Seen, Promise!Next
    <3>6. QED
      BY <3>4, <3>5
  <2>4. QED
    BY <2>2, <2>3
<1>3. QED
  BY <1>1, <1>2 DEF ObsStep

\* The file is closed by its trailer.
LEMMA StopSeen ==
  ASSUME Lasting, Stays, NEW t \in Callers, StopStep(t)
  PROVE  Unseen \/ Seen
<1>0. /\ ff \in FfType /\ app \in AppType /\ server \in ServerType
      /\ Single /\ Places /\ Orders /\ View /\ Leaver = "loop"
  BY StaysLoop, Parts DEF Stays
<1>1. CASE FfmpegStop(t) \/ SetStopTs(t) \/ FfmpegForceStop(t) \/ FullStop(t)
  BY Stutters, <1>0, <1>1 DEF FfmpegStop, SetStopTs, FfmpegForceStop, FullStop, Outside,
     FfType, Shown
<1>2. CASE Deactivate(t) \/ JoinWriter(t) \/ FreePackets(t)
  BY Stutters, <1>0, <1>2 DEF Deactivate, JoinWriter, FreePackets, Outside, FfType,
     Shown
<1>3. ASSUME NEW l \in Freeing, pc[t] = l PROVE Stopper = l
  <2>1. Slot = l \/ Writer = l
    BY <1>0, <1>3, Stands DEF Callers, Places
  <2>2. QED
    BY <1>0, <2>1 DEF Places, Stopper
<1>4. CASE WriteTrailer(t)
  <2>1. Stopper = "write_trailer"
    BY <1>3, <1>4 DEF WriteTrailer
  <2>2. ff.data = app.filePath /\ ff.data # NoFile /\ ff.data \notin disk
    BY <2>1, OpenStands
  <2>3. server.view \in {"stopping", "idle"}
    BY <1>0, <2>1 DEF View, ServerType
  <2>4. disk' = disk \cup {app.filePath} /\ UNCHANGED <<ff, app, server>>
    BY <1>4, <2>2 DEF WriteTrailer
  <2>5. Promise!Close
    BY <2>2, <2>3, <2>4 DEF Promise!Close
  <2>6. QED
    BY <2>4, <2>5 DEF Seen, Promise!Next
<1>5. CASE CloseFile(t)
  <2>1. Stopper = "close_file"
    BY <1>3, <1>5 DEF CloseFile
  <2>2. ff.data \in disk
    BY <2>1, OpenStands
  <2>3. ff'.data = NoFile /\ UNCHANGED <<disk, app, server>>
    BY <1>0, <1>5 DEF CloseFile, Outside, FfType
  <2>4. UNCHANGED Promise!vars /\ UNCHANGED app
    BY <2>2, <2>3 DEF Promise!vars
  <2>5. QED
    BY <2>4 DEF Unseen
<1>6. QED
  BY <1>1, <1>2, <1>4, <1>5 DEF StopStep

\* A file is created anew by a start.
LEMMA StartSeen ==
  ASSUME Lasting, Stays, NEW s \in StartThreads, StartStep(s)
  PROVE  Unseen \/ Seen
<1>0. /\ ff \in FfType /\ app \in AppType /\ server \in ServerType
      /\ Single /\ Places /\ Starts /\ OutputFlags /\ View /\ Leaver = "loop"
  BY StaysLoop, Parts DEF Stays
<1>1. CASE SetActive(s) \/ CreateWriter(s) \/ WriterActive(s) \/ StartReturn(s)
  BY Stutters, <1>0, <1>1 DEF SetActive, CreateWriter, WriterActive, StartReturn,
     Outside, FfType, Shown
<1>2. CASE OpenFileFails(s) \/ CreateWriterFails(s) \/ ConnectFailed(s)
  BY Stutters, <1>2 DEF OpenFileFails, CreateWriterFails, ConnectFailed, Outside, Shown
<1>3. CASE Silent
  BY Stutters, <1>3 DEF Silent, Shown
<1>4. CASE Notify(s, Started) /\ UNCHANGED <<ff, disk>>
  <2>1. s # OBS
    BY RecordAssumption
  <2>2. QED
    BY Stutters, <1>0, <1>4, <2>1 DEF Notify, AppType, Shown
<1>5. ASSUME NEW l \in {"data_init", "open_file"}, pc[s] = l
      PROVE  /\ Starter = l /\ ff.data = NoFile
             /\ server.view = "starting" /\ app.filePath # NoFile
  <2>1. Starter = l
    BY <1>0, <1>5, AtAlone DEF Single, Starter
  <2>2. Stopper = Dead /\ app.filePath # NoFile
    BY <1>0, <2>1 DEF Starts
  <2>3. ~output.dataActive
    BY <1>0, <2>1 DEF OutputFlags
  <2>4. server.view = "starting"
    BY <1>0, <2>1 DEF View, ServerType
  <2>5. QED
    BY <2>1, <2>2, <2>3, <2>4, OpenStands
<1>6. CASE DataInit(s)
  <2>1. ff.data = NoFile
    BY <1>5, <1>6 DEF DataInit
  <2>2. ff'.data = NoFile /\ UNCHANGED <<disk, app, server>>
    BY <1>0, <1>6 DEF DataInit, Outside, FfType
  <2>3. QED
    BY Stutters, <2>1, <2>2 DEF Shown
<1>7. CASE OpenFile(s)
  <2>1. ff.data = NoFile /\ server.view = "starting" /\ app.filePath # NoFile
    BY <1>5, <1>7 DEF OpenFile
  <2>2. /\ ff'.data = app.filePath /\ disk' = disk \ {app.filePath}
        /\ server'.view = "starting"
        /\ server'.reported = server.reported \ {app.filePath}
        /\ UNCHANGED app
    BY <1>0, <1>7, <2>1 DEF OpenFile, FfType, ServerType
  <2>3. Promise!Open
    BY <2>1, <2>2 DEF Promise!Open
  <2>4. QED
    BY <2>2, <2>3 DEF Seen, Promise!Next
<1>8. QED
  BY <1>1, <1>2, <1>3, <1>4, <1>6, <1>7 DEF StartStep

\* What the write and end threads do is not shown: the trailer is written in a
\* stop step.
LEMMA WriteSeen ==
  ASSUME Lasting, Stays, NEW w \in WriteThreads, WriteStep(w)
  PROVE  Unseen
<1>0. ff \in FfType /\ app \in AppType
  BY StaysLoop
<1>1. CASE WriteWait(w) \/ ProcessPacket(w) \/ WriteReturn(w)
  BY Stutters, <1>0, <1>1 DEF WriteWait, ProcessPacket, WriteReturn, Outside, FfType,
     Shown
<1>2. CASE WriteFrame(w)
  BY Stutters, <1>0, <1>2 DEF WriteFrame, AppType, Shown
<1>3. ~WriteFrameFails(w)
  BY DEF WriteFrameFails, Lasting
<1>4. QED
  BY <1>1, <1>2, <1>3 DEF WriteStep

\* Nor is what the end thread does.
LEMMA EndSeen ==
  ASSUME NEW e, EndStep(e)
  PROVE  Unseen
BY Stutters DEF EndStep, Silent, Shown

\* Every step is one of the promise, or none.
LEMMA NextSeen == Lasting /\ Stays /\ [Next]_vars => Unseen \/ Seen
<1> SUFFICES ASSUME Lasting, Stays, [Next]_vars PROVE Unseen \/ Seen
  OBVIOUS
<1>1. CASE Command \/ SlotStep \/ CaptureStep
  BY <1>1, CommandSeen, SlotSeen, CaptureSeen
<1>2. ASSUME NEW t \in Callers, ObsStep(t) \/ StopStep(t) PROVE Unseen \/ Seen
  BY <1>2, ObsSeen, StopSeen
<1>3. ASSUME NEW s \in StartThreads, StartStep(s) PROVE Unseen \/ Seen
  BY <1>3, StartSeen
<1>4. ASSUME NEW w \in WriteThreads, WriteStep(w) PROVE Unseen
  BY <1>4, WriteSeen
<1>5. ASSUME NEW e \in Threads, EndStep(e) PROVE Unseen
  BY <1>5, EndSeen
<1>6. ~SocketDisconnected /\ ~MainStep
  BY StaysLoop DEF SocketDisconnected, MainStep, ThreadQuits, ThreadWaited,
     FfmpegDestroy, Lasting, Stays
<1>7. CASE UNCHANGED vars
  BY Stutters, <1>7 DEF vars, Shown
<1>8. QED
  BY <1>1, <1>2, <1>3, <1>4, <1>5, <1>6, <1>7 DEF Next

\* Implements: to a server that waits, while the socket lasts, the recorder with
\* all its threads is RecordingPromise.
THEOREM RecordingKeepsPromise ==
  ASSUME Lasting
  PROVE  Spec => Implements
<1>1. Patient
  BY DEF Lasting, Patient
<1>2. Init => Promise!Init /\ ~app.quitting
  BY DEF Init, Promise!Init
<1>3. Stays /\ [Next]_vars => ~app.quitting'
  BY NextSeen DEF Unseen, Seen, Stays
<1>4. Stays /\ [Next]_vars => [Promise!Next]_(Promise!vars)
  BY NextSeen DEF Unseen, Seen
<1>5. Spec => [](TypeOK /\ Settled)
  BY <1>1, AlwaysSettled
<1>6. QED
  BY <1>2, <1>3, <1>4, <1>5, PTL DEF Spec, Stays, Implements, Promise!Spec
=============================================================================
