------------------------------ MODULE ObsOutput ------------------------------
(***************************************************************************)
(* The life cycle of one libobs output (libobs/obs-output.c), as the       *)
(* threads that start it, stop it and end its data capture step through    *)
(* it.  An output type (the FFmpeg recorder, the RTMP stream) and the      *)
(* application compose these steps with their own.                         *)
(*                                                                         *)
(* Each step is what one thread does between two accesses to state that    *)
(* other threads also use.  pc[t] is where thread t stands; stack[t] holds *)
(* the places it returns to.  ZDTalk sets no delay and no reconnection     *)
(* (setupStreaming passes 0 retries, and only a code the recorder never    *)
(* uses would reconnect), so the branches for both are left out.           *)
(***************************************************************************)
EXTENDS Naturals, Sequences

CONSTANTS
    Threads,        \* every thread that may step through the output
    EndThreads,     \* those that run end_data_capture_thread
    NoThread        \* the value of a handle no thread was ever stored in

ASSUME ThreadsAssumption ==
    /\ EndThreads \subseteq Threads
    /\ NoThread \notin Threads

VARIABLES
    pc,             \* [Threads -> label]: where each thread stands
    stack,          \* [Threads -> Seq(label)]: where its calls return to
    output          \* struct obs_output: the fields the life cycle uses

control == <<pc, stack>>

\* The codes an output can stop with (obs-defs.h); ZDTalk tells these apart.
StopCodes == {"success", "connect_failed", "disconnected", "no_space", "error"}

\* hooked stands for the raw audio and video callbacks being connected,
\* stoppingEvent for stopping_event (manual reset) being signalled.
OutputType ==
    [active          : BOOLEAN,
     dataActive      : BOOLEAN,
     hooked          : BOOLEAN,
     stoppingEvent   : BOOLEAN,
     endThreadActive : BOOLEAN,
     endThread       : EndThreads \cup {NoThread},
     stopCode        : StopCodes]

\* A thread that was not created yet, or that has returned.
Dead == "dead"

(***************************************************************************)
(* Control: going on, calling, returning, and waiting for a thread.        *)
(***************************************************************************)
Goto(t, label) ==
    /\ pc' = [pc EXCEPT ![t] = label]
    /\ UNCHANGED stack

Call(t, label, back) ==
    /\ pc' = [pc EXCEPT ![t] = label]
    /\ stack' = [stack EXCEPT ![t] = <<back>> \o @]

Return(t) ==
    /\ stack[t] # <<>>
    /\ pc' = [pc EXCEPT ![t] = Head(stack[t])]
    /\ stack' = [stack EXCEPT ![t] = Tail(@)]

\* pthread_join of the end thread, when data_capture_ending says it runs.
EndThreadJoined ==
    output.endThreadActive /\ output.endThread # NoThread
        => pc[output.endThread] = Dead

\* stopping(): the event is not signalled.
stopping == ~output.stoppingEvent

(***************************************************************************)
(* obs_output_create: a fresh output is inactive and its event signalled.  *)
(***************************************************************************)
ObsOutputCreate ==
    output = [active          |-> FALSE,
              dataActive      |-> FALSE,
              hooked          |-> FALSE,
              stoppingEvent   |-> TRUE,
              endThreadActive |-> FALSE,
              endThread       |-> NoThread,
              stopCode        |-> "success"]

(***************************************************************************)
(* obs_output_actual_start, up to the output type's own start.             *)
(***************************************************************************)
ActualStart(t) ==
    /\ pc[t] = "actual_start"
    /\ output.stoppingEvent
    /\ output' = [output EXCEPT !.stopCode = "success"]
    /\ Goto(t, "plugin_start")

(***************************************************************************)
(* obs_output_stop, obs_output_force_stop and obs_output_actual_stop.      *)
(* Whether an output is active and whether it is stopping are both read    *)
(* before stopping_event is reset, in a later step.                        *)
(***************************************************************************)
ObsOutputStop(t) ==
    /\ pc[t] = "obs_stop"
    /\ IF output.active /\ ~stopping THEN Goto(t, "actual_stop") ELSE Return(t)
    /\ UNCHANGED output

ActualStop(t) ==
    /\ pc[t] = "actual_stop"
    /\ IF stopping
         THEN Return(t) /\ UNCHANGED output
         ELSE /\ output' = [output EXCEPT !.stoppingEvent = FALSE]
              /\ Goto(t, "plugin_stop")

ObsOutputForceStop(t) ==
    /\ pc[t] = "obs_force_stop"
    /\ output' = IF stopping THEN output
                 ELSE [output EXCEPT !.stopCode = "success"]
    /\ Goto(t, "actual_force_stop")

ActualForceStop(t) ==
    /\ pc[t] = "actual_force_stop"
    /\ output' = [output EXCEPT !.stoppingEvent = FALSE]
    /\ Goto(t, "plugin_force_stop")

(***************************************************************************)
(* obs_output_can_begin_data_capture: refused while active; otherwise the  *)
(* capture that is still ending is waited for.                             *)
(***************************************************************************)
CanBeginDataCapture(t, yes, no) ==
    /\ pc[t] = "can_begin"
    /\ IF output.active THEN Goto(t, no) ELSE EndThreadJoined /\ Goto(t, yes)
    /\ UNCHANGED output

(***************************************************************************)
(* obs_output_begin_data_capture: the callbacks are connected first, then  *)
(* the output becomes active and signals "start".  The application's       *)
(* handler of a signal is conjoined where this module is used.             *)
(***************************************************************************)
BeginDataCapture(t, refused) ==
    /\ pc[t] = "begin_capture"
    /\ IF output.active
         THEN Goto(t, refused) /\ UNCHANGED output
         ELSE /\ output' = [output EXCEPT !.dataActive = TRUE, !.hooked = TRUE]
              /\ Goto(t, "begin_activate")

BeginActivate(t, next) ==
    /\ pc[t] = "begin_activate"
    /\ output' = [output EXCEPT !.active = TRUE]
    /\ Goto(t, next)

(***************************************************************************)
(* obs_output_signal_stop, and obs_output_end_data_capture(_internal) that *)
(* it and the output types call.  The end thread is created before "stop"  *)
(* is signalled.                                                           *)
(***************************************************************************)
\* Mutant: the code is dropped.
SignalStopNoCode(code) == output' = [output EXCEPT !.stopCode = "success"]

SignalStop(code) == output' = [output EXCEPT !.stopCode = code]

EndCheck(t) ==
    /\ pc[t] = "end_check"
    /\ Goto(t, IF output.active /\ output.dataActive THEN "end_clear"
               ELSE "end_inactive")
    /\ UNCHANGED output

\* Nothing to end: "stop" is signalled, the code cleared and the event set.
EndInactive(t) ==
    /\ pc[t] = "end_inactive"
    /\ output' = [output EXCEPT !.stopCode = "success", !.stoppingEvent = TRUE]
    /\ Return(t)

EndClear(t) ==
    /\ pc[t] = "end_clear"
    /\ output' = [output EXCEPT !.dataActive = FALSE]
    /\ Goto(t, "end_join")

EndJoin(t) ==
    /\ pc[t] = "end_join"
    /\ EndThreadJoined
    /\ output' = [output EXCEPT !.endThreadActive = TRUE]
    /\ Goto(t, "end_create")

EndCreate(t, e) ==
    /\ pc[t] = "end_create"
    /\ pc[e] = Dead
    /\ output' = [output EXCEPT !.endThread = e]
    /\ pc' = [pc EXCEPT ![t] = "end_signal", ![e] = "end_disconnect"]
    /\ UNCHANGED stack

\* Without a thread of its own the rest runs in the caller.
EndCreateFails(t) ==
    /\ pc[t] = "end_create"
    /\ Call(t, "end_disconnect", "end_signal")
    /\ UNCHANGED output

\* "stop" is signalled with the code that is then cleared.
EndSignal(t) ==
    /\ pc[t] = "end_signal"
    /\ output' = [output EXCEPT !.stopCode = "success"]
    /\ Return(t)

(***************************************************************************)
(* end_data_capture_thread, on a thread of its own or in the caller.       *)
(***************************************************************************)
EndDisconnect(e) ==
    /\ pc[e] = "end_disconnect"
    /\ output' = [output EXCEPT !.hooked = FALSE]
    /\ Goto(e, "end_deactivate")

EndDeactivate(e) ==
    /\ pc[e] = "end_deactivate"
    /\ output' = [output EXCEPT !.active = FALSE]
    /\ Goto(e, "end_event")

\* Mutant: the event is left reset.
EndEventLost(e) ==
    /\ pc[e] = "end_event"
    /\ Goto(e, "end_return")
    /\ UNCHANGED output

EndEvent(e) ==
    /\ pc[e] = "end_event"
    /\ output' = [output EXCEPT !.stoppingEvent = TRUE]
    /\ Goto(e, "end_return")

EndReturn(e) ==
    /\ pc[e] = "end_return"
    /\ output' = [output EXCEPT !.endThreadActive = FALSE]
    /\ IF e \in EndThreads THEN Goto(e, Dead) ELSE Return(e)

(***************************************************************************)
(* obs_output_destroy, up to the output type's own destroy.                *)
(***************************************************************************)
\* Mutant: an active output is not stopped first.
DestroyActive(t) ==
    /\ pc[t] = "destroy"
    /\ Goto(t, "destroy_wait")
    /\ UNCHANGED output

Destroy(t) ==
    /\ pc[t] = "destroy"
    /\ IF output.active
         THEN Call(t, "actual_force_stop", "destroy_wait")
         ELSE Goto(t, "destroy_wait")
    /\ UNCHANGED output

DestroyWait(t) ==
    /\ pc[t] = "destroy_wait"
    /\ output.stoppingEvent
    /\ Goto(t, "destroy_join")
    /\ UNCHANGED output

DestroyJoin(t) ==
    /\ pc[t] = "destroy_join"
    /\ EndThreadJoined
    /\ Goto(t, "plugin_destroy")
    /\ UNCHANGED output
=============================================================================
