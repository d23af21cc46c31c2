------------------------------ MODULE ObsContext ------------------------------
(***************************************************************************)
(* What ZDTalkOBSContext sets up in libobs and keeps in order between      *)
(* commands: the video and audio contexts, the outputs and encoders bound  *)
(* to them, the scene with its capture source, and the two audio sources.  *)
(*                                                                         *)
(* Every slot runs to its end on the OBS thread, so each is one action; an *)
(* initialize() that fails half way leaves what it had done by then.  The  *)
(* threads of an output are in RecordOutput and StreamQueue: here it is    *)
(* started, then takes frames, then stops.  libobs refuses to replace a    *)
(* context while frames are taken, and only then; no initialize() comes    *)
(* while an output connects.                                               *)
(***************************************************************************)
EXTENDS Naturals, Sequences

CONSTANTS
    Screens, Regions,   \* screen sizes and sizes of the captured region
    None,               \* no size, no source
    Devices,            \* audio devices that can be plugged in
    Default,            \* the name of the default device
    Failing,            \* the steps of initialize() that may fail
    Allowed,            \* "busy", "unplug", "scale": see Initialize, Plug
                        \* and ScaleVideo
    MaxInits            \* bound: initialize commands

Channels == {"input", "output"}
Outputs == {"record", "stream"}

\* What is kept of an audio source.
Sources == [device : Devices \cup {Default}, muted : BOOLEAN, mono : BOOLEAN]

\* initialize() in the order of its early returns.
InitSteps == <<"params", "startup", "audio", "video", "service", "outputs",
               "encoders", "transition", "scene", "capture", "window", "done">>

\* What a step creates once and keeps: it cannot fail again.
Kept == {"service", "outputs", "encoders", "transition"}

ASSUME ContextAssumption ==
    /\ Failing \subseteq {InitSteps[n] : n \in 1..11}
    /\ None \notin Screens \cup Regions \cup Devices \cup Sources
    /\ Default \notin Devices
    /\ MaxInits \in Nat

VARIABLES
    obs,        \* libobs: started, its contexts, the size of the canvas
    ctx,        \* members of ZDTalkOBSContext, and what they are bound to
    scene,      \* the scene, its capture source, crop filter and scale
    source,     \* the audio source of each channel
    running,    \* the video context each output that was started uses
    capturing,  \* the outputs that are connected and take frames
    plugged,    \* the audio devices of each channel that are there
    server      \* what the server asked for, and was answered

vars == <<obs, ctx, scene, source, running, capturing, plugged, server>>

\* A context is known by the number of the initialize that made it.
Context == 0..MaxInits

TypeOK ==
    /\ obs \in [started : BOOLEAN, video : Context, audio : Context,
                canvas : Screens \cup {None}]
    /\ ctx \in [base : Screens \cup {None}, org : Regions \cup {None},
                videoEncoder : Context, audioEncoder : Context,
                made : SUBSET Kept]
    /\ scene \in [exists : BOOLEAN, capture : BOOLEAN, window : BOOLEAN,
                  crop : Regions \cup {None},
                  scale : {None} \cup ((Screens \cup {None}) \X Regions)]
    /\ source \in [Channels -> {None} \cup Sources]
    /\ running \in [Outputs -> Context]
    /\ capturing \subseteq {o \in Outputs : running[o] # 0}
    /\ plugged \in [Channels -> SUBSET Devices]
    /\ server \in [inits : Context, ready : BOOLEAN, resized : BOOLEAN,
                   muted : [Channels -> BOOLEAN],
                   mono : [Channels -> BOOLEAN]]

AllOff == [c \in Channels |-> FALSE]

NoScene == [exists |-> FALSE, capture |-> FALSE, window |-> FALSE,
            crop |-> None, scale |-> None]

Init ==
    /\ obs = [started |-> FALSE, video |-> 0, audio |-> 0, canvas |-> None]
    /\ ctx = [base |-> None, org |-> None, videoEncoder |-> 0,
              audioEncoder |-> 0, made |-> {}]
    /\ scene = NoScene
    /\ source = [c \in Channels |-> None]
    /\ running = [o \in Outputs |-> 0]
    /\ capturing = {}
    /\ plugged = [c \in Channels |-> Devices]
    /\ server = [inits |-> 0, ready |-> FALSE, resized |-> FALSE,
                 muted |-> AllOff, mono |-> AllOff]

Running == {o \in Outputs : running[o] # 0}

-----------------------------------------------------------------------------
(***************************************************************************)
(* initialize(): step f is the one that fails, "done" when none does.      *)
(***************************************************************************)
StepNo(s) == CHOOSE n \in 1..12 : InitSteps[n] = s
Passed(s, f) == StepNo(s) < StepNo(f)

\* Mutant: no context asks whether it is active.
MayFailNever(f) ==
    \/ f = "done"
    \/ /\ capturing = {}
       /\ f \in Failing \ ctx.made
       /\ f = "startup" => ~obs.started

\* obs_reset_audio refuses while an output is active, and is asked first.
MayFail(f) ==
    \/ f = "params" /\ f \in Failing
    \/ f = "audio" /\ capturing # {}
    \/ /\ capturing = {}
       /\ f \in (Failing \ ctx.made) \cup {"done"}
       /\ f = "startup" => ~obs.started

\* The contexts: each reset that is reached frees the old one.
ObsAfter(f, n, screen) ==
    [started |-> obs.started \/ Passed("startup", f),
     audio   |-> IF Passed("audio", f) THEN n
                 ELSE IF f = "audio" /\ capturing = {} THEN 0 ELSE obs.audio,
     video   |-> IF Passed("video", f) THEN n
                 ELSE IF f = "video" THEN 0 ELSE obs.video,
     canvas  |-> IF Passed("video", f) THEN screen
                 ELSE IF f = "video" THEN None ELSE obs.canvas]

\* Mutant: the audio encoders are bound only when they are created.
CtxAfterOnce(f, n, screen, region) ==
    [base         |-> IF Passed("params", f) THEN screen ELSE ctx.base,
     org          |-> IF Passed("params", f) THEN region ELSE ctx.org,
     made         |-> ctx.made \cup {s \in Kept : Passed(s, f)},
     videoEncoder |-> IF Passed("outputs", f) /\ ctx.videoEncoder = 0 THEN n
                      ELSE ctx.videoEncoder,
     audioEncoder |-> IF Passed("encoders", f) /\ ctx.audioEncoder = 0 THEN n
                      ELSE ctx.audioEncoder]

\* resetOutputs binds the video encoder when it creates it, the audio
\* encoders every time; the sizes are those of the last valid command.
CtxAfter(f, n, screen, region) ==
    [base         |-> IF Passed("params", f) THEN screen ELSE ctx.base,
     org          |-> IF Passed("params", f) THEN region ELSE ctx.org,
     made         |-> ctx.made \cup {s \in Kept : Passed(s, f)},
     videoEncoder |-> IF Passed("outputs", f) /\ ctx.videoEncoder = 0 THEN n
                      ELSE ctx.videoEncoder,
     audioEncoder |-> IF Passed("encoders", f) THEN n ELSE ctx.audioEncoder]

\* A new scene shows a new capture source; the crop and the scale come last.
SceneAfter(f, screen, region) ==
    IF ~Passed("transition", f) THEN scene
    ELSE IF f = "scene" THEN [scene EXCEPT !.exists = FALSE]
    ELSE [exists  |-> TRUE,
          capture |-> Passed("capture", f),
          window  |-> Passed("window", f),
          crop    |-> IF Passed("window", f) THEN region ELSE None,
          scale   |-> IF Passed("window", f) THEN <<screen, region>> ELSE None]

NewSource(d) == [device |-> d, muted |-> FALSE, mono |-> FALSE]

\* The channels are cleared once the outputs are there, and given the
\* default devices, if the machine has any, after the scene.
SourcesAfter(f) ==
    [c \in Channels |->
        IF ~Passed("encoders", f) THEN source[c]
        ELSE IF Passed("scene", f) /\ plugged[c] # {} THEN NewSource(Default)
        ELSE None]

Initialize(f, screen, region) ==
    LET n == server.inits + 1 IN
    /\ server.inits < MaxInits
    /\ "busy" \in Allowed \/ Running = {}
    /\ Running \subseteq capturing
    /\ MayFail(f)
    /\ obs' = ObsAfter(f, n, screen)
    /\ ctx' = CtxAfter(f, n, screen, region)
    /\ scene' = SceneAfter(f, screen, region)
    /\ source' = SourcesAfter(f)
    /\ server' = [inits |-> n,
                  ready |-> IF capturing = {} THEN f = "done" ELSE server.ready,
                  resized |-> f # "done" /\ (server.resized \/ f # "params"),
                  muted |-> IF capturing = {} THEN AllOff ELSE server.muted,
                  mono  |-> IF capturing = {} THEN AllOff ELSE server.mono]
    /\ UNCHANGED <<running, capturing, plugged>>

-----------------------------------------------------------------------------
(***************************************************************************)
(* The other slots.  The server sends commands once "initialized" came,    *)
(* and goes on after an initialize that a running output made fail.        *)
(***************************************************************************)
Ready == server.ready

\* scaleVideo, which cropVideo ends with: nothing when the size is the same.
ScaleAfter(size) ==
    IF ctx.org = size \/ ~scene.exists THEN scene.scale ELSE <<ctx.base, size>>

\* The slot itself, which zdobscontext.h calls deprecated.
ScaleVideo(size) ==
    /\ "scale" \in Allowed
    /\ Ready
    /\ ctx' = [ctx EXCEPT !.org = size]
    /\ scene' = [scene EXCEPT !.scale = ScaleAfter(size)]
    /\ server' = [server EXCEPT !.resized = TRUE]
    /\ UNCHANGED <<obs, source, running, capturing, plugged>>

\* Mutant: the size is stored first, so that it is always the same.
CropVideoStored(size) ==
    /\ Ready /\ scene.capture
    /\ ctx' = [ctx EXCEPT !.org = size]
    /\ scene' = [scene EXCEPT !.crop = size]
    /\ UNCHANGED <<obs, source, running, capturing, plugged, server>>

CropVideo(size) ==
    /\ Ready /\ scene.capture
    /\ ctx' = [ctx EXCEPT !.org = size]
    /\ scene' = [scene EXCEPT !.crop = size, !.scale = ScaleAfter(size)]
    /\ UNCHANGED <<obs, source, running, capturing, plugged, server>>

\* Mutant: a source is made anew for the other device.
ResetAudioDeviceAnew(c, d) == source' = [source EXCEPT ![c] = NewSource(d)]

\* ResetAudioDevice: a source keeps its flags, a channel without one gets it.
ResetAudioDevice(c, d) ==
    source' = [source EXCEPT ![c] = IF @ = None THEN NewSource(d)
                                    ELSE [@ EXCEPT !.device = d]]

\* resetAudioInput and resetAudioOutput: the device the server names, if it
\* is listed; otherwise the default one, unless that is in use.
ResetAudio(c, d) ==
    /\ Ready
    /\ ResetAudioDevice(c, IF d \in plugged[c] THEN d ELSE Default)
    /\ UNCHANGED <<obs, ctx, scene, running, capturing, plugged, server>>

\* muteAudioInput and muteAudioOutput act on the source there is; without
\* one the request is lost.
MuteAudio(c, mute) ==
    /\ Ready
    /\ source[c] # None
    /\ server' = [server EXCEPT !.muted[c] = mute]
    /\ source' = [source EXCEPT ![c].muted = mute]
    /\ UNCHANGED <<obs, ctx, scene, running, capturing, plugged>>

\* downmixMonoInput and downmixMonoOutput do the same.
DownmixMono(c, enable) ==
    /\ Ready
    /\ source[c] # None
    /\ server' = [server EXCEPT !.mono[c] = enable]
    /\ source' = [source EXCEPT ![c].mono = enable]
    /\ UNCHANGED <<obs, ctx, scene, running, capturing, plugged>>

\* startRecording gives its output the present video context (setupRecording),
\* startStreaming leaves it to the encoder.
StartOutput(o) ==
    /\ Ready
    /\ o \notin Running
    /\ running' = [running EXCEPT ![o] =
                     IF o = "record" THEN obs.video ELSE ctx.videoEncoder]
    /\ UNCHANGED <<obs, ctx, scene, source, capturing, plugged, server>>

\* The output's own thread connects it.
Capture(o) ==
    /\ o \in Running \ capturing
    /\ capturing' = capturing \cup {o}
    /\ UNCHANGED <<obs, ctx, scene, source, running, plugged, server>>

\* By a stop command, or by an error while it connects or later.
StopOutput(o) ==
    /\ o \in Running
    /\ running' = [running EXCEPT ![o] = 0]
    /\ capturing' = capturing \ {o}
    /\ UNCHANGED <<obs, ctx, scene, source, plugged, server>>

\* The user plugs devices in and out.
Plug(c, devices) ==
    /\ "unplug" \in Allowed
    /\ devices # plugged[c]
    /\ plugged' = [plugged EXCEPT ![c] = devices]
    /\ UNCHANGED <<obs, ctx, scene, source, running, capturing, server>>

SetupStep ==
    \E n \in 1..12, screen \in Screens, region \in Regions :
        Initialize(InitSteps[n], screen, region)

VideoStep == \E size \in Regions : CropVideo(size) \/ ScaleVideo(size)

AudioStep ==
    \E c \in Channels :
        \/ \E d \in Devices \cup {Default} : ResetAudio(c, d)
        \/ \E on \in BOOLEAN : MuteAudio(c, on) \/ DownmixMono(c, on)
        \/ \E devices \in SUBSET Devices : Plug(c, devices)

Next == \/ SetupStep
        \/ VideoStep
        \/ AudioStep
        \/ \E o \in Outputs : StartOutput(o) \/ Capture(o) \/ StopOutput(o)

Spec == Init /\ [][Next]_vars

-----------------------------------------------------------------------------
\* However many initializations failed before it, "initialized" means that
\* everything a recording needs is there, and that the audio encoders are
\* bound to the audio context that is.
ReadyIsComplete ==
    Ready => /\ obs.started /\ obs.video # 0 /\ obs.audio # 0
             /\ ctx.made = Kept /\ ctx.audioEncoder = obs.audio
             /\ scene.exists /\ scene.capture /\ scene.window

\* The scene is scaled from the size the window is cropped to, to the canvas
\* libobs renders.  Not so once the sizes were overwritten without a new
\* scene: by scaleVideo alone, or by an initialize that libobs refused after
\* it had stored its own.
SceneFits ==
    Ready /\ ~server.resized => scene.scale = <<obs.canvas, scene.crop>>

\* The video context a recording takes its frames from is never replaced
\* under it, whatever the server sends meanwhile.
RecordingKeepsVideo == running["record"] \in {0, obs.video}

\* Each audio source is muted and downmixed as the server last asked while
\* there was one, whichever device it has been given meanwhile.
FlagsFollow ==
    Ready => \A c \in Channels : source[c] # None =>
        source[c].muted = server.muted[c] /\ source[c].mono = server.mono[c]
=============================================================================
