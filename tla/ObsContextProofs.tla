-------------------------- MODULE ObsContextProofs --------------------------
(***************************************************************************)
(* Proofs about ObsContext for every set of sizes and devices, any step of *)
(* initialize() failing and any number of initializations.                 *)
(***************************************************************************)
EXTENDS ObsContext, TLAPS

\* The number of a step is its place in the order of the early returns.
LEMMA StepNumber ==
  /\ StepNo("params") = 1 /\ StepNo("startup") = 2 /\ StepNo("audio") = 3
  /\ StepNo("video") = 4 /\ StepNo("service") = 5 /\ StepNo("outputs") = 6
  /\ StepNo("encoders") = 7 /\ StepNo("transition") = 8 /\ StepNo("scene") = 9
  /\ StepNo("capture") = 10 /\ StepNo("window") = 11 /\ StepNo("done") = 12
<1>1. \A m \in 1..12 : StepNo(InitSteps[m]) = m
  <2>1. TAKE m \in 1..12
  <2>2. \A n \in 1..12 : InitSteps[n] = InitSteps[m] => n = m
    BY DEF InitSteps
  <2>3. QED
    BY <2>2 DEF StepNo
<1>2. QED
  BY <1>1 DEF InitSteps

-----------------------------------------------------------------------------
\* Type correctness.  Initialize is the one action with a shape of its own.
LEMMA InitializeType ==
  ASSUME TypeOK, NEW f, NEW screen \in Screens, NEW region \in Regions,
         Initialize(f, screen, region)
  PROVE  TypeOK'
<1> DEFINE n == server.inits + 1
<1>1. n \in Context /\ 0 \in Context
  BY ContextAssumption DEF TypeOK, Initialize, Context
<1>2. obs' \in [started : BOOLEAN, video : Context, audio : Context,
               canvas : Screens \cup {None}]
  BY <1>1 DEF TypeOK, Initialize, ObsAfter
<1>3. ctx' \in [base : Screens \cup {None}, org : Regions \cup {None},
               videoEncoder : Context, audioEncoder : Context,
               made : SUBSET Kept]
  BY <1>1 DEF TypeOK, Initialize, CtxAfter
<1>4. scene' \in [exists : BOOLEAN, capture : BOOLEAN, window : BOOLEAN,
                 crop : Regions \cup {None},
                 scale : {None} \cup ((Screens \cup {None}) \X Regions)]
  <2>1. scene' = SceneAfter(f, screen, region)
    BY DEF Initialize
  <2>2. CASE ~Passed("transition", f) \/ f = "scene"
    BY <2>1, <2>2 DEF TypeOK, SceneAfter
  <2>3. CASE Passed("transition", f) /\ f # "scene"
    <3>1. <<screen, region>> \in (Screens \cup {None}) \X Regions
      OBVIOUS
    <3>2. Passed("capture", f) \in BOOLEAN /\ Passed("window", f) \in BOOLEAN
      BY DEF Passed
    <3>3. QED
      BY <2>1, <2>3, <3>1, <3>2 DEF SceneAfter
  <2>4. QED
    BY <2>2, <2>3
<1>5. source' \in [Channels -> {None} \cup Sources]
  BY DEF TypeOK, Initialize, SourcesAfter, NewSource, Sources
<1>6. server' \in [inits : Context, ready : BOOLEAN, resized : BOOLEAN,
                  muted : [Channels -> BOOLEAN], mono : [Channels -> BOOLEAN]]
  BY <1>1 DEF TypeOK, Initialize, AllOff
<1>7. QED
  BY <1>2, <1>3, <1>4, <1>5, <1>6 DEF TypeOK, Initialize, Context

LEMMA CommandType ==
  ASSUME TypeOK, \/ VideoStep
                 \/ AudioStep
                 \/ \E o \in Outputs : StartOutput(o) \/ Capture(o) \/ StopOutput(o)
  PROVE  TypeOK'
<1>1. ASSUME NEW size \in Regions, ScaleVideo(size) \/ CropVideo(size)
      PROVE  TypeOK'
  <2>1. ScaleAfter(size) \in {None} \cup ((Screens \cup {None}) \X Regions)
    BY DEF TypeOK, ScaleAfter
  <2>2. QED
    BY <1>1, <2>1 DEF TypeOK, ScaleVideo, CropVideo, Context
<1>2. ASSUME NEW c \in Channels, NEW d \in Devices \cup {Default}, ResetAudio(c, d)
      PROVE  TypeOK'
  BY <1>2 DEF TypeOK, ResetAudio, ResetAudioDevice, NewSource, Context, Sources
<1>3. ASSUME NEW c \in Channels, NEW on \in BOOLEAN,
             MuteAudio(c, on) \/ DownmixMono(c, on)
      PROVE  TypeOK'
  BY <1>3 DEF TypeOK, MuteAudio, DownmixMono, Context, Sources
<1>4. ASSUME NEW c \in Channels, NEW devices \in SUBSET Devices, Plug(c, devices)
      PROVE  TypeOK'
  BY <1>4 DEF TypeOK, Plug, Context
<1>5. ASSUME NEW o \in Outputs, StartOutput(o) \/ Capture(o) \/ StopOutput(o)
      PROVE  TypeOK'
  <2>1. 0 \in Context
    BY ContextAssumption DEF Context
  <2>2. CASE StartOutput(o)
    BY <2>1, <2>2 DEF TypeOK, StartOutput, Running
  <2>3. CASE Capture(o)
    BY <2>3 DEF TypeOK, Capture, Running
  <2>4. CASE StopOutput(o)
    BY <2>1, <2>4 DEF TypeOK, StopOutput, Running
  <2>5. QED
    BY <1>5, <2>2, <2>3, <2>4
<1>6. QED
  BY <1>1, <1>2, <1>3, <1>4, <1>5 DEF VideoStep, AudioStep

-----------------------------------------------------------------------------
(***************************************************************************)
(* The invariant.  What "initialized" promises holds because a busy libobs *)
(* refuses before anything but the sizes has changed; the rest relates     *)
(* what the members of ZDTalkOBSContext say to what was made from them.    *)
(***************************************************************************)
\* A channel without a source has been asked for nothing.
FlagsKept ==
    Ready => \A c \in Channels :
        IF source[c] = None THEN ~server.muted[c] /\ ~server.mono[c]
        ELSE source[c].muted = server.muted[c] /\ source[c].mono = server.mono[c]

\* The sizes stored are those the scene was last scaled with.
SizesKept ==
    Ready /\ ~server.resized =>
        /\ ctx.base = obs.canvas /\ ctx.org = scene.crop
        /\ scene.scale = <<obs.canvas, scene.crop>>

Inv == TypeOK /\ ReadyIsComplete /\ RecordingKeepsVideo /\ FlagsKept /\ SizesKept

\* An initialize that comes while an output takes frames fails before it has
\* changed anything but the sizes.
LEMMA BusyInitialize ==
  ASSUME TypeOK, NEW f, NEW screen \in Screens, NEW region \in Regions,
         Initialize(f, screen, region), capturing # {}
  PROVE  /\ f \in {"params", "audio"}
         /\ UNCHANGED <<scene, source, running>>
         /\ obs'.video = obs.video /\ obs'.audio = obs.audio
         /\ obs'.canvas = obs.canvas /\ (obs.started => obs'.started)
         /\ (ctx.made = Kept => ctx'.made = Kept)
         /\ ctx'.audioEncoder = ctx.audioEncoder
         /\ (f = "params" => ctx'.base = ctx.base /\ ctx'.org = ctx.org)
         /\ server'.ready = server.ready
         /\ server'.muted = server.muted /\ server'.mono = server.mono
         /\ (f = "audio" => server'.resized)
         /\ (f = "params" => server'.resized = server.resized)
<1>1. f \in {"params", "audio"}
  BY DEF Initialize, MayFail
<1>2. \A s \in {"video", "transition", "encoders", "audio"} : ~Passed(s, f)
  BY <1>1, StepNumber DEF Passed
<1>3. f = "params" => ~Passed("params", f)
  BY StepNumber DEF Passed
<1>4. UNCHANGED <<scene, source, running>>
  BY <1>2 DEF TypeOK, Initialize, SceneAfter, SourcesAfter
<1>5. /\ obs'.video = obs.video /\ obs'.audio = obs.audio
      /\ obs'.canvas = obs.canvas /\ (obs.started => obs'.started)
  BY <1>1, <1>2 DEF Initialize, ObsAfter
<1>6. /\ ctx.made = Kept => ctx'.made = Kept
      /\ ctx'.audioEncoder = ctx.audioEncoder
      /\ f = "params" => ctx'.base = ctx.base /\ ctx'.org = ctx.org
  BY <1>2, <1>3 DEF TypeOK, Initialize, CtxAfter
<1>7. /\ server'.ready = server.ready
      /\ server'.muted = server.muted /\ server'.mono = server.mono
      /\ f = "audio" => server'.resized
      /\ f = "params" => server'.resized = server.resized
  BY DEF TypeOK, Initialize
<1>8. QED
  BY <1>1, <1>4, <1>5, <1>6, <1>7

\* One that libobs does not refuse is "done" when "initialized" is sent.
LEMMA IdleInitialize ==
  ASSUME TypeOK, NEW f, NEW screen \in Screens, NEW region \in Regions,
         Initialize(f, screen, region), capturing = {}, Ready'
  PROVE  /\ f = "done" /\ UNCHANGED running /\ Running = {}
         /\ ReadyIsComplete' /\ FlagsKept' /\ SizesKept'
<1>1. f = "done" /\ UNCHANGED running /\ Running = {}
  BY DEF Initialize, Ready
<1>2. /\ Passed("params", f) /\ Passed("startup", f) /\ Passed("audio", f)
      /\ Passed("video", f) /\ Passed("outputs", f) /\ Passed("encoders", f)
      /\ Passed("transition", f) /\ Passed("scene", f) /\ Passed("capture", f)
      /\ Passed("window", f) /\ Passed("service", f)
  BY <1>1, StepNumber DEF Passed
<1>3. ctx'.made = Kept
  BY <1>2 DEF TypeOK, Initialize, CtxAfter, Kept
<1>4. server.inits + 1 # 0
  BY DEF TypeOK, Context
<1>5. ReadyIsComplete'
  BY <1>1, <1>2, <1>3, <1>4
     DEF ReadyIsComplete, Initialize, ObsAfter, CtxAfter, SceneAfter
<1>6. FlagsKept'
  BY <1>1, <1>2 DEF FlagsKept, Initialize, SourcesAfter, NewSource, AllOff
<1>7. SizesKept'
  BY <1>1, <1>2 DEF SizesKept, Initialize, ObsAfter, CtxAfter, SceneAfter
<1>8. QED
  BY <1>1, <1>5, <1>6, <1>7

LEMMA InitializeInv ==
  ASSUME Inv, NEW f, NEW screen \in Screens, NEW region \in Regions,
         Initialize(f, screen, region)
  PROVE  Inv'
<1>1. TypeOK'
  BY InitializeType DEF Inv
<1>2. CASE capturing # {}
  BY <1>1, <1>2, BusyInitialize
     DEF Inv, ReadyIsComplete, RecordingKeepsVideo, FlagsKept, SizesKept, Ready
<1>3. CASE capturing = {}
  <2>1. RecordingKeepsVideo'
    <3>1. Running = {} /\ UNCHANGED running
      BY <1>3 DEF Initialize
    <3>2. QED
      BY <3>1 DEF RecordingKeepsVideo, Running, Outputs
  <2>2. CASE Ready'
    BY <1>1, <1>3, <2>1, <2>2, IdleInitialize DEF Inv
  <2>3. CASE ~Ready'
    BY <1>1, <2>1, <2>3 DEF Inv, ReadyIsComplete, FlagsKept, SizesKept
  <2>4. QED
    BY <2>2, <2>3
<1>4. QED
  BY <1>2, <1>3

LEMMA CommandInv ==
  ASSUME Inv, \/ VideoStep
              \/ AudioStep
              \/ \E o \in Outputs : StartOutput(o) \/ Capture(o) \/ StopOutput(o)
  PROVE  Inv'
<1> USE DEF Inv, Ready
<1>0. TypeOK'
  BY CommandType
<1>1. ASSUME NEW size \in Regions, ScaleVideo(size) \/ CropVideo(size)
      PROVE  Inv'
  <2>1. /\ scene'.exists = scene.exists /\ scene'.capture = scene.capture
        /\ scene'.window = scene.window
        /\ UNCHANGED <<obs, source, running>> /\ ctx'.made = ctx.made
        /\ ctx'.audioEncoder = ctx.audioEncoder /\ ctx'.base = ctx.base
        /\ server'.ready = server.ready
        /\ server'.muted = server.muted /\ server'.mono = server.mono
    BY <1>1 DEF TypeOK, ScaleVideo, CropVideo
  <2>2. SizesKept'
    <3>1. CASE ScaleVideo(size)
      BY <3>1 DEF TypeOK, ScaleVideo, SizesKept
    <3>2. CASE CropVideo(size)
      BY <3>2 DEF TypeOK, CropVideo, ScaleAfter, SizesKept, ReadyIsComplete
    <3>3. QED
      BY <1>1, <3>1, <3>2
  <2>3. QED
    BY <1>0, <2>1, <2>2 DEF ReadyIsComplete, RecordingKeepsVideo, FlagsKept
<1>2. ASSUME NEW c \in Channels, NEW d \in Devices \cup {Default}, ResetAudio(c, d)
      PROVE  Inv'
  <2>1. PICK e \in Devices \cup {Default} : ResetAudioDevice(c, e)
    BY <1>2 DEF ResetAudio
  <2>2. \A k \in Channels \ {c} : source'[k] = source[k]
    BY <2>1 DEF TypeOK, ResetAudioDevice
  <2>3. source[c] = None => source'[c] = NewSource(e)
    BY <2>1 DEF TypeOK, ResetAudioDevice
  <2>4. source[c] # None =>
          /\ source'[c] \in Sources
          /\ source'[c].muted = source[c].muted /\ source'[c].mono = source[c].mono
    BY <2>1 DEF TypeOK, ResetAudioDevice, Sources
  <2>5. NewSource(e) \in Sources /\ None \notin Sources
    BY ContextAssumption DEF NewSource, Sources
  <2>6. server' = server
    BY <1>2 DEF ResetAudio
  <2>7. FlagsKept'
    <3>1. NewSource(e).muted = FALSE /\ NewSource(e).mono = FALSE
      BY DEF NewSource
    <3>2. CASE source[c] = None
      <4>1. server.ready => server.muted[c] = FALSE /\ server.mono[c] = FALSE
        BY <3>2 DEF TypeOK, FlagsKept
      <4>2. QED
        BY <2>2, <2>3, <2>5, <2>6, <3>1, <3>2, <4>1 DEF FlagsKept
    <3>3. CASE source[c] # None
      BY <2>2, <2>4, <2>5, <2>6, <3>3 DEF FlagsKept
    <3>4. QED
      BY <3>2, <3>3
  <2>8. QED
    BY <1>0, <1>2, <2>7
       DEF ResetAudio, ReadyIsComplete, RecordingKeepsVideo, SizesKept
<1>3. ASSUME NEW c \in Channels, NEW on \in BOOLEAN,
             MuteAudio(c, on) \/ DownmixMono(c, on)
      PROVE  Inv'
  <2>1. source[c] \in Sources /\ source'[c] \in Sources
    BY <1>3 DEF TypeOK, MuteAudio, DownmixMono, Sources
  <2>2. \A k \in Channels \ {c} : /\ source'[k] = source[k]
                                 /\ server'.muted[k] = server.muted[k]
                                 /\ server'.mono[k] = server.mono[k]
    BY <1>3 DEF TypeOK, MuteAudio, DownmixMono
  <2>3. /\ source'[c].muted = server'.muted[c] /\ source'[c].mono = server'.mono[c]
        /\ server'.ready = server.ready /\ server'.resized = server.resized
    BY <1>3 DEF TypeOK, MuteAudio, DownmixMono, Sources, FlagsKept
  <2>4. FlagsKept'
    BY <2>1, <2>2, <2>3, ContextAssumption, <1>3
       DEF FlagsKept, MuteAudio, DownmixMono
  <2>5. QED
    BY <1>0, <1>3, <2>3, <2>4
       DEF MuteAudio, DownmixMono, ReadyIsComplete, RecordingKeepsVideo, SizesKept
<1>4. ASSUME NEW c \in Channels, NEW devices \in SUBSET Devices, Plug(c, devices)
      PROVE  Inv'
  BY <1>0, <1>4
     DEF Plug, ReadyIsComplete, RecordingKeepsVideo, FlagsKept, SizesKept
<1>5. ASSUME NEW o \in Outputs, StartOutput(o) \/ Capture(o) \/ StopOutput(o)
      PROVE  Inv'
  <2>1. RecordingKeepsVideo'
    BY <1>5 DEF TypeOK, StartOutput, Capture, StopOutput, RecordingKeepsVideo,
                Outputs
  <2>2. QED
    BY <1>0, <1>5, <2>1
       DEF StartOutput, Capture, StopOutput, ReadyIsComplete, FlagsKept, SizesKept
<1>6. QED
  BY <1>1, <1>2, <1>3, <1>4, <1>5 DEF VideoStep, AudioStep

LEMMA InvInit == Init => Inv
<1> SUFFICES ASSUME Init PROVE Inv
  OBVIOUS
<1>1. 0 \in Context
  BY ContextAssumption DEF Context
<1>2. TypeOK
  BY <1>1 DEF Init, TypeOK, NoScene, AllOff
<1>3. QED
  BY <1>2 DEF Inv, Init, Ready, ReadyIsComplete, RecordingKeepsVideo, FlagsKept,
              SizesKept, Outputs

LEMMA InvNext == Inv /\ [Next]_vars => Inv'
<1> SUFFICES ASSUME Inv, [Next]_vars PROVE Inv'
  OBVIOUS
<1>1. CASE SetupStep
  BY <1>1, InitializeInv DEF SetupStep
<1>2. CASE \/ VideoStep
           \/ AudioStep
           \/ \E o \in Outputs : StartOutput(o) \/ Capture(o) \/ StopOutput(o)
  BY <1>2, CommandInv
<1>3. CASE UNCHANGED vars
  BY <1>3 DEF vars, Inv, TypeOK, Ready, ReadyIsComplete, RecordingKeepsVideo,
              FlagsKept, SizesKept, Context
<1>4. QED
  BY <1>1, <1>2, <1>3 DEF Next

LEMMA InvHolds == Spec => []Inv
BY InvInit, InvNext, PTL DEF Spec

-----------------------------------------------------------------------------
\* "initialized" means that everything a recording needs is there, however
\* many initializations failed and wherever (ZDTalkOBSContext::initialize).
THEOREM Complete == Spec => []ReadyIsComplete
<1>1. Inv => ReadyIsComplete
  BY DEF Inv
<1>2. QED
  BY <1>1, InvHolds, PTL

\* The scene is scaled from the size the window is cropped to, to the canvas
\* libobs renders (cropVideo, scaleVideo), until the sizes are overwritten.
THEOREM SceneFitting == Spec => []SceneFits
<1>1. Inv => SceneFits
  BY DEF Inv, SizesKept, SceneFits
<1>2. QED
  BY <1>1, InvHolds, PTL

\* No initialize replaces the video context of a recording that runs
\* (obs_reset_audio refuses, and is asked before obs_reset_video).
THEOREM VideoIsKept == Spec => []RecordingKeepsVideo
<1>1. Inv => RecordingKeepsVideo
  BY DEF Inv
<1>2. QED
  BY <1>1, InvHolds, PTL

\* Mute and downmix survive every change of the device (ResetAudioDevice).
THEOREM FlagsAreKept == Spec => []FlagsFollow
<1>1. Inv => FlagsFollow
  BY DEF Inv, FlagsKept, FlagsFollow
<1>2. QED
  BY <1>1, InvHolds, PTL

\* Every variable keeps its type.
THEOREM TypeCorrect == Spec => []TypeOK
<1>1. Inv => TypeOK
  BY DEF Inv
<1>2. QED
  BY <1>1, InvHolds, PTL
=============================================================================
