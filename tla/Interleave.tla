------------------------------ MODULE Interleave ------------------------------
(***************************************************************************)
(* Interleaving of the packets of a stream (libobs/obs-output.c): the      *)
(* audio and the video encoder each hand their packets over in order, but  *)
(* nothing orders the one thread against the other.  interleave_packets    *)
(* merges them by timestamp, drops what came before both had started,      *)
(* makes both start at 0 and sends one packet for each that comes.  What   *)
(* it sends is what StreamQueue!DataPacket receives.                       *)
(*                                                                         *)
(* One audio track, as ZDTalk has.  Time is counted in units that divide   *)
(* both packet periods.  Packet n of an encoder carries the system time of *)
(* its start plus n periods.  Encoders are paired (pair_encoders): audio   *)
(* starts at the time of the first video frame, less the priming of the    *)
(* audio encoder, whose offset is not taken off because receive_audio sets *)
(* first_received before the first packet is made.                         *)
(***************************************************************************)
EXTENDS Integers, Sequences, SequencesExt

CONSTANTS
    Period,        \* [Types -> time between two packets]
    KeyInterval,   \* every KeyInterval-th frame is a keyframe
    Leads,         \* how far before the first frame audio may start
    MaxLag,        \* one encoder's packets come at most so far before the other's
    MaxEarly,      \* packets of one encoder that may come before `active' is set
    MaxSessions,   \* bound: captures begun on the output
    MaxPackets     \* bound: packets of one encoder in a session

Types == {"video", "audio"}
Other(type) == CHOOSE t \in Types : t # type

\* No packet comes before system time 0: Base(1) is the longest lead.
ASSUME InterleaveAssumption ==
    /\ Period \in [Types -> Nat \ {0}]
    /\ KeyInterval \in Nat \ {0}
    /\ Leads \subseteq 0..((MaxPackets + 1) * (Period["video"] + Period["audio"]))
    /\ MaxLag \in Nat
    /\ MaxPackets \in Nat
    /\ MaxEarly \in 0..MaxPackets
    /\ MaxSessions \in Nat

VARIABLES
    encoders,   \* the two encoders: their start, and what they delivered
    output      \* struct obs_output: the fields the interleaving uses

vars == <<encoders, output>>

\* active is the output's flag; session counts the captures begun; next is
\* the packet to come, lost the number that came before active was set.
EncodersType ==
    [session : 0..MaxSessions, active : BOOLEAN, lead : Leads,
     next : [Types -> 0..MaxPackets], lost : [Types -> 0..MaxEarly]]

Packet == [type : Types, n : Nat, ts : Int]

\* packets is interleaved_packets; received stands for received_audio and
\* received_video; sent is what encoded_packet was given this session.
OutputType ==
    [packets : Seq(Packet), received : SUBSET Types,
     highest : [Types -> Int], offset : [Types -> Int], sent : Seq(Packet)]

-----------------------------------------------------------------------------
(***************************************************************************)
(* The encoders.                                                           *)
(***************************************************************************)
\* The system time of a session's first frame: later than any packet before.
Base(session) == session * (MaxPackets + 1) * (Period["video"] + Period["audio"])

SystemTs(type, n) ==
    Base(encoders.session) + n * Period[type]
        - (IF type = "audio" THEN encoders.lead ELSE 0)

IsKey(p) == p.type = "video" /\ p.n % KeyInterval = 0

\* The packet an encoder hands over next.
NextPacket(type) ==
    [type |-> type, n |-> encoders.next[type],
     ts |-> SystemTs(type, encoders.next[type])]

-----------------------------------------------------------------------------
(***************************************************************************)
(* The helpers of interleave_packets, on the record of the output.         *)
(***************************************************************************)
\* First and last index of a type; 0 when there is none.
FirstIdx(packets, type) == SelectInSeq(packets, LAMBDA p : p.type = type)
LastIdx(packets, type)  == SelectLastInSeq(packets, LAMBDA p : p.type = type)

\* insert_interleaved_packet: before the first packet that is later.
Insert(packets, p) ==
    LET later == SelectInSeq(packets, LAMBDA q : p.ts < q.ts)
    IN  InsertAt(packets, IF later = 0 THEN Len(packets) + 1 ELSE later, p)

\* resort_interleaved_packets: the packets are inserted anew, one by one.
Resort(o) ==
    LET resorted[k \in 0..Len(o.packets)] ==
          IF k = 0 THEN <<>> ELSE Insert(resorted[k - 1], o.packets[k])
    IN  [o EXCEPT !.packets = resorted[Len(o.packets)]]

Discard(o, count) == [o EXCEPT !.packets = SubSeq(@, count + 1, Len(@))]

SetHigher(o, p) ==
    [o EXCEPT !.highest[p.type] = IF @ < p.ts THEN p.ts ELSE @]

ApplyOffset(o, p) == [p EXCEPT !.ts = (p.n - o.offset[p.type]) * Period[p.type]]

\* discard_unused_audio_packets: up to the first packet not before ts.
DiscardUnusedAudio(o, ts) ==
    LET keep == SelectInSeq(o.packets, LAMBDA p : p.ts >= ts)
    IN  Discard(o, IF keep = 0 THEN Len(o.packets) ELSE keep - 1)

\* Mutant: the packet of the other type is not waited for.
SendUnchecked(o) ==
    [o EXCEPT !.packets = Tail(@), !.sent = Append(@, Head(o.packets))]

\* send_interleaved: one packet, if the other type has come further.
Send(o) ==
    LET out == Head(o.packets)
    IN  IF o.highest[Other(out.type)] > out.ts
          THEN [o EXCEPT !.packets = Tail(@), !.sent = Append(@, out)]
          ELSE o

Distance(a, b) == IF a < b THEN b - a ELSE a - b

\* get_interleaved_start_idx, as the number of packets before that point:
\* the first video, or the audio closest to it if that comes first.
BeforeStart(packets) ==
    LET video   == FirstIdx(packets, "video")
        away(i) == Distance(packets[i].ts, packets[video].ts)
        audios  == {i \in DOMAIN packets : packets[i].type = "audio"}
        closest == CHOOSE i \in audios : \A j \in audios :
                       away(i) < away(j) \/ (away(i) = away(j) /\ i <= j)
    IN  (IF video < closest THEN video ELSE closest) - 1

\* A type that is missing counts as not received: the search for a start
\* goes on when another packet of it has come.
Forget(o, types) == [o EXCEPT !.received = @ \ types]
Missing(packets) == {t \in Types : FirstIdx(packets, t) = 0}

\* Mutant: video without audio beside it is kept.
PruneKeepsPremature(o) ==
    IF Missing(o.packets) # {} THEN Forget(o, Missing(o.packets))
    ELSE Discard(o, BeforeStart(o.packets))

\* prune_interleaved_packets and prune_premature_packets: video more than a
\* frame ahead of the audio is dropped with that audio packet, otherwise
\* what lies before the start.
Prune(o) ==
    LET video == FirstIdx(o.packets, "video")
        audio == FirstIdx(o.packets, "audio")
    IN  IF video = 0 THEN Forget(o, {"video"})
        ELSE IF audio = 0 THEN Forget(o, {"audio"})
        ELSE IF o.packets[audio].ts - o.packets[video].ts > Period["video"]
               THEN Discard(o, IF audio > video THEN audio ELSE video)
        ELSE Discard(o, BeforeStart(o.packets))

\* Mutant: the packets that wait keep their time.
SetOffsetsLater(o) ==
    LET first(t) == o.packets[FirstIdx(o.packets, t)]
    IN  [o EXCEPT !.offset  = [t \in Types |-> first(t).n],
                  !.highest = [t \in Types |-> @[t] - first(t).ts]]

\* The offsets are those of the first packets, which then are at 0.
SetOffsets(o) ==
    LET first(t) == o.packets[FirstIdx(o.packets, t)]
        new == [o EXCEPT !.offset  = [t \in Types |-> first(t).n],
                         !.highest = [t \in Types |-> @[t] - first(t).ts]]
    IN  [new EXCEPT !.packets = [i \in DOMAIN @ |-> ApplyOffset(new, @[i])]]

\* initialize_interleaved_packets; it fails by forgetting a type.
Initialize(o) ==
    IF Missing(o.packets) # {} THEN Forget(o, Missing(o.packets))
    ELSE IF o.packets[LastIdx(o.packets, "audio")].ts
              < o.packets[FirstIdx(o.packets, "video")].ts
           THEN Forget(o, {"audio"})
    ELSE LET started == Discard(o, BeforeStart(o.packets))
         IN  IF Missing(started.packets) # {}
               THEN Forget(started, Missing(started.packets))
               ELSE SetOffsets(started)

Started(o) == o.received = Types

\* Both types have come for the first time, or again.
TryStart(o) ==
    LET pruned == Prune(o)
        init   == Initialize(pruned)
    IN  IF ~Started(pruned) THEN pruned
        ELSE IF ~Started(init) THEN init
        ELSE Send(Resort(init))

-----------------------------------------------------------------------------
(***************************************************************************)
(* interleave_packets.                                                     *)
(***************************************************************************)
\* Mutant: the first frame may be any.
InterleaveAnyFrame(o, p) ==
    IF Started(o)
      THEN LET out == ApplyOffset(o, p)
               in  == [o EXCEPT !.packets = Insert(@, out)]
           IN  Send(SetHigher(in, out))
    ELSE LET in  == [o EXCEPT !.received = @ \cup {p.type},
                              !.packets = Insert(@, p)]
             new == SetHigher(in, p)
         IN  IF Started(new) THEN TryStart(new) ELSE new

InterleavePackets(o, p) ==
    IF p.type = "video" /\ "video" \notin o.received /\ ~IsKey(p)
      THEN DiscardUnusedAudio(o, p.ts)
    ELSE IF Started(o)
      THEN LET out == ApplyOffset(o, p)
               in  == [o EXCEPT !.packets = Insert(@, out)]
           IN  Send(SetHigher(in, out))
    ELSE LET in  == [o EXCEPT !.received = @ \cup {p.type},
                              !.packets = Insert(@, p)]
             new == SetHigher(in, p)
         IN  IF Started(new) THEN TryStart(new) ELSE new

\* reset_packet_data.
Reset == [packets |-> <<>>, received |-> {}, highest |-> [t \in Types |-> 0],
          offset |-> [t \in Types |-> 0], sent |-> <<>>]

-----------------------------------------------------------------------------
Init ==
    /\ encoders \in [session : {0}, active : {FALSE}, lead : Leads,
                     next : {[t \in Types |-> 0]}, lost : {[t \in Types |-> 0]}]
    /\ output = Reset

\* hook_data_capture: the data are reset and both encoders start.
Hook ==
    /\ encoders.session < MaxSessions
    /\ encoders.session > 0 => encoders.active
    /\ \E lead \in Leads :
         encoders' = [session |-> encoders.session + 1, active |-> FALSE,
                      lead |-> lead, next |-> [t \in Types |-> 0],
                      lost |-> [t \in Types |-> 0]]
    /\ output' = Reset

\* obs_output_begin_data_capture sets active once the encoders are hooked.
Activate ==
    /\ encoders.session > 0
    /\ ~encoders.active
    /\ encoders' = [encoders EXCEPT !.active = TRUE, !.lost = encoders.next]
    /\ UNCHANGED output

\* An encoder hands over its next packet; one that runs far ahead waits.
\* Packets that come before the output is active are lost.
Deliver(type) ==
    /\ encoders.session > 0
    /\ encoders.next[type] < (IF encoders.active THEN MaxPackets ELSE MaxEarly)
    /\ SystemTs(type, encoders.next[type])
         <= SystemTs(Other(type), encoders.next[Other(type)]) + MaxLag
    /\ encoders' = [encoders EXCEPT !.next[type] = @ + 1]
    /\ output' = IF encoders.active THEN InterleavePackets(output, NextPacket(type))
                 ELSE output

Next == Hook \/ Activate \/ \E type \in Types : Deliver(type)

Spec == Init /\ [][Next]_vars

-----------------------------------------------------------------------------
\* No packet of its type was sent between packet i and packet j.
NoneBetween(i, j) ==
    \A k \in (i + 1)..(j - 1) : output.sent[k].type # output.sent[j].type

\* The first audio packet that reached the output lies within a frame of the
\* first video frame.
AudioInTime ==
    SystemTs("audio", encoders.lost["audio"]) <= SystemTs("video", 0) + Period["video"]

\* Every variable keeps its type.
TypeOK == encoders \in EncodersType /\ output \in OutputType

\* A stream begins with a keyframe: nothing else can be decoded.  When more
\* audio is lost before `active' is set it need not: prune drops the keyframe
\* with the audio it waited for, and keeps the frames after it.
FirstIsKeyframe ==
    AudioInTime =>
        \A i \in DOMAIN output.sent :
            output.sent[i].type = "video" /\ NoneBetween(0, i) => IsKey(output.sent[i])

\* "This ensures that the timestamps are monotonic" (send_interleaved).
Monotonic ==
    \A i \in 1..(Len(output.sent) - 1) : output.sent[i].ts <= output.sent[i + 1].ts

\* "Audio and video need to start at timestamp 0", and go on from there
\* without a gap: once started, no packet is lost or sent twice.
Gapless ==
    \A i \in DOMAIN output.sent :
        LET p == output.sent[i]
        IN  IF NoneBetween(0, i) THEN p.ts = 0
            ELSE \E j \in 1..(i - 1) :
                   /\ NoneBetween(j, i)
                   /\ output.sent[j] = [p EXCEPT !.n = @ - 1, !.ts = @ - Period[p.type]]

\* What plays together was captured together, to within a packet.
InSync ==
    Started(output) =>
        SystemTs("audio", output.offset["audio"])
            - SystemTs("video", output.offset["video"])
            \in (1 - Period["audio"])..Period["video"]
=============================================================================
