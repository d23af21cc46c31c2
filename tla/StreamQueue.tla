----------------------------- MODULE StreamQueue -----------------------------
(***************************************************************************)
(* The packet queue of the RTMP stream (obs-outputs/rtmp-stream.c) between *)
(* the encoders' callback, which adds packets and drops frames when the    *)
(* network falls behind, and send_thread, which takes them out; with the   *)
(* stop and the new session that reuse the same queue.                     *)
(*                                                                         *)
(* A packet is its place in `produced', the history of what libobs handed  *)
(* to rtmp_stream_data; its kind and its decoding time follow from that.   *)
(* One callback runs at a time: libobs holds interleaved_mutex around it.  *)
(* The connection (connect_thread, init_send) is one action, OpenSession;  *)
(* libobs' end of the capture is the flag hooked and the action Unhook.    *)
(***************************************************************************)
EXTENDS Integers, Sequences, SequencesExt, FiniteSets

CONSTANTS
    Kinds,          \* the kinds of packet the encoders produce, in KindSet
    BDrop, PDrop,   \* the drop thresholds, in video frames
    Allowed,        \* what may happen: "disconnect", "stop", "force"
    MaxPackets,     \* bound: packets of a behaviour
    MaxSessions,    \* bound: sessions of a behaviour
    Nobody          \* no packet in hand

\* "i" is an intra frame that is not an IDR frame: no keyframe for libobs.
KindSet == {"audio", "key", "i", "p", "b"}

ASSUME StreamAssumption ==
    /\ Kinds \subseteq KindSet
    /\ BDrop \in Nat /\ PDrop \in Nat /\ BDrop < PDrop
    /\ MaxPackets \in Nat /\ MaxSessions \in Nat
    /\ Nobody \notin Nat

VARIABLES
    produced,       \* history: the kinds of all packets handed over
    queue,          \* packets, min_priority, last_dts_usec, dropped_frames
    sem,            \* send_sem
    conn,           \* active, disconnected, stop_event and the session
    producer,       \* the callback in rtmp_stream_data
    sender,         \* send_thread
    sent            \* history: the packets sent in this session

vars == <<produced, queue, sem, conn, producer, sender, sent>>

Packets == 1..MaxPackets

\* first is the first packet of the session, stopAt the first packet that
\* may lie past stop_ts, 0 after a forced stop; hooked and ending are the
\* encoders being connected and the capture being ended, by libobs.
ConnType ==
    [active : BOOLEAN, disconnected : BOOLEAN, stopEvent : BOOLEAN,
     stopAt : Nat, first : Nat \ {0}, hooked : BOOLEAN, ending : BOOLEAN,
     sessions : 0..MaxSessions]

SenderLabels == {"dead", "wait", "next_packet", "send_packet", "close",
                 "free_packets", "reset"}

TypeOK ==
    /\ produced \in Seq(Kinds)
    /\ queue \in [packets : Seq(Packets), minPriority : 0..3,
                  lastDts : Nat, dropped : Nat]
    /\ sem \in Nat
    /\ conn \in ConnType
    /\ producer \in [pc : {"idle", "lock", "post"}, packet : Packets \cup {Nobody}]
    /\ sender \in [pc : SenderLabels, packet : Packets \cup {Nobody}]
    /\ sent \subseteq Packets

Init ==
    /\ produced = <<>>
    /\ queue = [packets |-> <<>>, minPriority |-> 0, lastDts |-> 0, dropped |-> 0]
    /\ sem = 0
    /\ conn = [active |-> FALSE, disconnected |-> FALSE, stopEvent |-> FALSE,
               stopAt |-> 0, first |-> 1, hooked |-> FALSE, ending |-> FALSE,
               sessions |-> 0]
    /\ producer = [pc |-> "idle", packet |-> Nobody]
    /\ sender = [pc |-> "dead", packet |-> Nobody]
    /\ sent = {}

-----------------------------------------------------------------------------
(***************************************************************************)
(* Packets.                                                                *)
(***************************************************************************)
Kind(i) == produced[i]
Audio(i) == Kind(i) = "audio"

\* drop_priority: the nal_ref_idc x264 gives the frame (OBS_NAL_PRIORITY_*).
DropPriority(i) ==
    CASE Kind(i) \in {"key", "i"} -> 3
      [] Kind(i) = "p"            -> 2
      [] OTHER                    -> 0

\* The session's video frames up to packet i; dts_usec starts over with each
\* session and is counted in frames.
Frames(i) == {j \in conn.first..i : ~Audio(j)}
Dts(i) == Cardinality(Frames(i))

\* The session's packets so far.
Session == conn.first..Len(produced)

\* The frames that frame i may be decoded from: the reference frames since
\* the last keyframe.
Needs(i) ==
    IF Kind(i) \in {"audio", "key", "i"} THEN {}
    ELSE {j \in conn.first..(i - 1) :
            /\ Kind(j) \in {"key", "i", "p"}
            /\ \A k \in (j + 1)..(i - 1) : Kind(k) # "key"}

-----------------------------------------------------------------------------
(***************************************************************************)
(* rtmp_stream_data and what it calls.                                     *)
(***************************************************************************)
\* drop_frames' loop: the packets that are in K, in the order of the queue.
Filter(packets, K) ==
    LET kept[n \in 0..Len(packets)] ==
          IF n = 0 THEN <<>>
          ELSE IF packets[n] \in K THEN Append(kept[n - 1], packets[n])
          ELSE kept[n - 1]
    IN kept[Len(packets)]

\* Neither audio nor a frame of the priority is dropped.
Kept(q, priority) ==
    {i \in ToSet(q.packets) : Audio(i) \/ DropPriority(i) >= priority}

\* Mutant: min_priority is not raised.
DropFramesForgets(q, priority) ==
    LET rest == Filter(q.packets, Kept(q, priority))
    IN [q EXCEPT !.packets = rest,
                 !.dropped = @ + Len(q.packets) - Len(rest)]

\* Mutant: audio is dropped as well.
DropFramesAudio(q, priority) ==
    LET rest == Filter(q.packets, {i \in ToSet(q.packets) : DropPriority(i) >= priority})
    IN [q EXCEPT !.packets = rest,
                 !.minPriority = IF @ < priority THEN priority ELSE @,
                 !.dropped = @ + Len(q.packets) - Len(rest)]

\* drop_frames: drops the frames below a priority, and asks for that much.
DropFrames(q, priority) ==
    LET rest == Filter(q.packets, Kept(q, priority))
    IN [q EXCEPT !.packets = rest,
                 !.minPriority = IF @ < priority THEN priority ELSE @,
                 !.dropped = @ + Len(q.packets) - Len(rest)]

\* find_first_video_packet: the first frame that is not a keyframe.
Droppable(q) == {n \in DOMAIN q.packets : Kind(q.packets[n]) \notin {"audio", "key"}}

\* Mutant: the threshold is compared with the wrong end of the queue.
CheckToDropFramesLast(q, threshold, priority) ==
    LET late == {n \in Droppable(q) :
                    /\ \A m \in Droppable(q) : m <= n
                    /\ q.lastDts - Dts(q.packets[n]) > threshold}
    IN IF Len(q.packets) < 5 \/ late = {} THEN q ELSE DropFrames(q, priority)

\* check_to_drop_frames: nothing under 5 packets; otherwise what is queued
\* is as long as from the first droppable frame to the last frame added.
CheckToDropFrames(q, threshold, priority) ==
    LET late == {n \in Droppable(q) :
                    /\ \A m \in Droppable(q) : n <= m
                    /\ q.lastDts - Dts(q.packets[n]) > threshold}
    IN IF Len(q.packets) < 5 \/ late = {} THEN q ELSE DropFrames(q, priority)

\* add_video_packet: both checks, then the frame itself may be dropped.
Checked(q) == CheckToDropFrames(CheckToDropFrames(q, BDrop, 2), PDrop, 3)

\* libobs hands over the next packet; the first frame is a keyframe, and no
\* more than one "b" comes between two reference frames.
Produce(kind) ==
    /\ producer.pc = "idle"
    /\ conn.hooked
    /\ Len(produced) < MaxPackets
    /\ LET frames == Frames(Len(produced))
       IN IF frames = {} THEN kind \in {"audio", "key"}
          ELSE kind = "b" => \E j \in frames : Kind(j) # "b" /\ \A k \in frames : k <= j
    /\ produced' = Append(produced, kind)
    /\ producer' = IF conn.disconnected \/ ~conn.active THEN producer
                   ELSE [pc |-> "lock", packet |-> Len(produced) + 1]
    /\ UNCHANGED <<queue, sem, conn, sender, sent>>

\* Mutant: a frame dropped on arrival is not counted.
AddPacketUncounted ==
    /\ producer.pc = "lock"
    /\ LET i == producer.packet
           q == IF Audio(i) THEN queue ELSE Checked(queue)
           added == Audio(i) \/ DropPriority(i) >= q.minPriority
       IN IF conn.disconnected \/ ~added
            THEN queue' = q /\ producer' = [pc |-> "idle", packet |-> Nobody]
            ELSE /\ queue' = [q EXCEPT
                        !.packets = Append(@, i),
                        !.minPriority = IF Audio(i) THEN @ ELSE 0,
                        !.lastDts = IF Audio(i) THEN @ ELSE Dts(i)]
                 /\ producer' = [producer EXCEPT !.pc = "post"]
    /\ UNCHANGED <<produced, sem, conn, sender, sent>>

\* Under packets_mutex: add_packet or add_video_packet.
AddPacket ==
    /\ producer.pc = "lock"
    /\ LET i == producer.packet
           q == IF Audio(i) THEN queue ELSE Checked(queue)
           added == Audio(i) \/ DropPriority(i) >= q.minPriority
       IN IF conn.disconnected
            THEN UNCHANGED queue /\ producer' = [pc |-> "idle", packet |-> Nobody]
          ELSE IF ~added
            THEN /\ queue' = [q EXCEPT !.dropped = @ + 1]
                 /\ producer' = [pc |-> "idle", packet |-> Nobody]
            ELSE /\ queue' = [q EXCEPT
                        !.packets = Append(@, i),
                        !.minPriority = IF Audio(i) THEN @ ELSE 0,
                        !.lastDts = IF Audio(i) THEN @ ELSE Dts(i)]
                 /\ producer' = [producer EXCEPT !.pc = "post"]
    /\ UNCHANGED <<produced, sem, conn, sender, sent>>

\* Mutant: the post is left out.
PostMissing ==
    /\ producer.pc = "post"
    /\ producer' = [pc |-> "idle", packet |-> Nobody]
    /\ UNCHANGED <<produced, queue, sem, conn, sender, sent>>

Post ==
    /\ producer.pc = "post"
    /\ sem' = sem + 1
    /\ producer' = [pc |-> "idle", packet |-> Nobody]
    /\ UNCHANGED <<produced, queue, conn, sender, sent>>

-----------------------------------------------------------------------------
(***************************************************************************)
(* send_thread.                                                            *)
(***************************************************************************)
Sending == UNCHANGED <<produced, producer>>

\* Woken by a post; a forced stop ends the loop at once.
SendWait ==
    /\ sender.pc = "wait"
    /\ sem > 0
    /\ sem' = sem - 1
    /\ sender' = [sender EXCEPT !.pc =
                    IF conn.stopEvent /\ conn.stopAt = 0 THEN "close"
                    ELSE "next_packet"]
    /\ UNCHANGED <<queue, conn, sent>> /\ Sending

\* Mutant: the packet is taken from the other end.
GetNextPacketBack ==
    /\ sender.pc = "next_packet"
    /\ IF queue.packets = <<>>
         THEN sender' = [sender EXCEPT !.pc = "wait"] /\ UNCHANGED queue
         ELSE /\ sender' = [pc |-> "send_packet", packet |-> Last(queue.packets)]
              /\ queue' = [queue EXCEPT !.packets = Front(@)]
    /\ UNCHANGED <<sem, conn, sent>> /\ Sending

\* A post may find the queue empty: its packet was dropped.
GetNextPacket ==
    /\ sender.pc = "next_packet"
    /\ IF queue.packets = <<>>
         THEN sender' = [sender EXCEPT !.pc = "wait"] /\ UNCHANGED queue
         ELSE /\ sender' = [pc |-> "send_packet", packet |-> Head(queue.packets)]
              /\ queue' = [queue EXCEPT !.packets = Tail(@)]
    /\ UNCHANGED <<sem, conn, sent>> /\ Sending

\* Mutant: any packet ends a stopping stream.
CanShutdownStreamAny ==
    /\ sender.pc = "send_packet"
    /\ conn.stopEvent
    /\ sender' = [pc |-> "close", packet |-> Nobody]
    /\ UNCHANGED <<queue, sem, conn, sent>> /\ Sending

\* can_shutdown_stream: a packet made before the stop lies before stop_ts,
\* a later one may lie on either side.
CanShutdownStream ==
    /\ sender.pc = "send_packet"
    /\ conn.stopEvent
    /\ sender.packet >= conn.stopAt
    /\ sender' = [pc |-> "close", packet |-> Nobody]
    /\ UNCHANGED <<queue, sem, conn, sent>> /\ Sending

SendPacket ==
    /\ sender.pc = "send_packet"
    /\ sender' = [pc |-> "wait", packet |-> Nobody]
    /\ sent' = sent \cup {sender.packet}
    /\ UNCHANGED <<queue, sem, conn>> /\ Sending

SendFails ==
    /\ "disconnect" \in Allowed
    /\ sender.pc = "send_packet"
    /\ conn' = [conn EXCEPT !.disconnected = TRUE]
    /\ sender' = [pc |-> "close", packet |-> Nobody]
    /\ UNCHANGED <<queue, sem, sent>> /\ Sending

\* obs_output_signal_stop or obs_output_end_data_capture: libobs begins to
\* end the capture.
Close ==
    /\ sender.pc = "close"
    /\ conn' = [conn EXCEPT !.ending = TRUE]
    /\ sender' = [sender EXCEPT !.pc = "free_packets"]
    /\ UNCHANGED <<queue, sem, sent>> /\ Sending

FreePackets ==
    /\ sender.pc = "free_packets"
    /\ queue' = [queue EXCEPT !.packets = <<>>]
    /\ sender' = [sender EXCEPT !.pc = "reset"]
    /\ UNCHANGED <<sem, conn, sent>> /\ Sending

Reset ==
    /\ sender.pc = "reset"
    /\ conn' = [conn EXCEPT !.stopEvent = FALSE, !.active = FALSE]
    /\ sender' = [sender EXCEPT !.pc = "dead"]
    /\ UNCHANGED <<queue, sem, sent>> /\ Sending

-----------------------------------------------------------------------------
(***************************************************************************)
(* rtmp_stream_stop.  libobs passes ts = 0 for a forced stop, and calls it *)
(* only while the output is active.  Bound: one forced stop a session.     *)
(***************************************************************************)
Stopping == conn.hooked /\ ~conn.ending

Stop(force) ==
    /\ (IF force THEN "force" ELSE "stop") \in Allowed
    /\ Stopping
    /\ conn.stopEvent => force /\ conn.stopAt # 0
    /\ conn' = [conn EXCEPT !.stopEvent = TRUE,
                            !.stopAt = IF force THEN 0 ELSE Len(produced) + 1]
    /\ sem' = IF force /\ conn.active THEN sem + 1 ELSE sem
    /\ UNCHANGED <<produced, queue, producer, sender, sent>>

(***************************************************************************)
(* A session: init_connect, init_send and obs_output_begin_data_capture.   *)
(* The capture of the last one has ended (the output's start waits for its *)
(* end thread), and so has its send_thread, which init_connect joins after *)
(* a stop and which a new connection outlasts after a disconnection.       *)
(***************************************************************************)
\* Mutant: neither the queue nor its semaphore is emptied.
OpenSessionKeepsPackets ==
    /\ conn.sessions < MaxSessions
    /\ ~conn.hooked /\ sender.pc = "dead"
    /\ queue' = [queue EXCEPT !.minPriority = 0, !.dropped = 0]
    /\ conn' = [conn EXCEPT !.active = TRUE, !.disconnected = FALSE, !.hooked = TRUE,
                            !.ending = FALSE, !.sessions = @ + 1,
                            !.first = Len(produced) + 1]
    /\ sender' = [sender EXCEPT !.pc = "wait"]
    /\ sent' = {}
    /\ UNCHANGED <<produced, sem, producer>>

OpenSession ==
    /\ conn.sessions < MaxSessions
    /\ ~conn.hooked /\ sender.pc = "dead"
    /\ queue' = [queue EXCEPT !.packets = <<>>, !.minPriority = 0, !.dropped = 0]
    /\ sem' = 0
    /\ conn' = [conn EXCEPT !.active = TRUE, !.disconnected = FALSE, !.hooked = TRUE,
                            !.ending = FALSE, !.sessions = @ + 1,
                            !.first = Len(produced) + 1]
    /\ sender' = [sender EXCEPT !.pc = "wait"]
    /\ sent' = {}
    /\ UNCHANGED <<produced, producer>>

\* libobs' end thread: removing the callback waits for the one running.
Unhook ==
    /\ conn.hooked /\ conn.ending
    /\ producer.pc = "idle"
    /\ conn' = [conn EXCEPT !.hooked = FALSE]
    /\ UNCHANGED <<produced, queue, sem, producer, sender, sent>>

-----------------------------------------------------------------------------
ProducerStep == AddPacket \/ Post

SenderStep == \/ SendWait \/ GetNextPacket
              \/ CanShutdownStream \/ SendPacket \/ SendFails
              \/ Close \/ FreePackets \/ Reset

Next == \/ \E kind \in Kinds : Produce(kind)
        \/ ProducerStep
        \/ SenderStep
        \/ \E force \in BOOLEAN : Stop(force)
        \/ OpenSession
        \/ Unhook

Spec == Init /\ [][Next]_vars

-----------------------------------------------------------------------------
InHand == {producer.packet, sender.packet} \ {Nobody}
Queued == ToSet(queue.packets)
Running == sender.pc \in {"wait", "next_packet", "send_packet"} /\ ~conn.disconnected

\* No packet waits without a post that will wake send_thread for it.
PostsCoverQueue ==
    Running => Len(queue.packets) <= sem + (IF sender.pc = "next_packet" THEN 1 ELSE 0)
                                         + (IF producer.pc = "post" THEN 1 ELSE 0)

\* Whatever is dropped, every frame sent can be decoded: the frames it was
\* made from were sent before it.  Not so after an intra frame that is no
\* keyframe: it ends the dropping, but what follows it may refer past it.
Decodable ==
    \A i \in sent :
        (\A j \in Needs(i) : Kind(j) # "i") => Needs(i) \subseteq sent

\* Audio and keyframes are never dropped while the connection lasts.
NeverDropped ==
    Running => \A i \in Session : Kind(i) \in {"audio", "key"} =>
                                      i \in sent \cup Queued \cup InHand

\* Each packet is sent, queued, in somebody's hands or counted as dropped.
DroppedIsCounted ==
    Running =>
        Cardinality(sent \cup Queued \cup InHand) + queue.dropped = Cardinality(Session)

\* The packets leave in the order they came, none of them twice.
InOrder ==
    LET line == IF sender.packet = Nobody \/ sender.packet \in sent
                  THEN queue.packets ELSE <<sender.packet>> \o queue.packets
    IN /\ IsSorted(line, LAMBDA i, j : i < j)
       /\ \A i \in sent, j \in ToSet(line) : i < j

\* Nothing of an earlier session is sent in a later one.
OnlyThisSession == sender.pc = "send_packet" => sender.packet \in Session

\* What may be dropped does not pile up: behind 5 packets or more, a frame
\* is queued no later than the larger threshold, and the frames dropped just
\* before it, after the first that may be dropped.
BacklogBounded ==
    \A n, m \in DOMAIN queue.packets :
        /\ Kind(queue.packets[n]) \in {"p", "b"} /\ ~Audio(queue.packets[m])
        /\ m > n /\ m > 5
        => Dts(queue.packets[m]) - Dts(queue.packets[n]) <= PDrop + 2

\* A stream that is stopped without force has sent all audio and keyframes
\* made before the stop.
StopFlushes ==
    [][ sender.pc = "send_packet" /\ sender'.pc = "close" /\ ~conn'.disconnected
          => \A i \in Session : i < conn.stopAt /\ Kind(i) \in {"audio", "key"}
                                    => i \in sent ]_vars
=============================================================================
