--------------------------- MODULE InterleaveProofs ---------------------------
(***************************************************************************)
(* Proofs about Interleave, for all periods, leads and bounds: the packets *)
(* are sent in the order of their times, from 0 on and without a gap, and, *)
(* when an audio packet is no longer than two frames, the stream begins    *)
(* with a keyframe and keeps sound and picture together.                   *)
(*                                                                         *)
(* The invariant says of each type which packets are at hand: while the    *)
(* output waits (Waiting), all from the first that was kept; once it has   *)
(* started (Running), all from the offset, the ones that were sent before  *)
(* the ones that wait.  The lemmas follow interleave_packets through its   *)
(* helpers: inserting, resorting, the search for the start, the offsets    *)
(* and the sending.                                                        *)
(***************************************************************************)
EXTENDS Interleave, Induction, SequenceTheorems

\* The time of packet n of a type whose packet 0 is at from[type].
Time(from, type, n) == from[type] + n * Period[type]

\* The times as the encoders give them, and less the offsets.
Captured == [t \in Types |-> SystemTs(t, 0)]
Zeroed(offset) == [t \in Types |-> 0 - offset[t] * Period[t]]

\* Packet n of a type is in s.
Holds(s, type, n) == \E a \in 1..Len(s) : s[a].type = type /\ s[a].n = n

\* Some packet of a type is in s.
Has(s, type) == \E a \in 1..Len(s) : s[a].type = type

\* The packets of s are in the order of their times, those of one type in
\* their order, each at its time and already delivered.
Sorted(s) == \A a, b \in 1..Len(s) : a < b => s[a].ts <= s[b].ts
Numbered(s) ==
    \A a, b \in 1..Len(s) : a < b /\ s[a].type = s[b].type => s[a].n < s[b].n
Timed(s, from, next) ==
    \A a \in 1..Len(s) : /\ s[a].ts = Time(from, s[a].type, s[a].n)
                         /\ s[a].n < next[s[a].type]
Line(s, from, next) == Sorted(s) /\ Numbered(s) /\ Timed(s, from, next)

\* No packet is missing after the first of its type.
Whole(s, next) ==
    \A a \in 1..Len(s) : \A n \in s[a].n..(next[s[a].type] - 1) :
        Holds(s, s[a].type, n)

\* The first packet of a type.
First(s, type) == s[FirstIdx(s, type)]

\* Some audio comes before all the video.
AudioAhead(s) ==
    \E a \in 1..Len(s) : /\ s[a].type = "audio"
                         /\ \A b \in 1..Len(s) : s[b].type = "video" => s[a].ts <= s[b].ts

\* highest is the time of the last packet of the type, if there is one.
Marked(o, from, next) ==
    \A t \in Types : /\ o.highest[t] <= Time(from, t, next[t])
                     /\ Has(o.packets, t) => o.highest[t] = Time(from, t, next[t] - 1)

\* Before both types have come.  Both may be there: initialize fails when
\* no audio has come as late as the first frame.
Waiting(o, from, next) ==
    /\ Line(o.packets, from, next)
    /\ Whole(o.packets, next)
    /\ o.sent = <<>>
    /\ "video" \in o.received <=> Has(o.packets, "video")
    /\ Has(o.packets, "audio") => "audio" \in o.received \/ Has(o.packets, "video")
    /\ Has(o.packets, "audio") /\ Has(o.packets, "video") => AudioAhead(o.packets)
    /\ Marked(o, from, next)

\* Afterwards, what waits and what was sent are all packets from the offsets
\* on, and nothing earlier than what was sent will come.
Running(o, next) ==
    LET from == Zeroed(o.offset)
    IN  /\ Line(o.packets, from, next)
        /\ Line(o.sent, from, next)
        /\ \A t \in Types : /\ o.offset[t] \in 0..(next[t] - 1)
                            /\ o.highest[t] = Time(from, t, next[t] - 1)
        /\ \A t \in Types : \A n \in o.offset[t]..(next[t] - 1) :
             Holds(o.sent, t, n) \/ Holds(o.packets, t, n)
        /\ \A i \in 1..Len(o.sent) :
             /\ o.offset[o.sent[i].type] <= o.sent[i].n
             /\ \A t \in Types : o.sent[i].ts <= Time(from, t, next[t])
             /\ \A a \in 1..Len(o.packets) :
                  /\ o.sent[i].ts <= o.packets[a].ts
                  /\ o.sent[i].type = o.packets[a].type => o.sent[i].n < o.packets[a].n
        /\ \A a \in 1..Len(o.packets) : o.offset[o.packets[a].type] <= o.packets[a].n

\* Little comes before `active' is set.
Early == ~encoders.active => \A t \in Types : encoders.next[t] <= MaxEarly

\* Before `active' is set nothing has changed; afterwards the output waits
\* for both types or has started.
Merging ==
    IF ~encoders.active THEN output = Reset
    ELSE /\ encoders.session > 0
         /\ IF Started(output) THEN Running(output, encoders.next)
            ELSE Waiting(output, Captured, encoders.next)

\* The time of the first audio packet kept, or of the next to come.
AudioFrom(o, from, next) ==
    IF Has(o.packets, "audio") THEN First(o.packets, "audio").ts
    ELSE Time(from, "audio", next["audio"])

\* The first frame kept is a keyframe, and audio does not come too late for
\* it; or for the frame to come.
InTime(o, from, next) ==
    IF Has(o.packets, "video")
      THEN /\ IsKey(First(o.packets, "video"))
           /\ AudioFrom(o, from, next) - First(o.packets, "video").ts <= Period["video"]
      ELSE AudioFrom(o, from, next) - Time(from, "video", next["video"]) <= Period["video"]

\* The offset of the video is that of a keyframe, or will be.
KeyFirst ==
    encoders.active /\ AudioInTime =>
        IF Started(output) THEN output.offset["video"] % KeyInterval = 0
        ELSE InTime(output, Captured, encoders.next)
-----------------------------------------------------------------------------
(***************************************************************************)
(* Types and times.                                                        *)
(***************************************************************************)
\* There are two types.
LEMMA TwoTypes ==
  /\ Other("video") = "audio" /\ Other("audio") = "video"
  /\ \A t \in Types : Other(t) \in Types /\ Other(t) # t
  /\ \A t, u \in Types : u = t \/ u = Other(t)
<1>1. Other("video") = "audio"
  BY DEF Types, Other
<1>2. Other("audio") = "video"
  BY DEF Types, Other
<1>3. QED
  BY <1>1, <1>2 DEF Types

\* Periods are positive.
LEMMA Periods == \A t \in Types : Period[t] \in Nat /\ Period[t] >= 1
BY InterleaveAssumption

\* Later packets of a type have later times, a period apart.
LEMMA Times ==
  ASSUME NEW from \in [Types -> Int], NEW t \in Types
  PROVE  /\ \A n \in Int : /\ Time(from, t, n) \in Int
                           /\ Time(from, t, n + 1) = Time(from, t, n) + Period[t]
                           /\ Time(from, t, n - 1) = Time(from, t, n) - Period[t]
         /\ \A m, n \in Int : m < n => Time(from, t, m) < Time(from, t, n)
<1> DEFINE P == Period[t]
<1>1. P \in Nat /\ P >= 1 /\ from[t] \in Int
  BY Periods
<1>2. \A n \in Int : (n + 1) * P = n * P + P /\ (n - 1) * P = n * P - P /\ n * P \in Int
  <2> HIDE DEF P
  <2> QED BY <1>1
<1>3. \A m, n \in Int : m < n => m * P < n * P
  <2> HIDE DEF P
  <2>1. ASSUME NEW m \in Int, NEW n \in Int, m < n PROVE m * P < n * P
    <3>1. PICK d \in Nat : d = n - m - 1
      BY <2>1
    <3>2. n = m + 1 + d
      BY <3>1
    <3>3. n * P = m * P + P + d * P
      BY <1>1, <3>1, <3>2
    <3>4. d * P \in Nat
      BY <1>1, <3>1
    <3>5. m * P \in Int
      BY <1>1
    <3>6. QED
      BY <1>1, <3>3, <3>4, <3>5
  <2>2. QED
    BY <2>1
<1>4. \A n : Time(from, t, n) = from[t] + n * P
  BY DEF Time
<1>5. QED
  <2> HIDE DEF P
  <2>1. \A n \in Int : n + 1 \in Int /\ n - 1 \in Int
    OBVIOUS
  <2>2. \A n \in Int : /\ Time(from, t, n) \in Int
                       /\ Time(from, t, n + 1) = Time(from, t, n) + P
                       /\ Time(from, t, n - 1) = Time(from, t, n) - P
    BY <1>1, <1>2, <1>4, <2>1
  <2>3. ASSUME NEW m \in Int, NEW n \in Int, m < n
        PROVE  Time(from, t, m) < Time(from, t, n)
    <3>1. m * P < n * P /\ m * P \in Int /\ n * P \in Int
      BY <1>2, <1>3, <2>3
    <3>2. QED
      BY <1>1, <1>4, <3>1
  <2>4. QED
    BY <2>2, <2>3 DEF P

\* The numbers of two packets of a type compare like their times.
LEMMA TimesOrder ==
  ASSUME NEW from \in [Types -> Int], NEW t \in Types, NEW m \in Int, NEW n \in Int
  PROVE  /\ Time(from, t, m) < Time(from, t, n) <=> m < n
         /\ Time(from, t, m) <= Time(from, t, n) <=> m <= n
<1>1. Time(from, t, m) \in Int /\ Time(from, t, n) \in Int
  BY Times
<1>2. /\ m < n => Time(from, t, m) < Time(from, t, n)
      /\ n < m => Time(from, t, n) < Time(from, t, m)
      /\ m = n => Time(from, t, n) = Time(from, t, m)
  BY Times
<1>3. QED
  BY <1>1, <1>2

\* What a packet of a sequence is.
LEMMA PacketOf ==
  ASSUME NEW s \in Seq(Packet)
  PROVE  /\ Len(s) \in Nat
         /\ DOMAIN s = 1..Len(s)
         /\ \A a \in 1..Len(s) : /\ s[a] \in Packet /\ s[a].type \in Types
                                 /\ s[a].n \in Nat /\ s[a].ts \in Int
<1>1. Len(s) \in Nat /\ \A a \in 1..Len(s) : s[a] \in Packet
  BY LenProperties, ElementOfSeq
<1>2. QED
  BY <1>1 DEF Packet

-----------------------------------------------------------------------------
(***************************************************************************)
(* Searching.                                                              *)
(***************************************************************************)
\* The first of some places.
LEMMA LeastPlace ==
  ASSUME NEW N \in Nat, NEW T \in SUBSET (1..N), T # {}
  PROVE  /\ Min(T) \in T
         /\ \A a \in T : Min(T) <= a
<1>1. T \in SUBSET Nat
  OBVIOUS
<1>2. \E n \in T : \A m \in T : n <= m
  BY <1>1, LeastNatural
<1>3. QED
  BY <1>2 DEF Min

\* The last of some places.
LEMMA LastPlace ==
  ASSUME NEW N \in Nat, NEW T \in SUBSET (1..N), T # {}
  PROVE  /\ Max(T) \in T
         /\ \A a \in T : Max(T) >= a
<1>1. T \in SUBSET (0..N)
  OBVIOUS
<1>2. \E n \in T : \A m \in T : m <= n
  BY <1>1, GreatestNatural
<1>3. PICK n \in T : \A m \in T : n >= m
  BY <1>2
<1>4. QED
  BY <1>3 DEF Max

\* What FirstIdx finds.
LEMMA FirstIs ==
  ASSUME NEW s \in Seq(Packet), NEW t \in Types
  PROVE  /\ FirstIdx(s, t) = 0 <=> ~Has(s, t)
         /\ Has(s, t) => /\ FirstIdx(s, t) \in 1..Len(s)
                         /\ s[FirstIdx(s, t)].type = t
                         /\ \A a \in 1..Len(s) : s[a].type = t => FirstIdx(s, t) <= a
<1> DEFINE T == {a \in 1..Len(s) : s[a].type = t}
<1>1. Len(s) \in Nat /\ T \in SUBSET (1..Len(s))
  BY PacketOf
<1>2. FirstIdx(s, t) = IF T # {} THEN Min(T) ELSE 0
  BY DEF FirstIdx, SelectInSeq
<1>3. Has(s, t) <=> T # {}
  BY DEF Has
<1>4. CASE T # {}
  <2>1. Min(T) \in T /\ \A a \in T : Min(T) <= a
    <3> HIDE DEF T
    <3> QED BY <1>1, <1>4, LeastPlace
  <2>2. QED
    BY <1>1, <1>2, <1>3, <1>4, <2>1
<1>5. CASE T = {}
  BY <1>2, <1>3, <1>5
<1>6. QED
  BY <1>4, <1>5

\* What LastIdx finds.
LEMMA LastIs ==
  ASSUME NEW s \in Seq(Packet), NEW t \in Types, Has(s, t)
  PROVE  LastIdx(s, t) \in 1..Len(s) /\ s[LastIdx(s, t)].type = t
<1> DEFINE T == {a \in 1..Len(s) : s[a].type = t}
<1>1. Len(s) \in Nat /\ T \in SUBSET (1..Len(s))
  BY PacketOf
<1>2. LastIdx(s, t) = IF T # {} THEN Max(T) ELSE 0
  BY DEF LastIdx, SelectLastInSeq
<1>3. T # {}
  BY DEF Has
<1>4. Max(T) \in T
  <2> HIDE DEF T
  <2> QED BY <1>1, <1>3, LastPlace
<1>5. QED
  BY <1>2, <1>3, <1>4

-----------------------------------------------------------------------------
(***************************************************************************)
(* insert_interleaved_packet.                                              *)
(***************************************************************************)
\* r is s with p put in at k, behind all that is not later.
Puts(s, p, k, r) ==
    /\ k \in 1..(Len(s) + 1)
    /\ r \in Seq(Packet) /\ Len(r) = Len(s) + 1
    /\ \A a \in 1..(k - 1) : r[a] = s[a] /\ s[a].ts <= p.ts
    /\ r[k] = p
    /\ \A a \in (k + 1)..(Len(s) + 1) : r[a] = s[a - 1]
    /\ k <= Len(s) => p.ts < s[k].ts

\* Insert does that.
LEMMA Inserted ==
  ASSUME NEW s \in Seq(Packet), NEW p \in Packet
  PROVE  \E k : Puts(s, p, k, Insert(s, p))
<1> DEFINE T == {a \in 1..Len(s) : p.ts < s[a].ts}
           N == Len(s)
<1>1. N \in Nat /\ T \in SUBSET (1..N) /\ \A a \in 1..N : s[a] \in Packet /\ s[a].ts \in Int
  BY PacketOf
<1>2. p.ts \in Int
  BY DEF Packet
<1>3. PICK k : k = IF T = {} THEN N + 1 ELSE Min(T)
  OBVIOUS
<1>4. /\ k \in 1..(N + 1)
      /\ k <= N => p.ts < s[k].ts
      /\ \A a \in 1..(k - 1) : s[a].ts <= p.ts
  <2>1. CASE T = {}
    <3>1. k = N + 1
      BY <1>3, <2>1
    <3>2. \A a \in 1..N : ~(p.ts < s[a].ts)
      BY <2>1
    <3> HIDE DEF T, N
    <3>3. QED
      BY <1>1, <1>2, <3>1, <3>2
  <2>2. CASE T # {}
    <3>1. k = Min(T)
      BY <1>3, <2>2
    <3>2. Min(T) \in T /\ \A a \in T : Min(T) <= a
      <4> HIDE DEF T, N
      <4> QED BY <1>1, <2>2, LeastPlace
    <3>3. k \in 1..N /\ p.ts < s[k].ts /\ \A a \in 1..N : p.ts < s[a].ts => k <= a
      BY <3>1, <3>2
    <3>4. \A a \in 1..(k - 1) : a \in 1..N /\ ~(k <= a)
      BY <1>1, <3>3
    <3> HIDE DEF T, N
    <3>5. QED
      BY <1>1, <1>2, <3>3, <3>4
  <2>3. QED
    BY <2>1, <2>2
<1>5. Insert(s, p) = InsertAt(s, k, p)
  <2>1. SelectInSeq(s, LAMBDA q : p.ts < q.ts) = IF T # {} THEN Min(T) ELSE 0
    BY DEF SelectInSeq
  <2>2. T # {} => Min(T) # 0
    BY <1>1, <1>3, <1>4
  <2>3. Insert(s, p) = InsertAt(s, IF SelectInSeq(s, LAMBDA q : p.ts < q.ts) = 0 THEN Len(s) + 1
                                   ELSE SelectInSeq(s, LAMBDA q : p.ts < q.ts), p)
    BY DEF Insert
  <2>4. (IF SelectInSeq(s, LAMBDA q : p.ts < q.ts) = 0 THEN Len(s) + 1
                                   ELSE SelectInSeq(s, LAMBDA q : p.ts < q.ts)) = k
    BY <1>3, <2>1, <2>2
  <2>5. QED
    BY <2>3, <2>4
<1> DEFINE front == SubSeq(s, 1, k - 1)
           back  == SubSeq(s, k, N)
           r     == Insert(s, p)
<1>6. /\ front \in Seq(Packet) /\ Len(front) = k - 1
      /\ \A a \in 1..(k - 1) : front[a] = s[a]
  <2>1. 1 \in Int /\ k - 1 \in Int /\ \A a \in 1..(k - 1) : a \in 1..N
    BY <1>1, <1>4
  <2>2. /\ front \in Seq(Packet)
        /\ Len(front) = IF 1 <= k - 1 THEN (k - 1) - 1 + 1 ELSE 0
        /\ \A a \in 1..((k - 1) - 1 + 1) : front[a] = s[1 + a - 1]
    <3>1. \A a \in 1..(k - 1) : s[a] \in Packet
      BY <1>1, <2>1
    <3>2. QED
      BY <2>1, <3>1, SubSeqProperties
  <2> HIDE DEF front, N
  <2>3. QED
    BY <1>1, <1>4, <2>2
<1>7. /\ back \in Seq(Packet) /\ Len(back) = N - k + 1
      /\ \A a \in 1..(N - k + 1) : back[a] = s[k + a - 1]
  <2>1. k \in Int /\ N \in Int /\ \A a \in k..N : a \in 1..N
    BY <1>1, <1>4
  <2>2. /\ back \in Seq(Packet)
        /\ Len(back) = IF k <= N THEN N - k + 1 ELSE 0
        /\ \A a \in 1..(N - k + 1) : back[a] = s[k + a - 1]
    <3>1. \A a \in k..N : s[a] \in Packet
      BY <1>1, <2>1
    <3>2. QED
      BY <2>1, <3>1, SubSeqProperties
  <2> HIDE DEF back, N
  <2>3. QED
    BY <1>1, <1>4, <2>2
<1>8. <<p>> \in Seq(Packet) /\ Len(<<p>>) = 1 /\ <<p>>[1] = p
  OBVIOUS
<1>9. PICK mid : mid = front \o <<p>>
  OBVIOUS
<1>10. /\ mid \in Seq(Packet) /\ Len(mid) = k
       /\ \A a \in 1..(k - 1) : mid[a] = s[a]
       /\ mid[k] = p
  <2>1. /\ mid \in Seq(Packet) /\ Len(mid) = Len(front) + 1
        /\ \A a \in 1..(Len(front) + 1) : mid[a] = IF a <= Len(front) THEN front[a]
                                                 ELSE <<p>>[a - Len(front)]
    <3> HIDE DEF front
    <3> QED BY <1>6, <1>8, <1>9, ConcatProperties
  <2>2. \A a \in 1..k : mid[a] = IF a <= k - 1 THEN front[a] ELSE <<p>>[a - (k - 1)]
    <3> HIDE DEF front
    <3> QED BY <1>4, <1>6, <2>1
  <2>3. mid[k] = <<p>>[1]
    <3>1. k \in 1..k /\ ~(k <= k - 1) /\ k - (k - 1) = 1
      BY <1>1, <1>4
    <3>2. QED
      BY <2>2, <3>1
  <2>4. \A a \in 1..(k - 1) : a \in 1..k /\ a <= k - 1
    BY <1>1, <1>4
  <2> HIDE DEF front
  <2>5. QED
    BY <1>1, <1>4, <1>6, <1>8, <2>1, <2>2, <2>3, <2>4
<1>11. r = mid \o back
  BY <1>5, <1>9 DEF InsertAt
<1>12. /\ r \in Seq(Packet) /\ Len(r) = k + (N - k + 1)
       /\ \A a \in 1..(k + (N - k + 1)) : r[a] = IF a <= k THEN mid[a] ELSE back[a - k]
  <2>1. /\ mid \o back \in Seq(Packet) /\ Len(mid \o back) = Len(mid) + Len(back)
        /\ \A a \in 1..(Len(mid) + Len(back)) :
             (mid \o back)[a] = IF a <= Len(mid) THEN mid[a] ELSE back[a - Len(mid)]
    <3> HIDE DEF back
    <3> QED BY <1>7, <1>10, ConcatProperties
  <2>2. Len(mid) = k /\ Len(back) = N - k + 1
    BY <1>7, <1>10
  <2> HIDE DEF r, back, N
  <2>3. QED
    BY <1>11, <2>1, <2>2
<1>13. Len(r) = N + 1 /\ \A a \in 1..(N + 1) : r[a] = IF a <= k THEN mid[a] ELSE back[a - k]
  <2>1. k + (N - k + 1) = N + 1
    BY <1>1, <1>4
  <2> HIDE DEF r, back, N
  <2>2. QED
    BY <1>12, <2>1
<1>14. \A a \in (k + 1)..(N + 1) : r[a] = s[a - 1]
  <2>1. ASSUME NEW a \in (k + 1)..(N + 1) PROVE r[a] = s[a - 1]
    <3>1. /\ a \in 1..(N + 1) /\ ~(a <= k) /\ a - k \in 1..(N - k + 1)
          /\ k + (a - k) - 1 = a - 1
      BY <1>1, <1>4
    <3> HIDE DEF r, back, N
    <3>2. QED
      BY <1>7, <1>13, <3>1
  <2>2. QED
    BY <2>1
<1>15. /\ \A a \in 1..(k - 1) : r[a] = s[a]
       /\ r[k] = p
  <2>1. k \in 1..(N + 1) /\ \A a \in 1..(k - 1) : a \in 1..(N + 1) /\ a <= k
    BY <1>1, <1>4
  <2> HIDE DEF r, back, N
  <2>2. QED
    BY <1>1, <1>4, <1>10, <1>13, <2>1
<1>16. QED
  <2> HIDE DEF T
  <2> QED BY <1>4, <1>12, <1>13, <1>14, <1>15 DEF Puts

\* Which packets there are then.
LEMMA PutsMembers ==
  ASSUME NEW s \in Seq(Packet), NEW p \in Packet, NEW k, NEW r, Puts(s, p, k, r)
  PROVE  /\ \A a \in 1..Len(r) : r[a] = p \/ \E b \in 1..Len(s) : r[a] = s[b]
         /\ \A b \in 1..Len(s) : \E a \in 1..Len(r) : r[a] = s[b]
         /\ \E a \in 1..Len(r) : r[a] = p
         /\ \A t, n : Holds(r, t, n) <=> Holds(s, t, n) \/ (p.type = t /\ p.n = n)
         /\ \A t : Has(r, t) <=> Has(s, t) \/ p.type = t
<1>1. Len(s) \in Nat /\ k \in 1..(Len(s) + 1) /\ Len(r) = Len(s) + 1
  BY PacketOf DEF Puts
<1>2. \A a \in 1..Len(r) : r[a] = p \/ \E b \in 1..Len(s) : r[a] = s[b]
  <2>1. ASSUME NEW a \in 1..Len(r) PROVE r[a] = p \/ \E b \in 1..Len(s) : r[a] = s[b]
    <3>1. CASE a < k
      <4>1. a \in 1..(k - 1) /\ a \in 1..Len(s)
        BY <1>1, <3>1
      <4>2. QED
        BY <4>1 DEF Puts
    <3>2. CASE a > k
      <4>1. a \in (k + 1)..(Len(s) + 1) /\ a - 1 \in 1..Len(s)
        BY <1>1, <3>2
      <4>2. QED
        BY <4>1 DEF Puts
    <3>3. CASE a = k
      BY <3>3 DEF Puts
    <3>4. QED
      BY <1>1, <3>1, <3>2, <3>3
  <2>2. QED
    BY <2>1
<1>3. \A b \in 1..Len(s) : \E a \in 1..Len(r) : r[a] = s[b]
  <2>1. ASSUME NEW b \in 1..Len(s) PROVE \E a \in 1..Len(r) : r[a] = s[b]
    <3>1. CASE b < k
      <4>1. b \in 1..(k - 1) /\ b \in 1..Len(r)
        BY <1>1, <3>1
      <4>2. QED
        BY <4>1 DEF Puts
    <3>2. CASE b >= k
      <4>1. b + 1 \in (k + 1)..(Len(s) + 1) /\ b + 1 \in 1..Len(r) /\ (b + 1) - 1 = b
        BY <1>1, <3>2
      <4>2. r[b + 1] = s[(b + 1) - 1]
        BY <4>1 DEF Puts
      <4>3. QED
        BY <4>1, <4>2
    <3>3. QED
      BY <1>1, <3>1, <3>2
  <2>2. QED
    BY <2>1
<1>4. k \in 1..Len(r) /\ r[k] = p
  BY <1>1 DEF Puts
<1>5. \A t, n : Holds(r, t, n) <=> Holds(s, t, n) \/ (p.type = t /\ p.n = n)
  BY <1>2, <1>3, <1>4 DEF Holds
<1>6. \A t : Has(r, t) <=> Has(s, t) \/ p.type = t
  BY <1>2, <1>3, <1>4 DEF Has
<1>7. QED
  BY <1>2, <1>3, <1>4, <1>5, <1>6

\* The numbers of the packets to come.
Counts == [Types -> Nat]

\* A line stays one when a packet with the highest number of its type is put
\* in.
LEMMA PutsLine ==
  ASSUME NEW s \in Seq(Packet), NEW p \in Packet, NEW k, NEW r, Puts(s, p, k, r),
         NEW from \in [Types -> Int], NEW next, NEW new,
         Line(s, from, next), p.ts = Time(from, p.type, p.n), p.n < new[p.type],
         \A a \in 1..Len(s) : s[a].n < new[s[a].type],
         \A a \in 1..Len(s) : s[a].type = p.type => s[a].n < p.n
  PROVE  Line(r, from, new)
<1>1. /\ Len(s) \in Nat /\ k \in 1..(Len(s) + 1) /\ Len(r) = Len(s) + 1
      /\ \A a \in 1..Len(s) : s[a].type \in Types /\ s[a].n \in Nat /\ s[a].ts \in Int
      /\ p.type \in Types /\ p.n \in Nat /\ p.ts \in Int
  BY PacketOf DEF Puts, Packet
<1>2. Timed(r, from, new)
  BY PutsMembers DEF Timed, Line
<1>3. \A a \in 1..Len(s) : a >= k => p.ts < s[a].ts /\ s[a].type # p.type
  <2> SUFFICES ASSUME NEW a \in 1..Len(s), a >= k
               PROVE  p.ts < s[a].ts /\ s[a].type # p.type
    OBVIOUS
  <2>1. k \in 1..Len(s) /\ p.ts < s[k].ts
    BY <1>1 DEF Puts
  <2>2. s[k].ts <= s[a].ts
    BY <1>1, <2>1 DEF Line, Sorted
  <2>3. p.ts < s[a].ts
    <3>1. PICK x, y, z : x = p.ts /\ y = s[k].ts /\ z = s[a].ts
      OBVIOUS
    <3>2. x \in Int /\ y \in Int /\ z \in Int
      BY <1>1, <2>1, <3>1
    <3>3. QED
      BY <2>1, <2>2, <3>1, <3>2
  <2>4. ASSUME s[a].type = p.type PROVE FALSE
    <3>1. s[a].n < p.n /\ s[a].ts = Time(from, p.type, s[a].n)
      BY <2>4 DEF Line, Timed
    <3>2. s[a].ts < p.ts
      <4>1. s[a].n \in Int /\ p.n \in Int /\ p.type \in Types
        BY <1>1
      <4>2. Time(from, p.type, s[a].n) < Time(from, p.type, p.n)
        BY <3>1, <4>1, TimesOrder
      <4>3. QED
        BY <3>1, <4>2
    <3>3. QED
      BY <1>1, <2>3, <3>2
  <2>5. QED
    BY <2>3, <2>4
<1>4. ASSUME NEW a \in 1..Len(r), NEW b \in 1..Len(r), a < b
      PROVE  r[a].ts <= r[b].ts /\ (r[a].type = r[b].type => r[a].n < r[b].n)
  <2>1. CASE b < k
    <3>1. a \in 1..(k - 1) /\ b \in 1..(k - 1) /\ a \in 1..Len(s) /\ b \in 1..Len(s)
      BY <1>1, <1>4, <2>1
    <3>2. r[a] = s[a] /\ r[b] = s[b]
      BY <3>1 DEF Puts
    <3>3. QED
      BY <1>4, <3>1, <3>2 DEF Line, Sorted, Numbered
  <2>2. CASE b = k
    <3>1. a \in 1..(k - 1) /\ a \in 1..Len(s)
      BY <1>1, <1>4, <2>2
    <3>2. r[a] = s[a] /\ r[b] = p /\ s[a].ts <= p.ts
      BY <2>2, <3>1 DEF Puts
    <3>3. QED
      BY <3>1, <3>2
  <2>3. CASE a = k
    <3>1. b \in (k + 1)..(Len(s) + 1) /\ b - 1 \in 1..Len(s) /\ b - 1 >= k
      BY <1>1, <1>4, <2>3
    <3>2. r[b] = s[b - 1] /\ r[a] = p
      BY <2>3, <3>1 DEF Puts
    <3>3. p.ts < s[b - 1].ts /\ s[b - 1].type # p.type
      BY <1>3, <3>1
    <3>4. s[b - 1].ts \in Int
      BY <1>1, <3>1
    <3>5. QED
      BY <1>1, <3>2, <3>3, <3>4
  <2>4. CASE a < k /\ k < b
    <3>1. /\ a \in 1..(k - 1) /\ a \in 1..Len(s)
          /\ b \in (k + 1)..(Len(s) + 1) /\ b - 1 \in 1..Len(s) /\ a < b - 1
      BY <1>1, <1>4, <2>4
    <3>2. r[b] = s[b - 1] /\ r[a] = s[a]
      BY <3>1 DEF Puts
    <3>3. QED
      BY <3>1, <3>2 DEF Line, Sorted, Numbered
  <2>5. CASE k < a
    <3>1. /\ a \in (k + 1)..(Len(s) + 1) /\ a - 1 \in 1..Len(s)
          /\ b \in (k + 1)..(Len(s) + 1) /\ b - 1 \in 1..Len(s) /\ a - 1 < b - 1
      BY <1>1, <1>4, <2>5
    <3>2. r[b] = s[b - 1] /\ r[a] = s[a - 1]
      BY <3>1 DEF Puts
    <3>3. QED
      BY <3>1, <3>2 DEF Line, Sorted, Numbered
  <2>6. QED
    BY <1>1, <1>4, <2>1, <2>2, <2>3, <2>4, <2>5
<1>5. QED
  BY <1>2, <1>4 DEF Line, Sorted, Numbered

-----------------------------------------------------------------------------
(***************************************************************************)
(* discard_to_idx.                                                         *)
(***************************************************************************)
\* What is left of s when c packets are taken off.
Cut(s, c) == SubSeq(s, c + 1, Len(s))

\* Cut takes off the first packets, and keeps a line a line.
LEMMA CutIs ==
  ASSUME NEW s \in Seq(Packet), NEW c \in 0..Len(s)
  PROVE  /\ Cut(s, c) \in Seq(Packet) /\ Len(Cut(s, c)) = Len(s) - c
         /\ \A a \in 1..(Len(s) - c) : Cut(s, c)[a] = s[a + c] /\ a + c \in 1..Len(s)
<1>1. Len(s) \in Nat /\ c \in Nat /\ \A a \in (c + 1)..Len(s) : a \in 1..Len(s) /\ s[a] \in Packet
  BY PacketOf
<1>2. /\ Cut(s, c) \in Seq(Packet)
      /\ Len(Cut(s, c)) = IF c + 1 <= Len(s) THEN Len(s) - (c + 1) + 1 ELSE 0
      /\ \A a \in 1..(Len(s) - (c + 1) + 1) : Cut(s, c)[a] = s[(c + 1) + a - 1]
  BY <1>1, SubSeqProperties DEF Cut
<1>3. Len(Cut(s, c)) = Len(s) - c
  BY <1>1, <1>2
<1>4. ASSUME NEW a \in 1..(Len(s) - c) PROVE Cut(s, c)[a] = s[a + c] /\ a + c \in 1..Len(s)
  <2>1. a \in 1..(Len(s) - (c + 1) + 1) /\ (c + 1) + a - 1 = a + c /\ a + c \in 1..Len(s)
    BY <1>1
  <2>2. QED
    BY <1>2, <2>1
<1>5. QED
  BY <1>2, <1>3, <1>4

\* What is left is still a line without a gap.
LEMMA CutLine ==
  ASSUME NEW s \in Seq(Packet), NEW c \in 0..Len(s),
         NEW from \in [Types -> Int], NEW next \in Counts, Line(s, from, next)
  PROVE  /\ Line(Cut(s, c), from, next)
         /\ Whole(s, next) => Whole(Cut(s, c), next)
         /\ \A t : Has(Cut(s, c), t) => Has(s, t)
<1> DEFINE r == Cut(s, c)
<1>1. /\ Len(s) \in Nat /\ c \in Nat /\ r \in Seq(Packet) /\ Len(r) = Len(s) - c
      /\ \A a \in 1..Len(r) : r[a] = s[a + c] /\ a + c \in 1..Len(s)
  BY CutIs, PacketOf
<1>2. \A a, b \in 1..Len(r) : a < b => a + c < b + c
  BY <1>1
<1> HIDE DEF r
<1>3. Line(r, from, next)
  <2>1. Sorted(r)
    BY <1>1, <1>2 DEF Line, Sorted
  <2>2. Numbered(r)
    BY <1>1, <1>2 DEF Line, Numbered
  <2>3. Timed(r, from, next)
    BY <1>1 DEF Line, Timed
  <2>4. QED
    BY <2>1, <2>2, <2>3 DEF Line
<1>4. ASSUME Whole(s, next) PROVE Whole(r, next)
  <2> SUFFICES ASSUME NEW a \in 1..Len(r), NEW n \in r[a].n..(next[r[a].type] - 1)
               PROVE  Holds(r, r[a].type, n)
    BY DEF Whole
  <2>1. /\ r[a] = s[a + c] /\ a + c \in 1..Len(s) /\ r[a].type \in Types
        /\ r[a].n \in Nat /\ next[r[a].type] \in Nat /\ n >= r[a].n
    BY <1>1, PacketOf DEF Counts
  <2>2. CASE n = r[a].n
    BY <2>2 DEF Holds
  <2>3. CASE n > r[a].n
    <3>1. PICK b \in 1..Len(s) : s[b].type = r[a].type /\ s[b].n = n
      BY <1>4, <2>1 DEF Whole, Holds
    <3>2. ~(b < a + c) /\ b # a + c
      BY <2>1, <2>3, <3>1 DEF Line, Numbered
    <3>3. b - c \in 1..Len(r) /\ (b - c) + c = b
      BY <1>1, <2>1, <3>2
    <3>4. r[b - c] = s[b]
      BY <1>1, <3>3
    <3>5. QED
      BY <3>1, <3>3, <3>4 DEF Holds
  <2>4. QED
    BY <2>1, <2>2, <2>3
<1>5. \A t : Has(r, t) => Has(s, t)
  BY <1>1 DEF Has
<1>6. QED
  BY <1>3, <1>4, <1>5 DEF r

\* One packet of a type more.
More(next, type) == [next EXCEPT ![type] = @ + 1]

\* The packet that comes next leaves no gap.
LEMMA PutsNext ==
  ASSUME NEW s \in Seq(Packet), NEW p \in Packet, NEW k, NEW r, Puts(s, p, k, r),
         NEW from \in [Types -> Int], NEW next \in Counts,
         Line(s, from, next), p.ts = Time(from, p.type, p.n), p.n = next[p.type]
  PROVE  /\ Line(r, from, More(next, p.type))
         /\ Whole(s, next) => Whole(r, More(next, p.type))
<1> DEFINE new == More(next, p.type)
<1>1. /\ p.type \in Types /\ next[p.type] \in Nat /\ new \in Counts
      /\ new[p.type] = next[p.type] + 1
      /\ \A t \in Types : t # p.type => new[t] = next[t]
  BY DEF Packet, Counts, More
<1>2. \A a \in 1..Len(s) : s[a].type \in Types /\ s[a].n \in Nat /\ s[a].n < next[s[a].type]
  BY PacketOf DEF Line, Timed
<1> HIDE DEF new
<1>3. \A a \in 1..Len(s) : s[a].n < new[s[a].type]
  <2>1. ASSUME NEW t \in Types PROVE next[t] \in Nat /\ next[t] <= new[t] /\ new[t] \in Nat
    <3>1. next[t] \in Nat
      BY DEF Counts
    <3>2. CASE t = p.type
      BY <1>1, <3>1, <3>2
    <3>3. CASE t # p.type
      BY <1>1, <3>1, <3>3
    <3>4. QED
      BY <3>2, <3>3
  <2>2. \A t \in Types : \A n \in Nat : n < next[t] => n < new[t]
    BY <2>1
  <2>3. QED
    BY <1>2, <2>2
<1>4. p.n < new[p.type]
  BY <1>1
<1>5. Line(r, from, new)
  BY <1>2, <1>3, <1>4, PutsLine
<1>6. ASSUME Whole(s, next) PROVE Whole(r, new)
  <2> SUFFICES ASSUME NEW a \in 1..Len(r), NEW n \in r[a].n..(new[r[a].type] - 1)
               PROVE  Holds(r, r[a].type, n)
    BY DEF Whole
  <2>1. r[a] = p \/ \E b \in 1..Len(s) : r[a] = s[b]
    BY PutsMembers
  <2>2. CASE r[a] = p
    <3>1. n = p.n
      BY <1>1, <2>2
    <3>2. QED
      BY <2>2, <3>1, PutsMembers
  <2>3. ASSUME NEW b \in 1..Len(s), r[a] = s[b] PROVE Holds(r, r[a].type, n)
    <3>1. s[b].type \in Types /\ s[b].n \in Nat /\ next[s[b].type] \in Nat
      BY <1>2 DEF Counts
    <3>2. CASE n < next[s[b].type]
      <4>1. n \in s[b].n..(next[s[b].type] - 1)
        BY <2>3, <3>1, <3>2
      <4>2. Holds(s, s[b].type, n)
        BY <1>6, <4>1 DEF Whole
      <4>3. QED
        BY <2>3, <4>2, PutsMembers
    <3>3. CASE ~(n < next[s[b].type])
      <4>1. s[b].type = p.type /\ n = p.n
        BY <1>1, <2>3, <3>1, <3>3
      <4>2. QED
        BY <2>3, <4>1, PutsMembers
    <3>4. QED
      BY <3>2, <3>3
  <2>4. QED
    BY <2>1, <2>2, <2>3
<1>7. QED
  BY <1>5, <1>6 DEF new

-----------------------------------------------------------------------------
(***************************************************************************)
(* get_interleaved_start_idx.                                              *)
(***************************************************************************)
\* s[c] is the audio closest to the first frame.
Closest(s, c) ==
    /\ c \in 1..Len(s) /\ s[c].type = "audio"
    /\ \A j \in 1..Len(s) : s[j].type = "audio" =>
         Distance(s[c].ts, First(s, "video").ts) <= Distance(s[j].ts, First(s, "video").ts)

\* Distances are naturals.
LEMMA Distances ==
  \A a, b \in Int : /\ Distance(a, b) \in Nat
                    /\ a <= b => Distance(a, b) = b - a
                    /\ b <= a => Distance(a, b) = a - b
BY DEF Distance

\* There is one.
LEMMA ClosestIs ==
  ASSUME NEW s \in Seq(Packet), Has(s, "audio"), Has(s, "video")
  PROVE  \E c : Closest(s, c) /\ BeforeStart(s) =
           (IF FirstIdx(s, "video") < c THEN FirstIdx(s, "video") ELSE c) - 1
<1> DEFINE v       == FirstIdx(s, "video")
           audios  == {i \in DOMAIN s : s[i].type = "audio"}
           away(i) == Distance(s[i].ts, s[v].ts)
           best(i) == \A j \in audios : away(i) < away(j) \/ (away(i) = away(j) /\ i <= j)
           c       == CHOOSE i \in audios : best(i)
<1>1. /\ Len(s) \in Nat /\ DOMAIN s = 1..Len(s) /\ audios \in SUBSET (1..Len(s))
      /\ audios # {} /\ v \in 1..Len(s)
      /\ \A a \in 1..Len(s) : s[a].ts \in Int
  <2>1. "video" \in Types
    BY DEF Types
  <2>2. QED
    BY <2>1, PacketOf, FirstIs DEF Has
<1>2. \A i \in audios : away(i) \in Nat
  <2>1. \A i \in audios : s[i].ts \in Int /\ s[v].ts \in Int
    BY <1>1
  <2>2. QED
    BY <2>1, Distances
<1>3. PICK i \in audios : \A j \in audios : away(i) <= away(j)
  <2> DEFINE D == {away(j) : j \in audios}
  <2>1. D \in SUBSET Nat /\ D # {}
    BY <1>1, <1>2
  <2>2. PICK d \in D : \A e \in D : d <= e
    <3> HIDE DEF D
    <3> QED BY <2>1, LeastNatural
  <2>3. PICK i \in audios : d = away(i)
    BY <2>2
  <2>4. \A j \in audios : away(j) \in D
    OBVIOUS
  <2>5. \A j \in audios : d <= away(j)
    <3> HIDE DEF D
    <3> QED BY <2>2, <2>4
  <2>6. \A j \in audios : away(i) <= away(j)
    <3> HIDE DEF D, audios, away
    <3> QED BY <2>3, <2>5
  <2>7. QED
    BY <2>6
<1> DEFINE T == {j \in audios : away(j) = away(i)}
<1>4. PICK m \in T : \A j \in T : m <= j
  <2>1. T \in SUBSET Nat /\ T # {}
    BY <1>1, <1>3
  <2>2. QED
    <3> HIDE DEF T
    <3> QED BY <2>1, LeastNatural
<1>5. m \in audios /\ best(m)
  <2>1. m \in audios /\ away(m) = away(i)
    BY <1>4
  <2>2. ASSUME NEW j \in audios PROVE away(m) < away(j) \/ (away(m) = away(j) /\ m <= j)
    <3>1. away(i) \in Nat /\ away(j) \in Nat /\ away(i) <= away(j)
      BY <1>2, <1>3
    <3>2. away(j) = away(i) => m <= j
      BY <1>4
    <3> HIDE DEF away, audios
    <3>3. QED
      BY <2>1, <3>1, <3>2
  <2>3. QED
    BY <2>1, <2>2
<1>6. c \in audios /\ best(c)
  <2> HIDE DEF best, audios
  <2> QED BY <1>5
<1>7. BeforeStart(s) = (IF v < c THEN v ELSE c) - 1
  BY DEF BeforeStart
<1>8. Closest(s, c)
  <2>1. \A j \in audios : away(c) <= away(j)
    <3>1. \A j \in audios : away(c) \in Nat /\ away(j) \in Nat
      BY <1>2, <1>6
    <3>2. \A j \in audios : away(c) < away(j) \/ away(c) = away(j)
      BY <1>6
    <3> HIDE DEF away, audios, c
    <3>3. QED
      BY <3>1, <3>2
  <2>2. c \in 1..Len(s) /\ s[c].type = "audio"
    BY <1>1, <1>6
  <2> HIDE DEF c
  <2>3. QED
    BY <1>1, <2>1, <2>2 DEF Closest, First
<1>9. QED
  <2> HIDE DEF c, v
  <2> QED BY <1>7, <1>8 DEF v

\* From there on the first frame is the same, and the closest audio the first.
LEMMA StartIs ==
  ASSUME NEW s \in Seq(Packet), Has(s, "audio"), Has(s, "video"),
         NEW from \in [Types -> Int], NEW next \in Counts, Line(s, from, next)
  PROVE  LET r == Cut(s, BeforeStart(s))
         IN  /\ BeforeStart(s) \in 0..Len(s)
             /\ r \in Seq(Packet) /\ Line(r, from, next)
             /\ Whole(s, next) => Whole(r, next)
             /\ Has(r, "audio") /\ Has(r, "video")
             /\ First(r, "video") = First(s, "video")
             /\ \E c : Closest(s, c) /\ First(r, "audio") = s[c]
<1> DEFINE v == FirstIdx(s, "video")
           r == Cut(s, BeforeStart(s))
<1>1. PICK c : Closest(s, c) /\ BeforeStart(s) = (IF v < c THEN v ELSE c) - 1
  BY ClosestIs
<1>2. "audio" \in Types /\ "video" \in Types /\ "audio" # "video"
  BY DEF Types
<1>3. /\ Len(s) \in Nat /\ v \in 1..Len(s) /\ s[v].type = "video"
      /\ \A a \in 1..Len(s) : s[a].type = "video" => v <= a
      /\ c \in 1..Len(s) /\ s[c].type = "audio"
  BY <1>1, <1>2, PacketOf, FirstIs DEF Closest
<1>4. PICK b : b = BeforeStart(s)
  OBVIOUS
<1>5. /\ b \in 0..Len(s) /\ b < v /\ b < c /\ b \in Nat
      /\ b = v - 1 \/ b = c - 1
      /\ b = v - 1 => v < c \/ v = c
  <2> HIDE DEF v
  <2> QED BY <1>1, <1>3, <1>4
<1>6. /\ r \in Seq(Packet) /\ Len(r) = Len(s) - b
      /\ \A a \in 1..(Len(s) - b) : r[a] = s[a + b] /\ a + b \in 1..Len(s)
  BY <1>4, <1>5, CutIs
<1>7. Line(r, from, next) /\ (Whole(s, next) => Whole(r, next))
  BY <1>4, <1>5, CutLine
<1>8. /\ v - b \in 1..Len(r) /\ (v - b) + b = v
      /\ c - b \in 1..Len(r) /\ (c - b) + b = c
  <2> HIDE DEF v, r
  <2>1. v \in Nat /\ c \in Nat /\ b \in Nat /\ v <= Len(s) /\ c <= Len(s) /\ Len(s) \in Nat
    BY <1>3, <1>5
  <2>2. v - b \in 1..(Len(s) - b) /\ c - b \in 1..(Len(s) - b)
    BY <1>5, <2>1
  <2>3. (v - b) + b = v /\ (c - b) + b = c
    BY <2>1
  <2>4. QED
    BY <1>6, <2>2, <2>3
<1>9. r[v - b] = s[v] /\ r[c - b] = s[c]
  <2> HIDE DEF v, r
  <2> QED BY <1>6, <1>8
<1>10. Has(r, "audio") /\ Has(r, "video")
  <2> HIDE DEF v, r
  <2> QED BY <1>3, <1>8, <1>9 DEF Has
<1>11. First(r, "video") = First(s, "video")
  <2> DEFINE f == FirstIdx(r, "video")
  <2>1. /\ f \in 1..Len(r) /\ r[f].type = "video"
        /\ \A a \in 1..Len(r) : r[a].type = "video" => f <= a
    BY <1>2, <1>6, <1>10, FirstIs
  <2> HIDE DEF v, r, f
  <2>2. f <= v - b
    BY <1>3, <1>8, <1>9, <2>1
  <2>3. r[f] = s[f + b] /\ f + b \in 1..Len(s) /\ v <= f + b
    BY <1>3, <1>6, <2>1
  <2>4. f + b = v
    BY <1>3, <1>5, <2>1, <2>2, <2>3
  <2>5. QED
    BY <2>3, <2>4 DEF First, v, f
<1>12. First(r, "audio") = s[c]
  <2> DEFINE f == FirstIdx(r, "audio")
  <2>1. /\ f \in 1..Len(r) /\ r[f].type = "audio"
        /\ \A a \in 1..Len(r) : r[a].type = "audio" => f <= a
    BY <1>2, <1>6, <1>10, FirstIs
  <2> HIDE DEF v, r, f
  <2>2. f <= c - b
    BY <1>3, <1>8, <1>9, <2>1
  <2>3. r[f] = s[f + b] /\ f + b \in 1..Len(s) /\ f + b <= c
    BY <1>3, <1>5, <1>6, <2>1, <2>2
  <2>4. CASE b = c - 1
    <3>1. f + b = c
      BY <1>3, <1>5, <2>1, <2>3, <2>4
    <3>2. QED
      BY <2>3, <3>1 DEF First, f
  <2>5. CASE b = v - 1
    <3>1. v <= f + b
      BY <1>3, <1>5, <2>1, <2>5
    <3>2. ASSUME f + b < c PROVE FALSE
      <4>1. s[f + b].type = "audio" /\ s[f + b].n < s[c].n
        BY <1>3, <2>1, <2>3, <3>2 DEF Line, Numbered
      <4>2. /\ s[f + b].ts = Time(from, "audio", s[f + b].n)
            /\ s[c].ts = Time(from, "audio", s[c].n)
            /\ s[f + b].n \in Int /\ s[c].n \in Int
            /\ s[f + b].ts \in Int /\ s[c].ts \in Int /\ s[v].ts \in Int
        BY <1>3, <2>3, <4>1, PacketOf DEF Line, Timed
      <4>3. s[f + b].ts < s[c].ts
        BY <1>2, <4>1, <4>2, TimesOrder
      <4>4. s[v].ts <= s[f + b].ts
        BY <1>3, <2>3, <3>1, <4>2 DEF Line, Sorted
      <4>5. Distance(s[c].ts, s[v].ts) <= Distance(s[f + b].ts, s[v].ts)
        BY <1>1, <2>3, <4>1 DEF Closest, First, v
      <4>6. /\ Distance(s[c].ts, s[v].ts) = s[c].ts - s[v].ts
            /\ Distance(s[f + b].ts, s[v].ts) = s[f + b].ts - s[v].ts
        <5>1. s[v].ts <= s[c].ts
          BY <4>2, <4>3, <4>4
        <5>2. QED
          BY <4>2, <4>4, <5>1, Distances
      <4>7. QED
        BY <4>2, <4>3, <4>5, <4>6
    <3>3. f + b = c
      BY <1>3, <2>3, <3>2
    <3>4. QED
      BY <2>3, <3>3 DEF First, f
  <2>6. QED
    BY <1>5, <2>4, <2>5
<1>13. QED
  <2> HIDE DEF r, v
  <2>1. BeforeStart(s) \in 0..Len(s)
    BY <1>4, <1>5
  <2>2. QED
    BY <1>1, <1>6, <1>7, <1>10, <1>11, <1>12, <2>1 DEF r

\* What being nearer to y than z is means for x.
LEMMA Nearer ==
  ASSUME NEW x \in Int, NEW y \in Int, NEW z \in Int, Distance(x, y) <= Distance(z, y)
  PROVE  /\ y < x /\ z < x => z < y /\ x - y <= y - z
         /\ x < y /\ x < z => y < z
BY DEF Distance

\* The closest audio lies near the first frame: not much behind it if the
\* first audio does not, and not much ahead if some audio is not ahead.
LEMMA AudioNear ==
  ASSUME NEW s \in Seq(Packet), Has(s, "audio"), Has(s, "video"),
         NEW from \in [Types -> Int], NEW next \in Counts,
         Line(s, from, next), Whole(s, next), NEW c, Closest(s, c)
  PROVE  LET early == s[c].ts - First(s, "video").ts
         IN  /\ First(s, "audio").ts - First(s, "video").ts <= Period["video"]
                /\ Period["audio"] <= 2 * Period["video"]
                => early <= Period["video"]
             /\ (\E a \in 1..Len(s) : s[a].type = "audio" /\ s[a].ts >= First(s, "video").ts)
                => early >= 1 - Period["audio"]
<1> DEFINE v == FirstIdx(s, "video")
           f == FirstIdx(s, "audio")
<1>1. /\ "audio" \in Types /\ "video" \in Types
      /\ Period["audio"] \in Nat /\ Period["audio"] >= 1 /\ Period["video"] \in Nat
  BY Periods DEF Types
<1>2. /\ v \in 1..Len(s) /\ f \in 1..Len(s) /\ s[f].type = "audio"
      /\ \A a \in 1..Len(s) : s[a].type = "audio" => f <= a
      /\ First(s, "video") = s[v] /\ First(s, "audio") = s[f]
  BY <1>1, FirstIs DEF First
<1>3. /\ c \in 1..Len(s) /\ s[c].type = "audio"
      /\ \A j \in 1..Len(s) : s[j].type = "audio" =>
           Distance(s[c].ts, s[v].ts) <= Distance(s[j].ts, s[v].ts)
  BY <1>2 DEF Closest
<1>4. \A a \in 1..Len(s) : /\ s[a].ts \in Int /\ s[a].n \in Nat /\ s[a].n \in Int
                           /\ s[a].type = "audio" => s[a].ts = Time(from, "audio", s[a].n)
                           /\ s[a].type = "audio" => s[a].n < next["audio"]
  BY PacketOf DEF Line, Timed
<1> HIDE DEF v, f
<1>5. next["audio"] \in Nat
  BY <1>1 DEF Counts
<1>6. ASSUME NEW n \in Nat, NEW a \in 1..Len(s), s[a].type = "audio",
             s[a].n <= n, n < next["audio"]
      PROVE  \E j \in 1..Len(s) : s[j].type = "audio" /\ s[j].n = n
                                  /\ s[j].ts = Time(from, "audio", n)
  <2>1. n \in s[a].n..(next[s[a].type] - 1)
    BY <1>4, <1>5, <1>6
  <2>2. Holds(s, "audio", n)
    BY <1>6, <2>1 DEF Whole
  <2>3. QED
    BY <1>4, <2>2 DEF Holds
<1>7. ASSUME s[f].ts - s[v].ts <= Period["video"], Period["audio"] <= 2 * Period["video"]
      PROVE  s[c].ts - s[v].ts <= Period["video"]
  <2>1. CASE f = c
    BY <1>7, <2>1
  <2>2. CASE f # c
    <3>1. s[f].n < s[c].n
      <4>1. f < c
        BY <1>2, <1>3, <2>2
      <4>2. QED
        BY <1>2, <1>3, <4>1 DEF Line, Numbered
    <3>2. s[c].n - 1 \in Nat /\ s[f].n <= s[c].n - 1 /\ s[c].n - 1 < next["audio"]
      BY <1>2, <1>3, <1>4, <1>5, <3>1
    <3>3. PICK j \in 1..Len(s) : s[j].type = "audio"
                                   /\ s[j].ts = Time(from, "audio", s[c].n - 1)
      BY <1>2, <1>6, <3>2
    <3>4. s[j].ts = s[c].ts - Period["audio"]
      <4>1. s[c].n \in Int /\ s[c].ts = Time(from, "audio", s[c].n)
        BY <1>3, <1>4
      <4>2. Time(from, "audio", s[c].n - 1) = Time(from, "audio", s[c].n) - Period["audio"]
        BY <1>1, <4>1, Times
      <4>3. QED
        BY <3>3, <4>1, <4>2
    <3>5. Distance(s[c].ts, s[v].ts) <= Distance(s[j].ts, s[v].ts)
      BY <1>3, <3>3
    <3>6. s[c].ts \in Int /\ s[j].ts \in Int /\ s[v].ts \in Int
      BY <1>2, <1>3, <1>4
    <3>7. CASE s[c].ts <= s[v].ts
      BY <1>1, <3>6, <3>7
    <3>8. CASE s[c].ts > s[v].ts
      <4>1. s[v].ts < s[c].ts /\ s[j].ts < s[c].ts
        BY <1>1, <3>4, <3>6, <3>8
      <4>2. s[c].ts - s[v].ts <= s[v].ts - s[j].ts
        BY <3>5, <3>6, <4>1, Nearer
      <4>3. PICK x, y, z : x = s[c].ts /\ y = s[v].ts /\ z = s[j].ts
        OBVIOUS
      <4>4. PICK P, Q : P = Period["audio"] /\ Q = Period["video"]
        OBVIOUS
      <4>5. /\ x \in Int /\ y \in Int /\ z \in Int /\ P \in Int /\ Q \in Int
            /\ x - y <= y - z /\ z = x - P /\ P <= 2 * Q
        BY <1>1, <1>7, <3>4, <3>6, <4>2, <4>3, <4>4
      <4>6. x - y <= Q
        BY <4>5
      <4>7. QED
        BY <4>3, <4>4, <4>6
    <3>9. QED
      BY <3>6, <3>7, <3>8
  <2>3. QED
    BY <2>1, <2>2
<1>8. ASSUME NEW a \in 1..Len(s), s[a].type = "audio", s[a].ts >= s[v].ts
      PROVE  s[c].ts - s[v].ts >= 1 - Period["audio"]
  <2>1. s[c].ts \in Int /\ s[a].ts \in Int /\ s[v].ts \in Int
    BY <1>2, <1>3, <1>4
  <2>2. CASE s[c].ts >= s[v].ts
    BY <1>1, <2>1, <2>2
  <2>3. CASE s[c].ts < s[v].ts
    <3>1. s[c].ts < s[a].ts
      BY <1>8, <2>1, <2>3
    <3>2. s[c].n < s[a].n
      <4>1. Time(from, "audio", s[c].n) < Time(from, "audio", s[a].n)
        BY <1>3, <1>4, <1>8, <3>1
      <4>2. QED
        BY <1>1, <1>3, <1>4, <4>1, TimesOrder
    <3>3. s[c].n + 1 \in Nat /\ s[c].n <= s[c].n + 1 /\ s[c].n + 1 < next["audio"]
      BY <1>3, <1>4, <1>5, <1>8, <3>2
    <3>4. PICK j \in 1..Len(s) : s[j].type = "audio"
                                   /\ s[j].ts = Time(from, "audio", s[c].n + 1)
      BY <1>3, <1>6, <3>3
    <3>5. s[j].ts = s[c].ts + Period["audio"]
      <4>1. s[c].n \in Int /\ s[c].ts = Time(from, "audio", s[c].n)
        BY <1>3, <1>4
      <4>2. Time(from, "audio", s[c].n + 1) = Time(from, "audio", s[c].n) + Period["audio"]
        BY <1>1, <4>1, Times
      <4>3. QED
        BY <3>4, <4>1, <4>2
    <3>6. Distance(s[c].ts, s[v].ts) <= Distance(s[j].ts, s[v].ts)
      BY <1>3, <3>4
    <3>7. s[j].ts \in Int
      BY <1>4
    <3>8. s[c].ts < s[j].ts
      BY <1>1, <2>1, <3>5, <3>7
    <3>9. s[v].ts < s[j].ts
      BY <2>1, <2>3, <3>6, <3>7, <3>8, Nearer
    <3>10. PICK x, y, P : x = s[c].ts /\ y = s[v].ts /\ P = Period["audio"]
      OBVIOUS
    <3>11. x \in Int /\ y \in Int /\ P \in Int /\ y < x + P
      BY <1>1, <2>1, <3>5, <3>9, <3>10
    <3>12. x - y >= 1 - P
      BY <3>11
    <3>13. QED
      BY <3>10, <3>12
  <2>4. QED
    BY <2>1, <2>2, <2>3
<1>9. QED
  BY <1>2, <1>7, <1>8

-----------------------------------------------------------------------------
(***************************************************************************)
(* resort_interleaved_packets.                                             *)
(***************************************************************************)
\* Its loop: f[k] holds the first k packets.
Resorts(f, s) ==
    /\ f \in [0..Len(s) -> Seq(Packet)]
    /\ f[0] = <<>>
    /\ \A k \in 1..Len(s) : f[k] = Insert(f[k - 1], s[k])

\* Resort is well defined.
LEMMA ResortDef ==
  ASSUME NEW o, o.packets \in Seq(Packet)
  PROVE  \E f : /\ Resorts(f, o.packets)
                /\ Resort(o) = [o EXCEPT !.packets = f[Len(o.packets)]]
<1> DEFINE s == o.packets
           N == Len(s)
           Rec(g) == [k \in 0..Len(o.packets) |->
                        IF k = 0 THEN <<>> ELSE Insert(g[k - 1], o.packets[k])]
           resorted == CHOOSE g : g = Rec(g)
<1>1. N \in Nat /\ \A k \in 1..N : s[k] \in Packet
  BY PacketOf
<1>2. PICK step : step = [k \in 1..N |-> [r \in Seq(Packet) |-> Insert(r, s[k])]]
  OBVIOUS
<1>3. step \in Steps(N, Seq(Packet))
  <2>1. \A k \in 1..N : \A r \in Seq(Packet) : Insert(r, s[k]) \in Seq(Packet)
    BY <1>1, Inserted DEF Puts
  <2> HIDE DEF s, N
  <2>2. QED
    BY <1>2, <2>1 DEF Steps
<1>4. PICK f : Iterates(f, N, Seq(Packet), <<>>, step)
  <2>1. <<>> \in Seq(Packet)
    OBVIOUS
  <2> HIDE DEF N, Rec, resorted
  <2>2. QED
    BY <1>1, <1>3, <2>1, Recursion
<1>5. f \in [0..N -> Seq(Packet)] /\ f[0] = <<>>
  BY <1>4 DEF Iterates
<1>6. \A k \in 1..N : f[k] = Insert(f[k - 1], s[k])
  <2>1. \A k \in 1..N : f[k - 1] \in Seq(Packet)
    BY <1>1, <1>5
  <2>2. \A k \in 1..N : f[k] = step[k][f[k - 1]]
    BY <1>4 DEF Iterates
  <2> HIDE DEF s, N
  <2>3. QED
    BY <1>2, <2>1, <2>2
<1>7. f = Rec(f)
  <2>1. \A k \in 0..N : k # 0 => k \in 1..N
    BY <1>1
  <2>2. QED
    BY <1>5, <1>6, <2>1
<1>8. resorted = Rec(resorted)
  <2> HIDE DEF Rec
  <2> QED BY <1>7
<1>9. resorted = f
  <2> DEFINE same == {k \in 0..N : resorted[k] = f[k]}
  <2>1. resorted = [k \in 0..N |-> resorted[k]] /\ f = [k \in 0..N |-> f[k]]
    <3> HIDE DEF resorted
    <3> QED BY <1>5, <1>8
  <2>2. 0 \in same
    <3> HIDE DEF resorted
    <3> QED BY <1>1, <1>5, <1>8
  <2>3. ASSUME NEW k \in 1..N, k - 1 \in same PROVE k \in same
    <3> HIDE DEF resorted
    <3>1. k \in 0..N /\ k # 0
      BY <1>1
    <3>2. resorted[k] = Insert(resorted[k - 1], s[k])
      BY <1>8, <3>1
    <3>3. QED
      BY <1>6, <2>3, <3>1, <3>2
  <2>4. 0..N \subseteq same
    <3> HIDE DEF same, N
    <3> QED BY <1>1, <2>2, <2>3, SetInduction
  <2>5. QED
    <3> HIDE DEF resorted
    <3> QED BY <2>1, <2>4
<1>10. Resort(o) = [o EXCEPT !.packets = resorted[N]]
  BY DEF Resort
<1>11. QED
  <2> HIDE DEF resorted, Rec
  <2> QED BY <1>5, <1>6, <1>9, <1>10 DEF Resorts

\* w has the packets of o, in line.
Rearranged(o, w, from, next) ==
    /\ Resort(o) = [o EXCEPT !.packets = w]
    /\ Line(w, from, next)
    /\ \A a \in 1..Len(w) : \E b \in 1..Len(o.packets) : w[a] = o.packets[b]
    /\ \A b \in 1..Len(o.packets) : \E a \in 1..Len(w) : w[a] = o.packets[b]

\* It puts the packets in line, and loses none.
LEMMA ResortIs ==
  ASSUME NEW o, o.packets \in Seq(Packet),
         NEW from \in [Types -> Int], NEW next,
         Numbered(o.packets), Timed(o.packets, from, next)
  PROVE  \E w \in Seq(Packet) : Rearranged(o, w, from, next)
<1> DEFINE s == o.packets
           N == Len(s)
<1>1. PICK f : Resorts(f, s) /\ Resort(o) = [o EXCEPT !.packets = f[N]]
  BY ResortDef
<1> DEFINE Done(k) ==
             /\ Line(f[k], from, next)
             /\ \A a \in 1..Len(f[k]) : \E b \in 1..k : f[k][a] = s[b]
             /\ \A b \in 1..k : \E a \in 1..Len(f[k]) : f[k][a] = s[b]
           good == {k \in 0..N : Done(k)}
<1>2. N \in Nat /\ \A k \in 1..N : s[k] \in Packet
  BY PacketOf
<1>3. 0 \in good
  <2>1. f[0] = <<>> /\ 0 \in 0..N /\ Len(<<>>) = 0 /\ 1..0 = {}
    BY <1>1, <1>2 DEF Resorts
  <2>2. Line(<<>>, from, next)
    BY DEF Line, Sorted, Numbered, Timed
  <2>3. QED
    BY <2>1, <2>2
<1>4. ASSUME NEW k \in 1..N, k - 1 \in good PROVE k \in good
  <2> DEFINE r == f[k - 1]
             p == s[k]
  <2>1. /\ k \in 0..N /\ k - 1 \in 0..N /\ p \in Packet /\ r \in Seq(Packet)
        /\ f[k] = Insert(r, p) /\ 1..k = 1..(k - 1) \cup {k} /\ k \in 1..k
        /\ \A b \in 1..(k - 1) : b \in 1..N /\ b < k
    BY <1>1, <1>2 DEF Resorts
  <2>2. PICK m : Puts(r, p, m, f[k])
    <3> HIDE DEF r, p
    <3> QED BY <2>1, Inserted
  <2>3. /\ Line(r, from, next)
        /\ \A a \in 1..Len(r) : \E b \in 1..(k - 1) : r[a] = s[b]
        /\ \A b \in 1..(k - 1) : \E a \in 1..Len(r) : r[a] = s[b]
    BY <1>4
  <2>4. /\ p.ts = Time(from, p.type, p.n) /\ p.n < next[p.type]
        /\ \A a \in 1..Len(r) : r[a].n < next[r[a].type]
        /\ \A a \in 1..Len(r) : r[a].type = p.type => r[a].n < p.n
    <3>1. p.ts = Time(from, p.type, p.n) /\ p.n < next[p.type]
      BY DEF Timed
    <3>2. \A b \in 1..N : s[b].n < next[s[b].type]
      BY DEF Timed
    <3>3. \A b \in 1..(k - 1) : s[b].type = p.type => s[b].n < p.n
      BY <2>1 DEF Numbered
    <3>4. ASSUME NEW a \in 1..Len(r)
          PROVE  r[a].n < next[r[a].type] /\ (r[a].type = p.type => r[a].n < p.n)
      <4>1. PICK b \in 1..(k - 1) : r[a] = s[b]
        BY <2>3
      <4>2. b \in 1..N
        BY <2>1
      <4> HIDE DEF r, s, p, N
      <4>3. QED
        BY <3>2, <3>3, <4>1, <4>2
    <3>5. QED
      BY <3>1, <3>4
  <2> HIDE DEF r
  <2>5. Line(f[k], from, next)
    <3> HIDE DEF p
    <3> QED BY <2>1, <2>2, <2>3, <2>4, PutsLine
  <2>6. \A a \in 1..Len(f[k]) : \E b \in 1..k : f[k][a] = s[b]
    <3>1. \A a \in 1..Len(f[k]) : f[k][a] = p \/ \E b \in 1..Len(r) : f[k][a] = r[b]
      <4> HIDE DEF p
      <4> QED BY <2>1, <2>2, PutsMembers
    <3>2. ASSUME NEW a \in 1..Len(f[k]) PROVE \E b \in 1..k : f[k][a] = s[b]
      <4>1. CASE f[k][a] = p
        BY <2>1, <4>1
      <4>2. ASSUME NEW c \in 1..Len(r), f[k][a] = r[c]
            PROVE  \E b \in 1..k : f[k][a] = s[b]
        <5>1. PICK b \in 1..(k - 1) : r[c] = s[b]
          BY <2>3
        <5>2. QED
          BY <2>1, <4>2, <5>1
      <4>3. QED
        BY <3>1, <4>1, <4>2
    <3>3. QED
      BY <3>2
  <2>7. \A b \in 1..k : \E a \in 1..Len(f[k]) : f[k][a] = s[b]
    <3>1. /\ \A b \in 1..Len(r) : \E a \in 1..Len(f[k]) : f[k][a] = r[b]
          /\ \E a \in 1..Len(f[k]) : f[k][a] = p
      <4> HIDE DEF p
      <4> QED BY <2>1, <2>2, PutsMembers
    <3>2. \A b \in 1..k : b = k \/ b \in 1..(k - 1)
      BY <2>1
    <3>3. ASSUME NEW b \in 1..k PROVE \E a \in 1..Len(f[k]) : f[k][a] = s[b]
      <4>1. CASE b = k
        BY <3>1, <4>1
      <4>2. CASE b \in 1..(k - 1)
        <5>1. PICK a \in 1..Len(r) : r[a] = s[b]
          BY <2>3, <4>2
        <5>2. QED
          BY <3>1, <5>1
      <4>3. QED
        BY <3>2, <4>1, <4>2
    <3>4. QED
      BY <3>3
  <2>8. QED
    BY <2>1, <2>5, <2>6, <2>7
<1>5. 0..N \subseteq good
  <2> HIDE DEF good, N
  <2> QED BY <1>2, <1>3, <1>4, SetInduction
<1>6. Done(N) /\ f[N] \in Seq(Packet)
  <2>1. N \in good /\ N \in 0..N
    BY <1>2, <1>5
  <2>2. QED
    BY <1>1, <2>1 DEF Resorts
<1>7. QED
  BY <1>1, <1>6 DEF Rearranged

-----------------------------------------------------------------------------
(***************************************************************************)
(* The record of the output.                                               *)
(***************************************************************************)
\* Its fields.
LEMMA OutputOf ==
  ASSUME NEW o \in OutputType
  PROVE  /\ o.packets \in Seq(Packet) /\ o.received \in SUBSET Types
         /\ o.highest \in [Types -> Int] /\ o.offset \in [Types -> Int]
         /\ o.sent \in Seq(Packet)
BY DEF OutputType

\* Discard changes the packets only.
LEMMA DiscardIs ==
  ASSUME NEW o \in OutputType, NEW c \in 0..Len(o.packets)
  PROVE  /\ Discard(o, c) \in OutputType /\ Discard(o, c).packets = Cut(o.packets, c)
         /\ Discard(o, c).received = o.received /\ Discard(o, c).highest = o.highest
         /\ Discard(o, c).offset = o.offset /\ Discard(o, c).sent = o.sent
<1>1. PICK r : r = Cut(o.packets, c)
  OBVIOUS
<1>2. r \in Seq(Packet)
  BY <1>1, OutputOf, CutIs
<1>3. Discard(o, c) = [o EXCEPT !.packets = r]
  BY <1>1 DEF Discard, Cut
<1>4. QED
  BY <1>1, <1>2, <1>3 DEF OutputType

\* Forget changes what counts as received only.
LEMMA ForgetIs ==
  ASSUME NEW o \in OutputType, NEW types
  PROVE  /\ Forget(o, types) \in OutputType /\ Forget(o, types).packets = o.packets
         /\ Forget(o, types).received = o.received \ types
         /\ Forget(o, types).highest = o.highest
         /\ Forget(o, types).offset = o.offset /\ Forget(o, types).sent = o.sent
BY DEF Forget, OutputType

\* Two ways to say that a type is missing.
LEMMA MissingIs ==
  ASSUME NEW s \in Seq(Packet)
  PROVE  Missing(s) = {t \in Types : ~Has(s, t)}
BY FirstIs DEF Missing

\* What has not been discarded keeps its mark.
LEMMA MarkedCut ==
  ASSUME NEW o \in OutputType, NEW c \in 0..Len(o.packets),
         NEW from \in [Types -> Int], NEW next \in Counts, Marked(o, from, next)
  PROVE  Marked(Discard(o, c), from, next)
<1>1. \A t \in Types : Has(Discard(o, c).packets, t) => Has(o.packets, t)
  <2>1. o.packets \in Seq(Packet)
    BY OutputOf
  <2>2. \A a \in 1..Len(Cut(o.packets, c)) :
          \E b \in 1..Len(o.packets) : Cut(o.packets, c)[a] = o.packets[b]
    <3>1. Len(Cut(o.packets, c)) = Len(o.packets) - c
      BY <2>1, CutIs
    <3>2. \A a \in 1..(Len(o.packets) - c) :
            Cut(o.packets, c)[a] = o.packets[a + c] /\ a + c \in 1..Len(o.packets)
      BY <2>1, CutIs
    <3>3. QED
      BY <3>1, <3>2
  <2>3. QED
    BY <2>2, DiscardIs DEF Has
<1>2. QED
  BY <1>1, DiscardIs DEF Marked

-----------------------------------------------------------------------------
(***************************************************************************)
(* set_higher_ts, get_interleaved_packets' offsets and the first send.     *)
(***************************************************************************)
\* An offset taken off a time.
LEMMA OffsetTime ==
  ASSUME NEW offset \in [Types -> Int], NEW t \in Types, NEW n \in Int
  PROVE  /\ Zeroed(offset) \in [Types -> Int]
         /\ (n - offset[t]) * Period[t] = Time(Zeroed(offset), t, n)
         /\ Time(Zeroed(offset), t, offset[t]) = 0
<1>1. \A u \in Types : offset[u] \in Int /\ Period[u] \in Int /\ offset[u] * Period[u] \in Int
  BY Periods
<1>2. Zeroed(offset) \in [Types -> Int]
  BY <1>1 DEF Zeroed
<1>3. PICK m, P : m = offset[t] /\ P = Period[t]
  OBVIOUS
<1>4. m \in Int /\ P \in Int
  BY <1>1, <1>3
<1>5. \A k \in Int : Time(Zeroed(offset), t, k) = (0 - m * P) + k * P
  BY <1>3 DEF Zeroed, Time
<1>6. (n - m) * P = (0 - m * P) + n * P
  BY <1>4
<1>7. (0 - m * P) + m * P = 0
  BY <1>4
<1>8. QED
  BY <1>2, <1>3, <1>4, <1>5, <1>6, <1>7

\* Taking the time of one packet off that of another of its type.
LEMMA TimesApart ==
  ASSUME NEW from \in [Types -> Int], NEW offset \in [Types -> Int],
         NEW t \in Types, NEW n \in Int
  PROVE  Time(from, t, n) - Time(from, t, offset[t]) = Time(Zeroed(offset), t, n)
<1>1. PICK m, P, b : m = offset[t] /\ P = Period[t] /\ b = from[t]
  OBVIOUS
<1>2. m \in Int /\ P \in Int /\ b \in Int
  BY <1>1, Periods
<1>3. m * P \in Int /\ n * P \in Int
  BY <1>2
<1>4. (b + n * P) - (b + m * P) = (0 - m * P) + n * P
  BY <1>2, <1>3
<1>5. QED
  BY <1>1, <1>4 DEF Time, Zeroed

\* The start: the first packets are at 0, everything is in line and nothing
\* has been sent.
LEMMA OffsetsSet ==
  ASSUME NEW o \in OutputType, NEW from \in [Types -> Int], NEW next \in Counts,
         Line(o.packets, from, next), Whole(o.packets, next), Marked(o, from, next),
         Has(o.packets, "audio"), Has(o.packets, "video"), o.sent = <<>>
  PROVE  LET r == Resort(SetOffsets(o))
         IN  /\ r \in OutputType /\ r.received = o.received
             /\ r.packets # <<>>
             /\ \A t \in Types : r.offset[t] = First(o.packets, t).n
             /\ Running(r, next)
<1> DEFINE s == o.packets
           off == [t \in Types |-> First(s, t).n]
           high == [t \in Types |-> o.highest[t] - First(s, t).ts]
           zero == Zeroed(off)
           start == SetOffsets(o)
           u == [a \in 1..Len(s) |->
                   [s[a] EXCEPT !.ts = (s[a].n - off[s[a].type]) * Period[s[a].type]]]
<1>1. /\ s \in Seq(Packet) /\ Len(s) \in Nat /\ DOMAIN s = 1..Len(s)
      /\ \A a \in 1..Len(s) : s[a] \in Packet /\ s[a].type \in Types
                              /\ s[a].n \in Nat /\ s[a].ts \in Int
      /\ \A t \in Types : o.highest[t] \in Int /\ next[t] \in Nat
  BY OutputOf, PacketOf DEF Counts
<1>2. \A t \in Types :
        /\ FirstIdx(s, t) \in 1..Len(s) /\ First(s, t) = s[FirstIdx(s, t)]
        /\ First(s, t).type = t
        /\ First(s, t).n \in Nat /\ First(s, t).ts \in Int
        /\ First(s, t).ts = Time(from, t, First(s, t).n)
        /\ First(s, t).n < next[t]
        /\ \A a \in 1..Len(s) : s[a].type = t => First(s, t).n <= s[a].n
  <2> SUFFICES ASSUME NEW t \in Types
               PROVE /\ FirstIdx(s, t) \in 1..Len(s) /\ First(s, t) = s[FirstIdx(s, t)]
                     /\ First(s, t).type = t
                     /\ First(s, t).n \in Nat /\ First(s, t).ts \in Int
                     /\ First(s, t).ts = Time(from, t, First(s, t).n)
                     /\ First(s, t).n < next[t]
                     /\ \A a \in 1..Len(s) : s[a].type = t => First(s, t).n <= s[a].n
    OBVIOUS
  <2> HIDE DEF s
  <2>1. Has(s, t)
    BY DEF s, Types
  <2>2. PICK f : f = FirstIdx(s, t)
    OBVIOUS
  <2>3. /\ f \in 1..Len(s) /\ s[f].type = t
        /\ \A a \in 1..Len(s) : s[a].type = t => f <= a
    BY <1>1, <2>1, <2>2, FirstIs
  <2>4. s[f].ts = Time(from, t, s[f].n) /\ s[f].n < next[t]
    BY <2>3 DEF Line, Timed, s
  <2>5. ASSUME NEW a \in 1..Len(s), s[a].type = t PROVE s[f].n <= s[a].n
    <3>1. f = a \/ f < a
      BY <1>1, <2>3, <2>5
    <3>2. f < a => s[f].n < s[a].n
      BY <2>3, <2>5 DEF Line, Numbered, s
    <3>3. QED
      BY <1>1, <2>3, <3>1, <3>2
  <2>6. First(s, t) = s[f]
    BY <2>2 DEF First
  <2>7. QED
    BY <1>1, <2>2, <2>3, <2>4, <2>5, <2>6
<1>3. off \in [Types -> Int] /\ off \in [Types -> Nat] /\ high \in [Types -> Int]
      /\ \A t \in Types : off[t] = First(s, t).n
  BY <1>1, <1>2
<1>4. zero \in [Types -> Int]
  <2> HIDE DEF off
  <2> QED BY <1>3, OffsetTime, TwoTypes DEF Types
<1>5. /\ start \in OutputType /\ start.packets = u /\ start.offset = off
      /\ start.highest = high /\ start.received = o.received /\ start.sent = <<>>
  <2>1. u \in Seq(Packet)
    <3>1. \A a \in 1..Len(s) : (s[a].n - off[s[a].type]) * Period[s[a].type] \in Int
      <4> SUFFICES ASSUME NEW a \in 1..Len(s)
                   PROVE  (s[a].n - off[s[a].type]) * Period[s[a].type] \in Int
        OBVIOUS
      <4>1. s[a].n \in Int /\ off[s[a].type] \in Int /\ Period[s[a].type] \in Int
        BY <1>1, <1>3, Periods
      <4> HIDE DEF s, off
      <4>2. QED
        BY <4>1
    <3>2. \A a \in 1..Len(s) : u[a] \in Packet
      BY <1>1, <3>1 DEF Packet
    <3>3. u \in [1..Len(s) -> Packet]
      BY <3>2
    <3> HIDE DEF u, s
    <3>4. QED
      BY <1>1, <3>3
  <2>2. PICK new : new = [o EXCEPT !.offset = off, !.highest = high]
    OBVIOUS
  <2>3. new.packets = s /\ new.offset = off
    BY <2>2 DEF OutputType
  <2>4. start = [new EXCEPT !.packets = [i \in DOMAIN s |-> ApplyOffset(new, s[i])]]
    BY <2>2, <2>3 DEF SetOffsets, First
  <2>5. \A a \in 1..Len(s) : ApplyOffset(new, s[a]) = u[a]
    BY <2>3 DEF ApplyOffset
  <2>6. [i \in DOMAIN s |-> ApplyOffset(new, s[i])] = u
    BY <1>1, <2>5
  <2>7. start = [new EXCEPT !.packets = u]
    BY <2>4, <2>6
  <2> HIDE DEF off, high, u, start
  <2>8. QED
    BY <1>3, <2>1, <2>2, <2>7 DEF OutputType
<1>6. /\ Len(u) = Len(s)
      /\ \A a \in 1..Len(s) : /\ u[a].type = s[a].type /\ u[a].n = s[a].n
                              /\ u[a].ts = Time(zero, s[a].type, s[a].n)
  <2>1. \A a \in 1..Len(s) :
          (s[a].n - off[s[a].type]) * Period[s[a].type] = Time(zero, s[a].type, s[a].n)
    <3> SUFFICES ASSUME NEW a \in 1..Len(s)
                 PROVE (s[a].n - off[s[a].type]) * Period[s[a].type]
                         = Time(zero, s[a].type, s[a].n)
      OBVIOUS
    <3>1. s[a].n \in Int /\ s[a].type \in Types
      BY <1>1
    <3> HIDE DEF off, s
    <3>2. QED
      BY <1>3, <3>1, OffsetTime
  <2>2. \A a \in 1..Len(s) : u[a].type = s[a].type /\ u[a].n = s[a].n
           /\ u[a].ts = (s[a].n - off[s[a].type]) * Period[s[a].type]
    BY <1>1 DEF Packet
  <2>3. Len(u) = Len(s)
    <3> HIDE DEF s
    <3> QED BY <1>1
  <2>4. QED
    <3> HIDE DEF u, zero, off
    <3> QED BY <2>1, <2>2, <2>3
<1> HIDE DEF u, zero, start, off, high
<1>7. Numbered(u) /\ Timed(u, zero, next)
  <2>1. Numbered(u)
    BY <1>6 DEF Line, Numbered
  <2>2. Timed(u, zero, next)
    BY <1>6 DEF Line, Timed
  <2>3. QED
    BY <2>1, <2>2
<1>8. PICK w \in Seq(Packet) : Rearranged(start, w, zero, next)
  <2>1. start.packets \in Seq(Packet)
    BY <1>5, OutputOf
  <2>2. Numbered(start.packets) /\ Timed(start.packets, zero, next)
    BY <1>5, <1>7
  <2>3. QED
    BY <1>4, <2>1, <2>2, ResortIs
<1>9. PICK r : r = Resort(start)
  OBVIOUS
<1>10. /\ r \in OutputType /\ r.packets = w /\ r.offset = off
       /\ r.highest = high /\ r.received = o.received /\ r.sent = <<>>
       /\ Line(w, zero, next)
       /\ \A a \in 1..Len(w) : \E b \in 1..Len(u) : w[a] = u[b]
       /\ \A b \in 1..Len(u) : \E a \in 1..Len(w) : w[a] = u[b]
  <2>1. /\ Resort(start) = [start EXCEPT !.packets = w]
        /\ Line(w, zero, next)
        /\ \A a \in 1..Len(w) : \E b \in 1..Len(u) : w[a] = u[b]
        /\ \A b \in 1..Len(u) : \E a \in 1..Len(w) : w[a] = u[b]
    BY <1>5, <1>8 DEF Rearranged
  <2>2. r = [start EXCEPT !.packets = w]
    BY <1>9, <2>1
  <2>3. /\ r \in OutputType /\ r.packets = w /\ r.offset = off
        /\ r.highest = high /\ r.received = o.received /\ r.sent = <<>>
    BY <1>5, <2>2 DEF OutputType
  <2>4. QED
    BY <2>1, <2>3
<1>11. w # <<>>
  <2>1. "video" \in Types
    BY DEF Types
  <2>2. FirstIdx(s, "video") \in 1..Len(u)
    BY <1>2, <1>6, <2>1
  <2>3. \E a \in 1..Len(w) : TRUE
    BY <1>10, <2>2
  <2>4. QED
    BY <2>3
<1>12. Running(r, next)
  <2>1. \A t \in Types : /\ off[t] \in 0..(next[t] - 1)
                         /\ high[t] = Time(zero, t, next[t] - 1)
    <3> SUFFICES ASSUME NEW t \in Types
                 PROVE  off[t] \in 0..(next[t] - 1) /\ high[t] = Time(zero, t, next[t] - 1)
      OBVIOUS
    <3>1. off[t] = First(s, t).n /\ high[t] = o.highest[t] - First(s, t).ts
      BY <1>3 DEF high
    <3>2. o.highest[t] = Time(from, t, next[t] - 1)
      BY DEF Marked, Types
    <3>3. First(s, t).ts = Time(from, t, off[t])
      BY <1>2, <3>1
    <3>4. next[t] - 1 \in Int
      BY <1>1
    <3>5. high[t] = Time(zero, t, next[t] - 1)
      <4>1. Time(from, t, next[t] - 1) - Time(from, t, off[t])
              = Time(Zeroed(off), t, next[t] - 1)
        BY <1>3, <3>4, TimesApart
      <4>2. QED
        BY <3>1, <3>2, <3>3, <4>1 DEF zero
    <3>6. off[t] \in Nat /\ next[t] \in Nat /\ off[t] < next[t]
      BY <1>1, <1>2, <3>1
    <3>7. QED
      BY <3>5, <3>6
  <2>2. \A t \in Types : \A n \in off[t]..(next[t] - 1) : Holds(w, t, n)
    <3> SUFFICES ASSUME NEW t \in Types, NEW n \in off[t]..(next[t] - 1)
                 PROVE  Holds(w, t, n)
      OBVIOUS
    <3>1. Holds(s, t, n)
      <4>1. off[t] = s[FirstIdx(s, t)].n /\ s[FirstIdx(s, t)].type = t
            /\ FirstIdx(s, t) \in 1..Len(s)
        BY <1>2, <1>3
      <4> HIDE DEF s
      <4>2. Whole(s, next)
        BY DEF s
      <4>3. QED
        BY <4>1, <4>2 DEF Whole
    <3>2. PICK a \in 1..Len(s) : s[a].type = t /\ s[a].n = n
      BY <3>1 DEF Holds
    <3>3. u[a].type = t /\ u[a].n = n /\ a \in 1..Len(u)
      BY <1>6, <3>2
    <3>4. QED
      BY <1>10, <3>3 DEF Holds
  <2>3. \A a \in 1..Len(w) : off[w[a].type] <= w[a].n
    <3> SUFFICES ASSUME NEW a \in 1..Len(w) PROVE off[w[a].type] <= w[a].n
      OBVIOUS
    <3>1. PICK b \in 1..Len(s) : w[a] = u[b]
      BY <1>6, <1>10
    <3>2. u[b].type = s[b].type /\ u[b].n = s[b].n /\ s[b].type \in Types
      BY <1>1, <1>6
    <3>3. off[s[b].type] <= s[b].n
      BY <1>2, <1>3, <3>2
    <3>4. QED
      BY <3>1, <3>2, <3>3
  <2>4. Line(<<>>, zero, next) /\ Len(<<>>) = 0
    BY DEF Line, Sorted, Numbered, Timed
  <2>5. Zeroed(r.offset) = zero
    BY <1>10 DEF zero
  <2>6. QED
    BY <1>10, <1>10, <2>1, <2>2, <2>3, <2>4, <2>5 DEF Running
<1>13. QED
  BY <1>3, <1>9, <1>10, <1>11, <1>12 DEF start

-----------------------------------------------------------------------------
(***************************************************************************)
(* Sending.                                                                *)
(***************************************************************************)
\* A line stays one when more packets have been delivered.
LEMMA LineMore ==
  ASSUME NEW s \in Seq(Packet), NEW from, NEW next \in Counts, NEW new \in Counts,
         Line(s, from, next), \A t \in Types : next[t] <= new[t]
  PROVE  Line(s, from, new)
<1>1. ASSUME NEW a \in 1..Len(s) PROVE s[a].n < new[s[a].type]
  <2>1. s[a].type \in Types /\ s[a].n \in Nat /\ s[a].n < next[s[a].type]
    BY PacketOf DEF Line, Timed
  <2>2. next[s[a].type] \in Nat /\ new[s[a].type] \in Nat /\ next[s[a].type] <= new[s[a].type]
    BY <2>1 DEF Counts
  <2>3. QED
    BY <2>1, <2>2
<1>2. QED
  BY <1>1 DEF Line, Timed

\* What More counts.
LEMMA MoreIs ==
  ASSUME NEW next \in Counts, NEW type \in Types
  PROVE  /\ More(next, type) \in Counts
         /\ More(next, type)[type] = next[type] + 1
         /\ \A t \in Types : t # type => More(next, type)[t] = next[t]
         /\ \A t \in Types : /\ next[t] \in Nat /\ More(next, type)[t] \in Nat
                             /\ next[t] <= More(next, type)[t]
<1>1. /\ More(next, type) \in Counts
      /\ More(next, type)[type] = next[type] + 1
      /\ \A t \in Types : t # type => More(next, type)[t] = next[t]
      /\ \A t \in Types : next[t] \in Nat
  BY DEF More, Counts
<1>2. ASSUME NEW t \in Types PROVE More(next, type)[t] \in Nat /\ next[t] <= More(next, type)[t]
  <2>1. CASE t = type
    BY <1>1, <2>1
  <2>2. CASE t # type
    BY <1>1, <2>2
  <2>3. QED
    BY <2>1, <2>2
<1>3. QED
  BY <1>1, <1>2

\* send_interleaved sends the first packet only when nothing earlier can come.
LEMMA SendKeeps ==
  ASSUME NEW o \in OutputType, NEW next \in Counts, Running(o, next), o.packets # <<>>
  PROVE  /\ Send(o) \in OutputType /\ Send(o).received = o.received
         /\ Send(o).offset = o.offset /\ Running(Send(o), next)
<1> DEFINE s == o.packets
           d == o.sent
           out == Head(s)
           from == Zeroed(o.offset)
           r == [o EXCEPT !.packets = Tail(@), !.sent = Append(@, out)]
<1>1. CASE ~(o.highest[Other(out.type)] > out.ts)
  <2>1. Send(o) = o
    BY <1>1 DEF Send
  <2>2. QED
    BY <2>1
<1>2. CASE o.highest[Other(out.type)] > out.ts
  <2>1. Send(o) = r
    BY <1>2 DEF Send
  <2>2. /\ s \in Seq(Packet) /\ d \in Seq(Packet) /\ Len(s) \in Nat /\ Len(d) \in Nat
        /\ out = s[1] /\ 1 \in 1..Len(s) /\ out \in Packet
        /\ Tail(s) \in Seq(Packet) /\ Len(Tail(s)) = Len(s) - 1
        /\ \A a \in 1..(Len(s) - 1) : Tail(s)[a] = s[a + 1] /\ a + 1 \in 1..Len(s)
        /\ o.offset \in [Types -> Int]
    <3>1. s \in Seq(Packet) /\ d \in Seq(Packet) /\ s # <<>> /\ o.offset \in [Types -> Int]
      BY OutputOf
    <3>2. Len(s) \in Nat /\ Len(d) \in Nat /\ Len(s) > 0
      <4> HIDE DEF s, d
      <4> QED BY <3>1, PacketOf, EmptySeq
    <3> HIDE DEF s, d
    <3>3. QED
      BY <3>1, <3>2, HeadTailProperties, ElementOfSeq
  <2>3. /\ r \in OutputType /\ r.packets = Tail(s) /\ r.sent = Append(d, out)
        /\ r.received = o.received /\ r.offset = o.offset /\ r.highest = o.highest
    <3>1. Append(d, out) \in Seq(Packet)
      BY <2>2, AppendProperties
    <3> HIDE DEF out
    <3>2. QED
      BY <2>2, <3>1 DEF OutputType
  <2>4. PICK e : e = Append(d, out)
    OBVIOUS
  <2>5. /\ e \in Seq(Packet) /\ Len(e) = Len(d) + 1 /\ e[Len(d) + 1] = out
        /\ \A i \in 1..Len(d) : e[i] = d[i]
    BY <2>2, <2>4, AppendProperties
  <2>6. PICK w : w = Tail(s)
    OBVIOUS
  <2>7. /\ w \in Seq(Packet) /\ Len(w) = Len(s) - 1
        /\ \A a \in 1..Len(w) : w[a] = s[a + 1] /\ a + 1 \in 1..Len(s) /\ 1 < a + 1
    BY <2>2, <2>6
  <2>8. /\ Line(s, from, next) /\ Line(d, from, next)
        /\ \A t \in Types : /\ o.offset[t] \in 0..(next[t] - 1)
                            /\ o.highest[t] = Time(from, t, next[t] - 1)
        /\ \A t \in Types : \A n \in o.offset[t]..(next[t] - 1) :
             Holds(d, t, n) \/ Holds(s, t, n)
        /\ \A i \in 1..Len(d) :
             /\ o.offset[d[i].type] <= d[i].n
             /\ \A t \in Types : d[i].ts <= Time(from, t, next[t])
             /\ \A a \in 1..Len(s) : /\ d[i].ts <= s[a].ts
                                     /\ d[i].type = s[a].type => d[i].n < s[a].n
        /\ \A a \in 1..Len(s) : o.offset[s[a].type] <= s[a].n
    BY DEF Running
  <2>9. from \in [Types -> Int] /\ out.type \in Types /\ out.n \in Int /\ out.ts \in Int
        /\ out.ts = Time(from, out.type, out.n) /\ out.n < next[out.type]
    <3>1. from \in [Types -> Int]
      BY <2>2, OffsetTime, TwoTypes DEF Types
    <3>2. out.type \in Types /\ out.n \in Int /\ out.ts \in Int
      BY <2>2 DEF Packet
    <3>3. QED
      BY <2>2, <2>8, <3>1, <3>2 DEF Line, Timed
  <2> HIDE DEF s, d, out, from, r
  <2>10. \A i \in 1..Len(e) : i = Len(d) + 1 \/ i \in 1..Len(d)
    BY <2>2, <2>5
  <2>11. \A t \in Types : out.ts <= Time(from, t, next[t])
    <3> SUFFICES ASSUME NEW t \in Types PROVE out.ts <= Time(from, t, next[t])
      OBVIOUS
    <3>1. /\ next[t] \in Int /\ next[t] - 1 \in Int /\ next[t] - 1 < next[t]
          /\ next[out.type] \in Int
      BY <2>9 DEF Counts
    <3>2. CASE t = out.type
      BY <2>9, <3>1, <3>2, TimesOrder
    <3>3. CASE t = Other(out.type)
      <4>1. out.ts < Time(from, t, next[t] - 1)
        BY <1>2, <2>8, <2>9, <3>3
      <4>2. Time(from, t, next[t] - 1) < Time(from, t, next[t])
        BY <2>9, <3>1, Times
      <4>3. Time(from, t, next[t] - 1) \in Int /\ Time(from, t, next[t]) \in Int
        BY <2>9, <3>1, Times
      <4>4. QED
        BY <2>9, <4>1, <4>2, <4>3
    <3>4. QED
      BY <2>9, <3>2, <3>3, TwoTypes
  <2>12. Line(w, from, next)
    <3>1. Sorted(w) /\ Numbered(w)
      <4>1. \A a, b \in 1..Len(w) : a < b => a + 1 < b + 1
        OBVIOUS
      <4>2. QED
        BY <2>7, <2>8, <4>1 DEF Line, Sorted, Numbered
    <3>2. Timed(w, from, next)
      BY <2>7, <2>8 DEF Line, Timed
    <3>3. QED
      BY <3>1, <3>2 DEF Line
  <2>13. Line(e, from, next)
    <3>1. ASSUME NEW i \in 1..Len(e), NEW j \in 1..Len(e), i < j
          PROVE  e[i].ts <= e[j].ts /\ (e[i].type = e[j].type => e[i].n < e[j].n)
      <4>1. i \in 1..Len(d)
        BY <2>2, <2>5, <3>1
      <4>2. CASE j \in 1..Len(d)
        BY <2>5, <2>8, <3>1, <4>1, <4>2 DEF Line, Sorted, Numbered
      <4>3. CASE j = Len(d) + 1
        BY <2>2, <2>5, <2>8, <4>1, <4>3
      <4>4. QED
        BY <2>10, <4>2, <4>3
    <3>2. Timed(e, from, next)
      BY <2>5, <2>8, <2>9, <2>10 DEF Line, Timed
    <3>3. QED
      BY <3>1, <3>2 DEF Line, Sorted, Numbered
  <2>14. \A t \in Types : \A n \in o.offset[t]..(next[t] - 1) : Holds(e, t, n) \/ Holds(w, t, n)
    <3> SUFFICES ASSUME NEW t \in Types, NEW n \in o.offset[t]..(next[t] - 1)
                 PROVE  Holds(e, t, n) \/ Holds(w, t, n)
      OBVIOUS
    <3>1. Holds(d, t, n) => Holds(e, t, n)
      <4>1. \A i \in 1..Len(d) : i \in 1..Len(e)
        BY <2>2, <2>5
      <4>2. QED
        BY <2>5, <4>1 DEF Holds
    <3>2. ASSUME NEW a \in 1..Len(s), s[a].type = t, s[a].n = n
          PROVE  Holds(e, t, n) \/ Holds(w, t, n)
      <4>1. CASE a = 1
        <5>1. Len(d) + 1 \in 1..Len(e)
          BY <2>2, <2>5
        <5>2. QED
          BY <2>2, <2>5, <3>2, <4>1, <5>1 DEF Holds
      <4>2. CASE a # 1
        <5>1. a - 1 \in 1..Len(w) /\ (a - 1) + 1 = a
          BY <2>2, <2>7, <4>2
        <5>2. w[a - 1] = s[a]
          BY <2>7, <5>1
        <5>3. QED
          BY <3>2, <5>1, <5>2 DEF Holds
      <4>3. QED
        BY <4>1, <4>2
    <3>3. QED
      BY <2>8, <3>1, <3>2 DEF Holds
  <2>15. ASSUME NEW i \in 1..Len(e)
         PROVE  /\ o.offset[e[i].type] <= e[i].n
                /\ \A t \in Types : e[i].ts <= Time(from, t, next[t])
                /\ \A a \in 1..Len(w) : /\ e[i].ts <= w[a].ts
                                        /\ e[i].type = w[a].type => e[i].n < w[a].n
    <3>1. CASE i \in 1..Len(d)
      BY <2>5, <2>7, <2>8, <3>1
    <3>2. CASE i = Len(d) + 1
      <4>1. e[i] = s[1] /\ 1 \in 1..Len(s)
        BY <2>2, <2>5, <3>2
      <4>2. \A a \in 1..Len(w) : /\ s[1].ts <= s[a + 1].ts
                                 /\ s[1].type = s[a + 1].type => s[1].n < s[a + 1].n
        BY <2>7, <2>8, <4>1 DEF Line, Sorted, Numbered
      <4>3. QED
        BY <2>2, <2>7, <2>8, <2>11, <4>1, <4>2
    <3>3. QED
      BY <2>10, <3>1, <3>2
  <2>16. \A a \in 1..Len(w) : o.offset[w[a].type] <= w[a].n
    BY <2>7, <2>8
  <2>17. Running(r, next)
    <3>1. r.packets = w /\ r.sent = e /\ Zeroed(r.offset) = from
      BY <2>3, <2>4, <2>6 DEF from
    <3>2. QED
      BY <2>3, <2>8, <2>12, <2>13, <2>14, <2>15, <2>16, <3>1 DEF Running
  <2>18. QED
    BY <2>1, <2>3, <2>17
<1>3. QED
  BY <1>1, <1>2

\* set_higher_ts.
LEMMA HigherIs ==
  ASSUME NEW o \in OutputType, NEW p \in Packet
  PROVE  /\ SetHigher(o, p) \in OutputType /\ SetHigher(o, p).packets = o.packets
         /\ SetHigher(o, p).received = o.received
         /\ SetHigher(o, p).offset = o.offset /\ SetHigher(o, p).sent = o.sent
         /\ SetHigher(o, p).highest[p.type] = IF o.highest[p.type] < p.ts THEN p.ts
                                              ELSE o.highest[p.type]
         /\ \A t \in Types : t # p.type => SetHigher(o, p).highest[t] = o.highest[t]
<1>1. p.type \in Types /\ p.ts \in Int
  BY DEF Packet
<1>2. o.highest \in [Types -> Int] /\ o.highest[p.type] \in Int
  BY <1>1, OutputOf
<1>3. PICK h : h = [o.highest EXCEPT ![p.type] = IF @ < p.ts THEN p.ts ELSE @]
  OBVIOUS
<1>4. /\ h \in [Types -> Int]
      /\ h[p.type] = IF o.highest[p.type] < p.ts THEN p.ts ELSE o.highest[p.type]
      /\ \A t \in Types : t # p.type => h[t] = o.highest[t]
  BY <1>1, <1>2, <1>3
<1>5. SetHigher(o, p) = [o EXCEPT !.highest = h]
  BY <1>3 DEF SetHigher
<1>6. PICK u : u = SetHigher(o, p)
  OBVIOUS
<1>7. u = [o EXCEPT !.highest = h]
  BY <1>5, <1>6
<1>8. /\ u \in OutputType /\ u.packets = o.packets /\ u.received = o.received
      /\ u.offset = o.offset /\ u.sent = o.sent /\ u.highest = h
  <2>1. h \in [Types -> Int]
    BY <1>4
  <2>2. QED
    BY <1>7, <2>1 DEF OutputType
<1>9. QED
  BY <1>4, <1>6, <1>8

\* Once started, the packet that arrives goes in line and one is sent.
LEMMA RunningStep ==
  ASSUME NEW o \in OutputType, NEW next \in Counts, Running(o, next), Started(o),
         NEW p \in Packet, p.n = next[p.type]
  PROVE  LET r == InterleavePackets(o, p)
         IN  /\ r \in OutputType /\ r.received = o.received /\ r.offset = o.offset
             /\ Running(r, More(next, p.type))
<1> DEFINE from == Zeroed(o.offset)
           out == ApplyOffset(o, p)
           in == [o EXCEPT !.packets = Insert(@, out)]
           u == SetHigher(in, out)
           new == More(next, p.type)
           s == o.packets
           d == o.sent
<1>1. /\ p.type \in Types /\ p.n \in Nat /\ o.offset \in [Types -> Int]
      /\ s \in Seq(Packet) /\ d \in Seq(Packet)
      /\ from \in [Types -> Int]
  <2>1. p.type \in Types /\ p.n \in Nat
    BY DEF Packet
  <2>2. o.offset \in [Types -> Int] /\ s \in Seq(Packet) /\ d \in Seq(Packet)
    BY OutputOf
  <2>3. from \in [Types -> Int]
    <3>1. 0 \in Int
      OBVIOUS
    <3>2. QED
      BY <2>1, <2>2, <3>1, OffsetTime
  <2>4. QED
    BY <2>1, <2>2, <2>3
<1>2. /\ out \in Packet /\ out.type = p.type /\ out.n = p.n
      /\ out.ts = Time(from, p.type, p.n)
  <2>0. p.n \in Int /\ p.type \in Types /\ o.offset \in [Types -> Int]
    BY <1>1
  <2>1. (p.n - o.offset[p.type]) * Period[p.type] = Time(from, p.type, p.n)
    BY <2>0, OffsetTime
  <2>2. Time(from, p.type, p.n) \in Int
    <3> HIDE DEF from
    <3>1. QED
      BY <1>1, <2>0, Times
  <2>3. out = [p EXCEPT !.ts = Time(from, p.type, p.n)]
    BY <2>1 DEF ApplyOffset
  <2> HIDE DEF out, from
  <2>4. QED
    BY <2>2, <2>3 DEF Packet
<1>3. InterleavePackets(o, p) = Send(u)
  <2>1. "video" \in o.received /\ o.received = Types
    BY DEF Started, Types
  <2>2. QED
    BY <2>1 DEF InterleavePackets, Started
<1> HIDE DEF out
<1>4. PICK k : Puts(s, out, k, Insert(s, out))
  BY <1>1, <1>2, Inserted
<1>5. PICK r : r = Insert(s, out)
  OBVIOUS
<1>6. r \in Seq(Packet) /\ Puts(s, out, k, r) /\ r # <<>>
  <2>1. r \in Seq(Packet) /\ Puts(s, out, k, r)
    BY <1>4, <1>5 DEF Puts
  <2>2. \E a \in 1..Len(r) : r[a] = out
    BY <1>1, <1>2, <2>1, PutsMembers
  <2>3. QED
    BY <2>1, <2>2
<1>7. /\ in \in OutputType /\ in.packets = r /\ in.sent = d /\ in.offset = o.offset
      /\ in.received = o.received /\ in.highest = o.highest
  <2>1. in = [o EXCEPT !.packets = r]
    BY <1>5
  <2> HIDE DEF in
  <2>2. QED
    BY <1>6, <2>1 DEF OutputType
<1>8. /\ Line(s, from, next) /\ Line(d, from, next)
      /\ \A t \in Types : /\ o.offset[t] \in 0..(next[t] - 1)
                          /\ o.highest[t] = Time(from, t, next[t] - 1)
      /\ \A t \in Types : \A n \in o.offset[t]..(next[t] - 1) :
           Holds(d, t, n) \/ Holds(s, t, n)
      /\ \A i \in 1..Len(d) :
           /\ o.offset[d[i].type] <= d[i].n
           /\ \A t \in Types : d[i].ts <= Time(from, t, next[t])
           /\ \A a \in 1..Len(s) : /\ d[i].ts <= s[a].ts
                                   /\ d[i].type = s[a].type => d[i].n < s[a].n
      /\ \A a \in 1..Len(s) : o.offset[s[a].type] <= s[a].n
  BY DEF Running
<1>9. /\ new \in Counts /\ new[p.type] = next[p.type] + 1
      /\ \A t \in Types : t # p.type => new[t] = next[t]
      /\ \A t \in Types : next[t] \in Nat /\ new[t] \in Nat /\ next[t] <= new[t]
  BY <1>1, MoreIs
<1> HIDE DEF from, in, new, s, d
<1>10. Line(r, from, new)
  BY <1>1, <1>2, <1>6, <1>8, PutsNext DEF new
<1>11. Line(d, from, new)
  BY <1>1, <1>8, <1>9, LineMore
<1>12. \A t \in Types : o.offset[t] \in 0..(new[t] - 1)
  <2> SUFFICES ASSUME NEW t \in Types PROVE o.offset[t] \in 0..(new[t] - 1)
    OBVIOUS
  <2>1. o.offset[t] \in 0..(next[t] - 1) /\ next[t] \in Nat /\ new[t] \in Nat /\ next[t] <= new[t]
    BY <1>8, <1>9
  <2>2. QED
    BY <2>1
<1>13. \A t \in Types : u.highest[t] = Time(from, t, new[t] - 1)
  <2> SUFFICES ASSUME NEW t \in Types PROVE u.highest[t] = Time(from, t, new[t] - 1)
    OBVIOUS
  <2>1. CASE t = p.type
    <3>1. next[t] \in Int /\ next[t] - 1 \in Int /\ next[t] - 1 < next[t]
          /\ new[t] - 1 = next[t]
      BY <1>9, <2>1
    <3>2. o.highest[t] = Time(from, t, next[t] - 1)
      BY <1>8
    <3>3. o.highest[t] < Time(from, t, next[t])
      BY <1>1, <3>1, <3>2, Times
    <3>4. u.highest[t] = out.ts
      BY <1>2, <1>7, <2>1, <3>3, HigherIs
    <3>5. QED
      BY <1>2, <2>1, <3>1, <3>4
  <2>2. CASE t # p.type
    <3>1. u.highest[t] = o.highest[t]
      BY <1>2, <1>7, <2>2, HigherIs
    <3>2. QED
      BY <1>8, <1>9, <2>2, <3>1
  <2>3. QED
    BY <2>1, <2>2
<1>14. \A t \in Types : \A n \in o.offset[t]..(new[t] - 1) : Holds(d, t, n) \/ Holds(r, t, n)
  <2> SUFFICES ASSUME NEW t \in Types, NEW n \in o.offset[t]..(new[t] - 1)
               PROVE  Holds(d, t, n) \/ Holds(r, t, n)
    OBVIOUS
  <2>1. next[t] \in Nat /\ new[t] \in Nat /\ o.offset[t] \in Int
    BY <1>1, <1>9
  <2>2. CASE n < next[t]
    <3>1. n \in o.offset[t]..(next[t] - 1)
      BY <2>1, <2>2
    <3>2. QED
      BY <1>1, <1>2, <1>6, <1>8, <3>1, PutsMembers
  <2>3. CASE ~(n < next[t])
    <3>1. t = p.type /\ n = next[t]
      BY <1>9, <2>1, <2>3
    <3>2. out.type = t /\ out.n = n
      BY <1>2, <3>1
    <3>3. QED
      BY <1>1, <1>2, <1>6, <3>2, PutsMembers
  <2>4. QED
    BY <2>2, <2>3
<1>15. ASSUME NEW i \in 1..Len(d)
       PROVE  /\ o.offset[d[i].type] <= d[i].n
              /\ \A t \in Types : d[i].ts <= Time(from, t, new[t])
              /\ \A a \in 1..Len(r) : /\ d[i].ts <= r[a].ts
                                      /\ d[i].type = r[a].type => d[i].n < r[a].n
  <2>1. d[i].ts \in Int /\ d[i].type \in Types
    BY <1>1, PacketOf
  <2>2. \A t \in Types : d[i].ts <= Time(from, t, new[t])
    <3> SUFFICES ASSUME NEW t \in Types PROVE d[i].ts <= Time(from, t, new[t])
      OBVIOUS
    <3>1. d[i].ts <= Time(from, t, next[t])
      BY <1>8
    <3>2. next[t] \in Int /\ new[t] \in Int /\ next[t] <= new[t]
      BY <1>9
    <3>3. Time(from, t, next[t]) <= Time(from, t, new[t])
      BY <1>1, <3>2, TimesOrder
    <3>4. Time(from, t, next[t]) \in Int /\ Time(from, t, new[t]) \in Int
      BY <1>1, <3>2, Times
    <3>5. QED
      BY <2>1, <3>1, <3>3, <3>4
  <2>3. ASSUME NEW a \in 1..Len(r)
        PROVE  d[i].ts <= r[a].ts /\ (d[i].type = r[a].type => d[i].n < r[a].n)
    <3>1. r[a] = out \/ \E b \in 1..Len(s) : r[a] = s[b]
      BY <1>1, <1>2, <1>6, PutsMembers
    <3>2. CASE r[a] = out
      <4>1. d[i].ts <= out.ts
        BY <1>1, <1>2, <1>8
      <4>2. d[i].type = p.type => d[i].n < next[p.type]
        BY <1>8 DEF Line, Timed
      <4>3. QED
        BY <1>2, <3>2, <4>1, <4>2
    <3>3. CASE \E b \in 1..Len(s) : r[a] = s[b]
      BY <1>8, <3>3
    <3>4. QED
      BY <3>1, <3>2, <3>3
  <2>4. QED
    BY <1>8, <2>2, <2>3
<1>16. \A a \in 1..Len(r) : o.offset[r[a].type] <= r[a].n
  <2> SUFFICES ASSUME NEW a \in 1..Len(r) PROVE o.offset[r[a].type] <= r[a].n
    OBVIOUS
  <2>1. r[a] = out \/ \E b \in 1..Len(s) : r[a] = s[b]
    BY <1>1, <1>2, <1>6, PutsMembers
  <2>2. o.offset[p.type] <= p.n
    <3>1. o.offset[p.type] \in 0..(next[p.type] - 1) /\ next[p.type] \in Nat
      BY <1>1, <1>8, <1>9
    <3>2. QED
      BY <3>1
  <2>3. QED
    BY <1>2, <1>8, <2>1, <2>2
<1>17. /\ u \in OutputType /\ u.packets = r /\ u.sent = d /\ u.offset = o.offset
       /\ u.received = o.received
  BY <1>2, <1>7, HigherIs
<1> HIDE DEF u
<1>18. Running(u, new)
  <2>1. Zeroed(u.offset) = from
    BY <1>17 DEF from
  <2>2. QED
    BY <1>10, <1>11, <1>12, <1>13, <1>14, <1>15, <1>16, <1>17, <2>1 DEF Running
<1>19. QED
  <2>1. u.packets # <<>>
    BY <1>6, <1>17
  <2>2. /\ Send(u) \in OutputType /\ Send(u).received = u.received
        /\ Send(u).offset = u.offset /\ Running(Send(u), new)
    BY <1>9, <1>17, <1>18, <2>1, SendKeeps
  <2>3. QED
    BY <1>3, <1>17, <2>2 DEF new

-----------------------------------------------------------------------------
(***************************************************************************)
(* Starting: prune_interleaved_packets, prune_premature_packets and        *)
(* initialize_interleaved_packets.                                         *)
(***************************************************************************)
\* Packets of both types wait, whatever counts as received.
Prepared(o, from, next) ==
    /\ Line(o.packets, from, next) /\ Whole(o.packets, next) /\ Marked(o, from, next)
    /\ Has(o.packets, "audio") /\ Has(o.packets, "video")
    /\ o.sent = <<>>
    /\ o.received = Types

\* There is one packet of some type at most.
Lone(s) == \E t \in Types : \E n : \A a \in 1..Len(s) : s[a].type = t => s[a].n = n

\* The second type has just come: audio came ahead, or there is little.
Ready(o, from, next) ==
    /\ Line(o.packets, from, next) /\ Whole(o.packets, next) /\ Marked(o, from, next)
    /\ Has(o.packets, "video")
    /\ Has(o.packets, "audio") => AudioAhead(o.packets) \/ Lone(o.packets)
    /\ o.sent = <<>>
    /\ o.received = Types

\* What the offsets put at the same time was captured within a packet.
Near(offset, from) ==
    Time(from, "audio", offset["audio"]) - Time(from, "video", offset["video"])
        \in (1 - Period["audio"])..Period["video"]

\* prune_premature_packets and initialize_interleaved_packets keep the first
\* frame and the audio closest to it.
LEMMA KeepIs ==
  ASSUME NEW o \in OutputType, NEW from \in [Types -> Int], NEW next \in Counts,
         Prepared(o, from, next)
  PROVE  LET u == Discard(o, BeforeStart(o.packets))
         IN  /\ u \in OutputType /\ Prepared(u, from, next)
             /\ First(u.packets, "video") = First(o.packets, "video")
             /\ \E c : Closest(o.packets, c) /\ First(u.packets, "audio") = o.packets[c]
<1>1. PICK b : b = BeforeStart(o.packets)
  OBVIOUS
<1>2. /\ o.packets \in Seq(Packet) /\ Has(o.packets, "audio") /\ Has(o.packets, "video")
      /\ Line(o.packets, from, next) /\ Whole(o.packets, next) /\ Marked(o, from, next)
      /\ o.sent = <<>> /\ o.received = Types
  BY OutputOf DEF Prepared
<1>3. /\ b \in 0..Len(o.packets) /\ Line(Cut(o.packets, b), from, next)
      /\ Whole(Cut(o.packets, b), next)
      /\ Has(Cut(o.packets, b), "audio") /\ Has(Cut(o.packets, b), "video")
      /\ First(Cut(o.packets, b), "video") = First(o.packets, "video")
      /\ \E c : Closest(o.packets, c) /\ First(Cut(o.packets, b), "audio") = o.packets[c]
  BY <1>1, <1>2, StartIs
<1>4. PICK u : u = Discard(o, b)
  OBVIOUS
<1>5. /\ u \in OutputType /\ u.packets = Cut(o.packets, b) /\ u.received = o.received
      /\ u.sent = o.sent
  BY <1>3, <1>4, DiscardIs
<1>6. Marked(u, from, next)
  BY <1>2, <1>3, <1>4, MarkedCut
<1>7. Prepared(u, from, next)
  BY <1>2, <1>3, <1>5, <1>6 DEF Prepared
<1>8. QED
  BY <1>1, <1>3, <1>4, <1>5, <1>7

\* What initialize_interleaved_packets is left with.
Initialized(o, r, from, next) ==
    \/ r = Forget(o, {"audio"}) /\ AudioAhead(o.packets)
    \/ \E u \in OutputType :
         /\ r = SetOffsets(u)
         /\ Prepared(u, from, next)
         /\ First(u.packets, "video") = First(o.packets, "video")
         /\ \E c : Closest(o.packets, c) /\ First(u.packets, "audio") = o.packets[c]
         /\ \E a \in 1..Len(o.packets) : /\ o.packets[a].type = "audio"
                                         /\ o.packets[a].ts >= First(o.packets, "video").ts

\* It fails when all the audio is ahead of the first frame.
LEMMA InitializeIs ==
  ASSUME NEW o \in OutputType, NEW from \in [Types -> Int], NEW next \in Counts,
         Prepared(o, from, next)
  PROVE  Initialized(o, Initialize(o), from, next)
<1>1. PICK s : s = o.packets
  OBVIOUS
<1>2. /\ s \in Seq(Packet) /\ Has(s, "audio") /\ Has(s, "video") /\ Line(s, from, next)
  BY <1>1, OutputOf DEF Prepared
<1>3. "audio" \in Types /\ "video" \in Types
  BY DEF Types
<1>4. PICK l, v : l = LastIdx(s, "audio") /\ v = FirstIdx(s, "video")
  OBVIOUS
<1>5. /\ l \in 1..Len(s) /\ s[l].type = "audio"
      /\ v \in 1..Len(s) /\ s[v].type = "video" /\ First(s, "video") = s[v]
      /\ \A a \in 1..Len(s) : s[a].type = "video" => v <= a
  <2>1. l \in 1..Len(s) /\ s[l].type = "audio"
    BY <1>2, <1>3, <1>4, LastIs
  <2>2. /\ v \in 1..Len(s) /\ s[v].type = "video"
        /\ \A a \in 1..Len(s) : s[a].type = "video" => v <= a
    BY <1>2, <1>3, <1>4, FirstIs
  <2>3. QED
    BY <1>4, <2>1, <2>2 DEF First
<1>6. \A a \in 1..Len(s) : s[a].ts \in Int
  BY <1>2, PacketOf
<1>7. Missing(s) = {}
  <2>1. Missing(s) = {t \in Types : ~Has(s, t)}
    BY <1>2, MissingIs
  <2>2. \A t \in Types : t = "audio" \/ t = "video"
    BY DEF Types
  <2>3. QED
    BY <1>2, <2>1, <2>2
<1>8. PICK u : u = Discard(o, BeforeStart(s))
  OBVIOUS
<1>9. /\ u \in OutputType /\ Prepared(u, from, next)
      /\ First(u.packets, "video") = First(s, "video")
      /\ \E c : Closest(s, c) /\ First(u.packets, "audio") = s[c]
  BY <1>1, <1>8, KeepIs
<1>10. Missing(u.packets) = {}
  <2>1. u.packets \in Seq(Packet) /\ Has(u.packets, "audio") /\ Has(u.packets, "video")
    BY <1>9, OutputOf DEF Prepared
  <2>2. Missing(u.packets) = {t \in Types : ~Has(u.packets, t)}
    BY <2>1, MissingIs
  <2>3. \A t \in Types : t = "audio" \/ t = "video"
    BY DEF Types
  <2>4. QED
    BY <2>1, <2>2, <2>3
<1>11. Initialize(o) = IF s[l].ts < s[v].ts THEN Forget(o, {"audio"}) ELSE SetOffsets(u)
  BY <1>1, <1>4, <1>7, <1>8, <1>10 DEF Initialize
<1>12. CASE s[l].ts < s[v].ts
  <2>1. ASSUME NEW b \in 1..Len(s), s[b].type = "video" PROVE s[l].ts <= s[b].ts
    <3>1. v <= b /\ v \in Nat /\ b \in Nat
      BY <1>5, <2>1
    <3>2. s[v].ts <= s[b].ts
      <4>1. CASE v = b
        BY <1>5, <1>6, <4>1
      <4>2. CASE v < b
        BY <1>2, <1>5, <4>2 DEF Line, Sorted
      <4>3. QED
        BY <3>1, <4>1, <4>2
    <3>3. s[l].ts \in Int /\ s[v].ts \in Int /\ s[b].ts \in Int
      BY <1>5, <1>6
    <3>4. QED
      BY <1>12, <3>2, <3>3
  <2>2. AudioAhead(s)
    BY <1>5, <2>1 DEF AudioAhead
  <2>3. QED
    BY <1>1, <1>11, <1>12, <2>2 DEF Initialized
<1>13. CASE ~(s[l].ts < s[v].ts)
  <2>1. s[l].ts >= First(s, "video").ts
    BY <1>5, <1>6, <1>13
  <2>2. \E a \in 1..Len(s) : s[a].type = "audio" /\ s[a].ts >= First(s, "video").ts
    BY <1>5, <2>1
  <2>3. QED
    BY <1>1, <1>9, <1>11, <1>13, <2>2 DEF Initialized
<1>14. QED
  BY <1>12, <1>13

\* To forget the types that are missing is to wait for them again.
LEMMA ForgetMissing ==
  ASSUME NEW o \in OutputType, NEW from, NEW next,
         Line(o.packets, from, next), Whole(o.packets, next), Marked(o, from, next),
         o.sent = <<>>, o.received = Types, Missing(o.packets) # {}
  PROVE  LET r == Forget(o, Missing(o.packets))
         IN  r \in OutputType /\ ~Started(r) /\ Waiting(r, from, next) /\ r.packets = o.packets
<1>1. PICK M, r : M = Missing(o.packets) /\ r = Forget(o, M)
  OBVIOUS
<1>2. /\ r \in OutputType /\ r.packets = o.packets /\ r.received = Types \ M
      /\ r.highest = o.highest /\ r.sent = <<>>
  BY <1>1, ForgetIs
<1>3. M = {t \in Types : ~Has(o.packets, t)}
  BY <1>1, OutputOf, MissingIs
<1>4. "audio" \in Types /\ "video" \in Types /\ \A t \in Types : t = "audio" \/ t = "video"
  BY DEF Types
<1>5. ~Started(r)
  BY <1>1, <1>2, <1>3 DEF Started
<1>6. Marked(r, from, next)
  BY <1>2 DEF Marked
<1>7. "audio" \in M \/ "video" \in M
  BY <1>1, <1>3, <1>4
<1>8. /\ "video" \in r.received <=> Has(r.packets, "video")
      /\ "audio" \in r.received <=> Has(r.packets, "audio")
      /\ ~(Has(r.packets, "audio") /\ Has(r.packets, "video"))
  BY <1>2, <1>3, <1>4, <1>7
<1>9. Waiting(r, from, next)
  BY <1>2, <1>6, <1>8 DEF Waiting
<1>10. QED
  BY <1>1, <1>2, <1>5, <1>9

\* When the first frame lies more than a frame before the first audio, what
\* is dropped with them is all there is of one type.
LEMMA DropIs ==
  ASSUME NEW s \in Seq(Packet), NEW from, NEW next \in Counts, Line(s, from, next),
         Has(s, "audio"), Has(s, "video"), AudioAhead(s) \/ Lone(s),
         First(s, "audio").ts - First(s, "video").ts > Period["video"],
         NEW m, m = IF FirstIdx(s, "audio") > FirstIdx(s, "video") THEN FirstIdx(s, "audio")
                    ELSE FirstIdx(s, "video")
  PROVE  m \in 0..Len(s) /\ \E t \in Types : ~Has(Cut(s, m), t)
<1>1. "audio" \in Types /\ "video" \in Types /\ \A t \in Types : t = "audio" \/ t = "video"
  BY DEF Types
<1>2. PICK f, v : f = FirstIdx(s, "audio") /\ v = FirstIdx(s, "video")
  OBVIOUS
<1>3. /\ f \in 1..Len(s) /\ s[f].type = "audio" /\ First(s, "audio") = s[f]
      /\ v \in 1..Len(s) /\ s[v].type = "video" /\ First(s, "video") = s[v]
      /\ \A a \in 1..Len(s) : s[a].type = "audio" => f <= a
  BY <1>1, <1>2, FirstIs DEF First
<1>4. /\ Len(s) \in Nat /\ \A a \in 1..Len(s) : s[a].ts \in Int /\ s[a].n \in Nat
  BY PacketOf
<1>5. m \in 1..Len(s) /\ f <= m /\ v <= m
  BY <1>2, <1>3, <1>4
<1>6. Lone(s)
  <2> SUFFICES ASSUME AudioAhead(s) PROVE FALSE
    OBVIOUS
  <2>1. PICK a \in 1..Len(s) : s[a].type = "audio" /\ s[a].ts <= s[v].ts
    BY <1>3 DEF AudioAhead
  <2>2. s[f].ts <= s[a].ts
    <3>1. f = a \/ f < a
      BY <1>3, <1>4, <2>1
    <3>2. f < a => s[f].ts <= s[a].ts
      BY <1>3 DEF Line, Sorted
    <3>3. s[f].ts <= s[f].ts
      BY <1>3, <1>4
    <3>4. QED
      BY <3>1, <3>2, <3>3
  <2>3. PICK x, y, z : x = s[f].ts /\ y = s[a].ts /\ z = s[v].ts
    OBVIOUS
  <2>4. x \in Int /\ y \in Int /\ z \in Int /\ x <= y /\ y <= z /\ x - z > Period["video"]
    BY <1>3, <1>4, <2>1, <2>2, <2>3
  <2>5. Period["video"] \in Nat
    BY <1>1, Periods
  <2>6. QED
    BY <2>4, <2>5
<1>7. PICK t \in Types : \E n : \A a \in 1..Len(s) : s[a].type = t => s[a].n = n
  BY <1>6 DEF Lone
<1>75. PICK n : \A a \in 1..Len(s) : s[a].type = t => s[a].n = n
  BY <1>7
<1>8. PICK g \in 1..Len(s) : s[g].type = t /\ g <= m
  BY <1>1, <1>3, <1>5
<1>9. ASSUME Has(Cut(s, m), t) PROVE FALSE
  <2>0. m \in 0..Len(s)
    BY <1>4, <1>5
  <2>1. Len(Cut(s, m)) = Len(s) - m
    BY <2>0, CutIs
  <2>2. \A a \in 1..(Len(s) - m) : Cut(s, m)[a] = s[a + m] /\ a + m \in 1..Len(s)
    BY <2>0, CutIs
  <2>3. PICK a \in 1..(Len(s) - m) : s[a + m].type = t /\ a + m \in 1..Len(s)
    BY <1>9, <2>1, <2>2 DEF Has
  <2>4. g < a + m
    BY <1>4, <1>5, <1>8, <2>3
  <2>5. s[g].n < s[a + m].n
    BY <1>8, <2>3, <2>4 DEF Line, Numbered
  <2>6. s[g].n = n /\ s[a + m].n = n /\ s[g].n \in Nat
    BY <1>4, <1>75, <1>8, <2>3
  <2>7. QED
    BY <2>5, <2>6
<1>10. QED
  BY <1>4, <1>5, <1>9

\* How the start ends: with the output started, or waiting.
Outcome(r, from, next) ==
    /\ r \in OutputType
    /\ IF Started(r) THEN Running(r, next) ELSE Waiting(r, from, next)

\* What keyframes and audio in time make of it.
KeyOutcome(early, r, from, next) ==
    /\ Started(r) => Near(r.offset, from)
    /\ early =>
         IF Started(r) THEN r.offset["video"] % KeyInterval = 0 ELSE InTime(r, from, next)

\* Every state of the search for a start.
LEMMA TryStartIs ==
  ASSUME NEW o \in OutputType, NEW from \in [Types -> Int], NEW next \in Counts,
         Ready(o, from, next)
  PROVE  /\ Outcome(TryStart(o), from, next)
         /\ Period["audio"] <= 2 * Period["video"]
            => KeyOutcome(InTime(o, from, next), TryStart(o), from, next)
<1>1. PICK s : s = o.packets
  OBVIOUS
<1>2. /\ s \in Seq(Packet) /\ Len(s) \in Nat /\ Has(s, "video")
      /\ Line(s, from, next) /\ Whole(s, next) /\ Marked(o, from, next)
      /\ o.sent = <<>> /\ o.received = Types
      /\ Has(s, "audio") => AudioAhead(s) \/ Lone(s)
  <2>1. s \in Seq(Packet)
    BY <1>1, OutputOf
  <2>2. QED
    BY <1>1, <2>1, PacketOf DEF Ready
<1>3. "audio" \in Types /\ "video" \in Types /\ \A t \in Types : t = "audio" \/ t = "video"
  BY DEF Types
<1>4. PICK f, v : f = FirstIdx(s, "audio") /\ v = FirstIdx(s, "video")
  OBVIOUS
<1>5. /\ f = 0 <=> ~Has(s, "audio")
      /\ v \in 1..Len(s) /\ First(s, "video") = s[v] /\ s[v].type = "video"
      /\ Has(s, "audio") => f \in 1..Len(s) /\ First(s, "audio") = s[f]
  <2>1. /\ f = 0 <=> ~Has(s, "audio")
        /\ v \in 1..Len(s) /\ s[v].type = "video" /\ (Has(s, "audio") => f \in 1..Len(s))
    BY <1>2, <1>3, <1>4, FirstIs
  <2>2. First(s, "video") = s[v] /\ First(s, "audio") = s[f]
    BY <1>4 DEF First
  <2>3. QED
    BY <2>1, <2>2
<1>6. CASE ~Has(s, "audio")
  <2>1. Missing(s) = {"audio"}
    <3>1. Missing(s) = {t \in Types : ~Has(s, t)}
      BY <1>2, MissingIs
    <3>2. QED
      BY <1>2, <1>3, <1>6, <3>1
  <2>2. PICK r : r = Forget(o, {"audio"})
    OBVIOUS
  <2>3. r \in OutputType /\ ~Started(r) /\ Waiting(r, from, next) /\ r.packets = s
    BY <1>1, <1>2, <2>1, <2>2, ForgetMissing
  <2>4. TryStart(o) = r
    <3>1. Prune(o) = r
      BY <1>1, <1>2, <1>4, <1>5, <1>6, <2>2 DEF Prune
    <3>2. QED
      BY <2>3, <3>1 DEF TryStart
  <2>5. InTime(o, from, next) => InTime(r, from, next)
    BY <1>1, <2>3 DEF InTime, AudioFrom
  <2>6. QED
    BY <2>3, <2>4, <2>5 DEF Outcome, KeyOutcome
<1>7. CASE Has(s, "audio") /\ s[f].ts - s[v].ts > Period["video"]
  <2>1. PICK m : m = IF f > v THEN f ELSE v
    OBVIOUS
  <2>2. m \in 0..Len(s) /\ \E t \in Types : ~Has(Cut(s, m), t)
    BY <1>2, <1>4, <1>5, <1>7, <2>1, DropIs
  <2>3. PICK q : q = Discard(o, m)
    OBVIOUS
  <2>4. /\ q \in OutputType /\ q.packets = Cut(s, m) /\ q.received = Types /\ q.sent = <<>>
    BY <1>1, <1>2, <2>2, <2>3, DiscardIs
  <2>5. Marked(q, from, next) /\ Line(q.packets, from, next) /\ Whole(q.packets, next)
    <3>1. Marked(q, from, next)
      BY <1>1, <1>2, <2>2, <2>3, MarkedCut
    <3>2. QED
      BY <1>2, <2>2, <2>4, <3>1, CutLine
  <2>6. Missing(q.packets) # {}
    <3>1. q.packets \in Seq(Packet)
      BY <2>4, OutputOf
    <3>2. Missing(q.packets) = {t \in Types : ~Has(q.packets, t)}
      BY <3>1, MissingIs
    <3>3. QED
      BY <2>2, <2>4, <3>2
  <2>7. PICK r : r = Forget(q, Missing(q.packets))
    OBVIOUS
  <2>8. r \in OutputType /\ ~Started(r) /\ Waiting(r, from, next)
    BY <2>4, <2>5, <2>6, <2>7, ForgetMissing
  <2>9. TryStart(o) = r
    <3>1. Prune(o) = q
      BY <1>1, <1>2, <1>4, <1>5, <1>7, <2>1, <2>3 DEF Prune
    <3>2. Started(q) /\ Initialize(q) = r
      BY <2>4, <2>6, <2>7 DEF Started, Initialize
    <3>3. QED
      BY <2>8, <3>1, <3>2 DEF TryStart
  <2>10. ~InTime(o, from, next)
    <3>1. s[f].ts \in Int /\ s[v].ts \in Int /\ Period["video"] \in Nat
      BY <1>2, <1>3, <1>5, <1>7, PacketOf, Periods
    <3>2. ~(s[f].ts - s[v].ts <= Period["video"])
      BY <1>7, <3>1
    <3>3. QED
      BY <1>1, <1>2, <1>5, <1>7, <3>2 DEF InTime, AudioFrom
  <2>11. QED
    BY <2>8, <2>9, <2>10 DEF Outcome, KeyOutcome
<1>8. CASE Has(s, "audio") /\ ~(s[f].ts - s[v].ts > Period["video"])
  <2>1. PICK q : q = Discard(o, BeforeStart(s))
    OBVIOUS
  <2>2. Prune(o) = q
    BY <1>1, <1>2, <1>4, <1>5, <1>8, <2>1 DEF Prune
  <2>3. Prepared(o, from, next)
    BY <1>1, <1>2, <1>8 DEF Prepared
  <2>4. /\ q \in OutputType /\ Prepared(q, from, next)
        /\ First(q.packets, "video") = First(s, "video")
        /\ \E c : Closest(s, c) /\ First(q.packets, "audio") = s[c]
    BY <1>1, <2>1, <2>3, KeepIs
  <2>5. Initialized(q, Initialize(q), from, next)
    BY <2>4, InitializeIs
  <2>6. Started(q)
    BY <2>4 DEF Prepared, Started
  <2>7. Period["audio"] <= 2 * Period["video"] =>
          First(q.packets, "audio").ts - First(q.packets, "video").ts <= Period["video"]
    <3>1. PICK c : Closest(s, c) /\ First(q.packets, "audio") = s[c]
      BY <2>4
    <3>2. First(s, "audio").ts - First(s, "video").ts <= Period["video"]
      <4>1. s[f].ts \in Int /\ s[v].ts \in Int /\ Period["video"] \in Nat
        BY <1>2, <1>3, <1>5, <1>8, PacketOf, Periods
      <4>2. s[f].ts - s[v].ts <= Period["video"]
        BY <1>8, <4>1
      <4>3. QED
        BY <1>5, <1>8, <4>2
    <3>3. Period["audio"] <= 2 * Period["video"]
            => s[c].ts - First(s, "video").ts <= Period["video"]
      BY <1>2, <1>8, <3>1, <3>2, AudioNear
    <3>4. QED
      BY <2>4, <3>1, <3>3
  <2>8. CASE Initialize(q) = Forget(q, {"audio"}) /\ AudioAhead(q.packets)
    <3>1. PICK r : r = Forget(q, {"audio"})
      OBVIOUS
    <3>2. /\ r \in OutputType /\ r.packets = q.packets /\ r.received = Types \ {"audio"}
          /\ r.highest = q.highest /\ r.sent = <<>>
      BY <2>4, <3>1, ForgetIs DEF Prepared
    <3>3. ~Started(r)
      BY <1>3, <3>2 DEF Started
    <3>4. Waiting(r, from, next)
      <4>1. Marked(r, from, next)
        BY <2>4, <3>2 DEF Marked, Prepared
      <4>2. "video" \in r.received
        BY <1>3, <3>2
      <4>3. QED
        BY <2>4, <2>8, <3>2, <4>1, <4>2 DEF Prepared, Waiting
    <3>5. TryStart(o) = r
      BY <2>2, <2>6, <2>8, <3>1, <3>3 DEF TryStart
    <3>6. InTime(o, from, next) /\ Period["audio"] <= 2 * Period["video"]
            => InTime(r, from, next)
      <4>1. Has(r.packets, "audio") /\ Has(r.packets, "video")
        BY <2>4, <3>2 DEF Prepared
      <4>2. QED
        BY <1>1, <1>2, <2>4, <2>7, <3>2, <4>1 DEF InTime, AudioFrom
    <3>7. QED
      BY <3>2, <3>3, <3>4, <3>5, <3>6 DEF Outcome, KeyOutcome
  <2>9. CASE ~(Initialize(q) = Forget(q, {"audio"}) /\ AudioAhead(q.packets))
    <3>1. PICK u \in OutputType :
            /\ Initialize(q) = SetOffsets(u)
            /\ Prepared(u, from, next)
            /\ First(u.packets, "video") = First(q.packets, "video")
            /\ \E c : Closest(q.packets, c) /\ First(u.packets, "audio") = q.packets[c]
            /\ \E a \in 1..Len(q.packets) : /\ q.packets[a].type = "audio"
                                            /\ q.packets[a].ts >= First(q.packets, "video").ts
      BY <2>5, <2>9 DEF Initialized
    <3>2. PICK r : r = Resort(SetOffsets(u))
      OBVIOUS
    <3>3. /\ r \in OutputType /\ r.received = Types /\ r.packets # <<>>
          /\ \A t \in Types : r.offset[t] = First(u.packets, t).n
          /\ Running(r, next)
      BY <3>1, <3>2, OffsetsSet DEF Prepared
    <3>4. Started(SetOffsets(u))
      <4>1. PICK off, high : SetOffsets(u) =
              LET new == [u EXCEPT !.offset = off, !.highest = high]
              IN  [new EXCEPT !.packets = [i \in DOMAIN @ |-> ApplyOffset(new, @[i])]]
        BY DEF SetOffsets
      <4>2. SetOffsets(u).received = u.received
        BY <4>1 DEF OutputType
      <4>3. QED
        BY <3>1, <4>2 DEF Started, Prepared
    <3>5. TryStart(o) = Send(r)
      BY <2>2, <2>6, <3>1, <3>2, <3>4 DEF TryStart
    <3>6. PICK w : w = Send(r)
      OBVIOUS
    <3>7. /\ w \in OutputType /\ w.received = Types /\ w.offset = r.offset
          /\ Running(w, next)
      BY <3>3, <3>6, SendKeeps
    <3>8. PICK a, b : a = First(u.packets, "audio") /\ b = First(u.packets, "video")
      OBVIOUS
    <3>9. /\ a.n \in Nat /\ a.ts \in Int /\ a.ts = Time(from, "audio", a.n)
          /\ b.n \in Nat /\ b.ts \in Int /\ b.ts = Time(from, "video", b.n)
      <4>1. u.packets \in Seq(Packet) /\ Has(u.packets, "audio") /\ Has(u.packets, "video")
            /\ Line(u.packets, from, next)
        BY <3>1, OutputOf DEF Prepared
      <4>2. ASSUME NEW t \in Types
            PROVE  Has(u.packets, t) =>
                     /\ First(u.packets, t).n \in Nat /\ First(u.packets, t).ts \in Int
                     /\ First(u.packets, t).ts = Time(from, t, First(u.packets, t).n)
        <5>1. PICK g : g = FirstIdx(u.packets, t)
          OBVIOUS
        <5>2. Has(u.packets, t) => g \in 1..Len(u.packets) /\ u.packets[g].type = t
          BY <4>1, <5>1, FirstIs
        <5>3. First(u.packets, t) = u.packets[g]
          BY <5>1 DEF First
        <5>4. QED
          BY <4>1, <5>2, <5>3, PacketOf DEF Line, Timed
      <4>3. QED
        BY <1>3, <3>8, <4>1, <4>2
    <3>10. w.offset["audio"] = a.n /\ w.offset["video"] = b.n
      BY <1>3, <3>3, <3>7, <3>8
    <3>11. Period["audio"] <= 2 * Period["video"] => Near(w.offset, from)
      <4> SUFFICES ASSUME Period["audio"] <= 2 * Period["video"] PROVE Near(w.offset, from)
        OBVIOUS
      <4>1. PICK c : Closest(q.packets, c) /\ a = q.packets[c]
        BY <3>1, <3>8
      <4>2. /\ q.packets \in Seq(Packet) /\ Has(q.packets, "audio") /\ Has(q.packets, "video")
            /\ Line(q.packets, from, next) /\ Whole(q.packets, next)
        BY <2>4, OutputOf DEF Prepared
      <4>3. /\ q.packets[c].ts - First(q.packets, "video").ts <= Period["video"]
            /\ q.packets[c].ts - First(q.packets, "video").ts >= 1 - Period["audio"]
        BY <2>7, <3>1, <4>1, <4>2, AudioNear
      <4>4. a.ts - b.ts <= Period["video"] /\ a.ts - b.ts >= 1 - Period["audio"]
        BY <3>1, <3>8, <4>1, <4>3
      <4>5. Period["audio"] \in Nat /\ Period["video"] \in Nat
        BY <1>3, Periods
      <4>6. a.ts - b.ts \in (1 - Period["audio"])..Period["video"]
        BY <3>9, <4>4, <4>5
      <4>7. QED
        BY <3>9, <3>10, <4>6 DEF Near
    <3>12. InTime(o, from, next) => w.offset["video"] % KeyInterval = 0
      <4>1. InTime(o, from, next) => IsKey(b)
        BY <1>1, <1>2, <2>4, <3>1, <3>8 DEF InTime
      <4>2. QED
        BY <3>10, <4>1 DEF IsKey
    <3>13. QED
      BY <3>5, <3>6, <3>7, <3>11, <3>12 DEF Outcome, KeyOutcome, Started
  <2>10. QED
    BY <2>8, <2>9
<1>9. QED
  BY <1>6, <1>7, <1>8

-----------------------------------------------------------------------------
(***************************************************************************)
(* A packet that comes before both types have.                             *)
(***************************************************************************)
\* The packet that comes next is not before the first of its type.
LEMMA FirstNext ==
  ASSUME NEW s \in Seq(Packet), NEW p \in Packet, NEW k, NEW r, Puts(s, p, k, r),
         r \in Seq(Packet), Numbered(s), Numbered(r),
         \A a \in 1..Len(s) : s[a].type = p.type => s[a].n < p.n
  PROVE  /\ \A t \in Types : Has(s, t) => Has(r, t) /\ First(r, t) = First(s, t)
         /\ ~Has(s, p.type) => Has(r, p.type) /\ First(r, p.type) = p
<1>1. /\ \A a \in 1..Len(r) : r[a] = p \/ \E b \in 1..Len(s) : r[a] = s[b]
      /\ \A b \in 1..Len(s) : \E a \in 1..Len(r) : r[a] = s[b]
      /\ \A t : Has(r, t) <=> Has(s, t) \/ p.type = t
  BY PutsMembers
<1>2. /\ \A a \in 1..Len(s) : s[a].n \in Nat
      /\ \A a \in 1..Len(r) : r[a].n \in Nat
      /\ p.n \in Nat /\ p.type \in Types
  BY PacketOf DEF Packet
<1>3. ASSUME NEW t \in Types, Has(s, t) PROVE First(r, t) = First(s, t)
  <2>1. PICK f, g : f = FirstIdx(s, t) /\ g = FirstIdx(r, t)
    OBVIOUS
  <2>2. /\ f \in 1..Len(s) /\ s[f].type = t
        /\ \A a \in 1..Len(s) : s[a].type = t => f <= a
    BY <1>3, <2>1, FirstIs
  <2>3. /\ g \in 1..Len(r) /\ r[g].type = t
        /\ \A a \in 1..Len(r) : r[a].type = t => g <= a
    <3>1. Has(r, t)
      BY <1>1, <1>3
    <3>2. QED
      BY <2>1, <3>1, FirstIs
  <2>4. PICK a \in 1..Len(r) : r[a] = s[f]
    BY <1>1, <2>2
  <2>5. g = a \/ g < a
    BY <2>2, <2>3, <2>4
  <2>6. CASE g < a
    <3>1. r[g].n < s[f].n
      BY <2>2, <2>3, <2>4, <2>6 DEF Numbered
    <3>2. CASE r[g] = p
      <4>1. s[f].n < p.n
        BY <2>2, <2>3, <3>2
      <4>2. QED
        BY <1>2, <2>2, <3>1, <3>2, <4>1
    <3>3. CASE \E b \in 1..Len(s) : r[g] = s[b]
      <4>1. PICK b \in 1..Len(s) : r[g] = s[b]
        BY <3>3
      <4>2. f = b \/ f < b
        BY <2>2, <2>3, <4>1
      <4>3. f < b => s[f].n < s[b].n
        BY <2>2, <2>3, <4>1 DEF Numbered
      <4>4. QED
        BY <1>2, <2>2, <3>1, <4>1, <4>2, <4>3
    <3>4. QED
      BY <1>1, <2>3, <3>2, <3>3
  <2>7. QED
    BY <2>1, <2>4, <2>5, <2>6 DEF First
<1>4. ASSUME ~Has(s, p.type) PROVE First(r, p.type) = p
  <2>1. PICK g : g = FirstIdx(r, p.type)
    OBVIOUS
  <2>2. g \in 1..Len(r) /\ r[g].type = p.type
    <3>1. Has(r, p.type)
      BY <1>1
    <3>2. QED
      BY <1>2, <2>1, <3>1, FirstIs
  <2>3. ~(\E b \in 1..Len(s) : r[g] = s[b])
    BY <1>4, <2>2 DEF Has
  <2>4. QED
    BY <1>1, <2>1, <2>2, <2>3 DEF First
<1>5. QED
  BY <1>1, <1>3, <1>4

\* discard_unused_audio_packets takes what is before the time given.
LEMMA UnusedIs ==
  ASSUME NEW o \in OutputType, NEW ts \in Int
  PROVE  \E c \in 0..Len(o.packets) :
           /\ DiscardUnusedAudio(o, ts) = Discard(o, c)
           /\ c > 0 => o.packets[c].ts < ts
<1>1. PICK s : s = o.packets
  OBVIOUS
<1>2. /\ s \in Seq(Packet) /\ Len(s) \in Nat /\ DOMAIN s = 1..Len(s)
      /\ \A a \in 1..Len(s) : s[a].ts \in Int
  BY <1>1, OutputOf, PacketOf
<1>3. PICK T : T = {a \in 1..Len(s) : s[a].ts >= ts}
  OBVIOUS
<1>4. PICK keep : keep = SelectInSeq(s, LAMBDA p : p.ts >= ts)
  OBVIOUS
<1>5. keep = IF T = {} THEN 0 ELSE Min(T)
  BY <1>2, <1>3, <1>4 DEF SelectInSeq
<1>6. CASE T = {}
  <2>1. DiscardUnusedAudio(o, ts) = Discard(o, Len(s))
    BY <1>1, <1>4, <1>5, <1>6 DEF DiscardUnusedAudio
  <2>2. Len(s) > 0 => s[Len(s)].ts < ts
    BY <1>2, <1>3, <1>6
  <2>3. QED
    BY <1>1, <1>2, <2>1, <2>2
<1>7. CASE T # {}
  <2>1. keep \in T /\ \A a \in T : keep <= a
    BY <1>2, <1>3, <1>5, <1>7, LeastPlace
  <2>2. keep \in 1..Len(s) /\ keep - 1 \in 0..Len(s)
    BY <1>2, <1>3, <2>1
  <2>3. DiscardUnusedAudio(o, ts) = Discard(o, keep - 1)
    BY <1>1, <1>2, <1>4, <2>2 DEF DiscardUnusedAudio
  <2>4. keep - 1 > 0 => s[keep - 1].ts < ts
    <3> SUFFICES ASSUME keep - 1 > 0 PROVE s[keep - 1].ts < ts
      OBVIOUS
    <3>1. keep - 1 \in 1..Len(s) /\ ~(keep <= keep - 1)
      BY <1>2, <2>2
    <3>2. keep - 1 \notin T
      BY <2>1, <3>1
    <3>3. QED
      BY <1>2, <1>3, <3>1, <3>2
  <2>5. QED
    BY <1>1, <2>2, <2>3, <2>4
<1>8. QED
  BY <1>6, <1>7

\* A frame that cannot be the first only takes the audio before it away.
LEMMA UnusedStep ==
  ASSUME NEW o \in OutputType, NEW from \in [Types -> Int], NEW next \in Counts,
         Waiting(o, from, next), ~Started(o), "video" \notin o.received,
         NEW new, new = More(next, "video"),
         NEW r, r = DiscardUnusedAudio(o, Time(from, "video", next["video"]))
  PROVE  /\ r \in OutputType /\ ~Started(r) /\ Waiting(r, from, new)
         /\ Period["audio"] <= 2 * Period["video"] /\ InTime(o, from, next)
              => InTime(r, from, new)
<1>1. PICK s, ts : s = o.packets /\ ts = Time(from, "video", next["video"])
  OBVIOUS
<1>2. "audio" \in Types /\ "video" \in Types /\ "audio" # "video"
      /\ \A t \in Types : t = "audio" \/ t = "video"
  BY DEF Types
<1>3. /\ new \in Counts /\ new["video"] = next["video"] + 1 /\ new["audio"] = next["audio"]
      /\ \A t \in Types : next[t] \in Nat /\ new[t] \in Nat /\ next[t] <= new[t]
  BY <1>2, MoreIs
<1>4. /\ s \in Seq(Packet) /\ Len(s) \in Nat /\ DOMAIN s = 1..Len(s) /\ ts \in Int
      /\ \A a \in 1..Len(s) : s[a].type \in Types /\ s[a].n \in Nat /\ s[a].ts \in Int
  <2>1. s \in Seq(Packet)
    BY <1>1, OutputOf
  <2>2. next["video"] \in Int
    BY <1>2, <1>3
  <2>3. ts \in Int
    BY <1>1, <1>2, <2>2, Times
  <2>4. QED
    BY <2>1, <2>3, PacketOf
<1>5. /\ Line(s, from, next) /\ Whole(s, next) /\ o.sent = <<>> /\ Marked(o, from, next)
      /\ ~Has(s, "video") /\ (Has(s, "audio") => "audio" \in o.received)
  BY <1>1 DEF Waiting
<1>6. \A a \in 1..Len(s) : s[a].type = "audio"
  BY <1>2, <1>4, <1>5 DEF Has
<1>7. PICK c \in 0..Len(s) : r = Discard(o, c) /\ (c > 0 => s[c].ts < ts)
  BY <1>1, <1>4, UnusedIs
<1>8. PICK w : w = Cut(s, c)
  OBVIOUS
<1>9. /\ r \in OutputType /\ r.packets = w /\ r.received = o.received
      /\ r.highest = o.highest /\ r.sent = <<>>
  BY <1>1, <1>5, <1>7, <1>8, DiscardIs
<1>10. /\ w \in Seq(Packet) /\ Len(w) = Len(s) - c
       /\ \A a \in 1..(Len(s) - c) : w[a] = s[a + c] /\ a + c \in 1..Len(s)
  BY <1>4, <1>7, <1>8, CutIs
<1>11. Line(w, from, new) /\ Whole(w, new)
  <2>1. Line(w, from, next) /\ Whole(w, next)
    BY <1>4, <1>5, <1>7, <1>8, CutLine
  <2>2. Line(w, from, new)
    BY <1>3, <1>10, <2>1, LineMore
  <2>3. \A a \in 1..Len(w) : w[a].type = "audio"
    BY <1>6, <1>10
  <2>4. Whole(w, new)
    BY <1>3, <2>1, <2>3 DEF Whole
  <2>5. QED
    BY <2>2, <2>4
<1>12. ~Has(w, "video") /\ (Has(w, "audio") => Has(s, "audio"))
  BY <1>4, <1>5, <1>7, <1>8, CutLine
<1>13. Marked(r, from, new)
  <2> SUFFICES ASSUME NEW t \in Types
               PROVE  /\ r.highest[t] <= Time(from, t, new[t])
                      /\ Has(w, t) => r.highest[t] = Time(from, t, new[t] - 1)
    BY <1>9 DEF Marked
  <2>1. r.highest[t] \in Int /\ r.highest[t] <= Time(from, t, next[t])
    BY <1>5, <1>9, OutputOf DEF Marked
  <2>2. next[t] \in Int /\ new[t] \in Int /\ next[t] <= new[t]
    BY <1>3
  <2>3. /\ Time(from, t, next[t]) \in Int /\ Time(from, t, new[t]) \in Int
        /\ Time(from, t, next[t]) <= Time(from, t, new[t])
    BY <2>2, Times, TimesOrder
  <2>4. ASSUME Has(w, t) PROVE r.highest[t] = Time(from, t, new[t] - 1)
    <3>1. t = "audio"
      BY <1>2, <1>12, <2>4
    <3>2. Has(s, t)
      BY <1>12, <2>4, <3>1
    <3>3. QED
      BY <1>1, <1>3, <1>5, <1>9, <3>1, <3>2 DEF Marked
  <2>5. QED
    BY <2>1, <2>3, <2>4
<1>14. ~Started(r) /\ Waiting(r, from, new)
  <2>1. ~Started(r)
    BY <1>9 DEF Started
  <2>2. QED
    BY <1>5, <1>9, <1>11, <1>12, <1>13, <2>1 DEF Waiting
<1>15. ASSUME Period["audio"] <= 2 * Period["video"], InTime(o, from, next)
       PROVE  InTime(r, from, new)
  <2>1. PICK A, B : A = AudioFrom(o, from, next) /\ B = AudioFrom(r, from, new)
    OBVIOUS
  <2>2. A - ts <= Period["video"]
    BY <1>1, <1>5, <1>15, <2>1 DEF InTime
  <2>3. PICK P, Q : P = Period["audio"] /\ Q = Period["video"]
    OBVIOUS
  <2>4. P \in Nat /\ Q \in Nat /\ P <= 2 * Q
    BY <1>2, <1>15, <2>3, Periods
  <2>5. \A n \in Int : Time(from, "audio", n) \in Int
    BY <1>2, Times
  <2>6. Has(w, "audio") => /\ FirstIdx(w, "audio") = 1 /\ 1 \in 1..Len(w)
                           /\ B = w[1].ts
    <3> SUFFICES ASSUME Has(w, "audio")
                 PROVE  FirstIdx(w, "audio") = 1 /\ 1 \in 1..Len(w) /\ B = w[1].ts
      OBVIOUS
    <3>1. Len(w) \in Nat /\ 1 \in 1..Len(w)
      BY <1>10, PacketOf DEF Has
    <3>2. w[1].type = "audio"
      BY <1>6, <1>10, <3>1
    <3>3. FirstIdx(w, "audio") \in 1..Len(w) /\ FirstIdx(w, "audio") <= 1
      BY <1>2, <1>10, <3>1, <3>2, FirstIs
    <3>4. FirstIdx(w, "audio") = 1
      BY <3>1, <3>3
    <3>5. QED
      BY <1>9, <2>1, <3>1, <3>4 DEF AudioFrom, First
  <2>7. ~Has(w, "audio") => B = Time(from, "audio", next["audio"])
    BY <1>3, <1>9, <2>1 DEF AudioFrom
  <2>8. B \in Int
    <3>1. next["audio"] \in Int
      BY <1>2, <1>3
    <3>2. Has(w, "audio") => w[1].ts \in Int
      BY <1>10, <2>6, PacketOf
    <3>3. QED
      BY <2>5, <2>6, <2>7, <3>1, <3>2
  <2>9. Time(from, "video", new["video"]) = ts + Q
    <3>1. next["video"] \in Int
      BY <1>2, <1>3
    <3>2. \A n \in Int : Time(from, "video", n + 1) = Time(from, "video", n) + Period["video"]
      BY <1>2, Times
    <3>3. Time(from, "video", next["video"] + 1)
            = Time(from, "video", next["video"]) + Period["video"]
      BY <3>1, <3>2
    <3>4. QED
      BY <1>1, <1>3, <2>3, <3>3
  <2>10. CASE c = 0
    <3>1. w = s
      BY <1>4, <1>10, <2>10
    <3>2. B = A
      BY <1>1, <1>3, <1>9, <2>1, <3>1 DEF AudioFrom
    <3>3. ts + Q \in Int /\ B - (ts + Q) <= Q
      BY <1>4, <2>2, <2>3, <2>4, <2>8, <3>2
    <3>4. QED
      BY <1>9, <1>12, <2>1, <2>3, <2>9, <3>3 DEF InTime
  <2>11. CASE c # 0
    <3>1. c \in 1..Len(s) /\ s[c].ts < ts /\ s[c].type = "audio"
      BY <1>4, <1>6, <1>7, <2>11
    <3>2. PICK n, x : n = s[c].n /\ x = s[c].ts
      OBVIOUS
    <3>3. /\ n \in Nat /\ n \in Int /\ n + 1 \in Int /\ x \in Int
          /\ x = Time(from, "audio", n) /\ n < next["audio"]
      BY <1>4, <1>5, <3>1, <3>2 DEF Line, Timed
    <3>4. Time(from, "audio", n + 1) = x + P
      BY <1>2, <2>3, <3>3, Times
    <3>5. \A a \in 1..Len(s) : s[a].n = n + 1 => c < a
      <4> SUFFICES ASSUME NEW a \in 1..Len(s), s[a].n = n + 1, ~(c < a) PROVE FALSE
        OBVIOUS
      <4>1. a = c \/ a < c
        BY <1>4, <3>1
      <4>2. a < c => s[a].n < s[c].n
        BY <1>5, <1>6, <3>1 DEF Line, Numbered
      <4>3. QED
        BY <3>2, <3>3, <4>1, <4>2
    <3>6. next["audio"] \in Nat
      BY <1>2, <1>3
    <3>7. B <= x + P
      <4>1. CASE n + 1 < next["audio"]
        <5>1. n + 1 \in n..(next["audio"] - 1)
          BY <3>3, <3>6, <4>1
        <5>2. Holds(s, "audio", n + 1)
          BY <1>5, <3>1, <3>2, <5>1 DEF Whole
        <5>3. PICK a \in 1..Len(s) : s[a].type = "audio" /\ s[a].n = n + 1
          BY <5>2 DEF Holds
        <5>4. s[a].ts = x + P
          BY <1>5, <3>4, <5>3 DEF Line, Timed
        <5>5. c + 1 \in 1..Len(s) /\ 1 \in 1..(Len(s) - c) /\ c + 1 <= a
          BY <1>4, <3>1, <3>5, <5>3
        <5>6. w[1] = s[c + 1] /\ 1 \in 1..Len(w)
          <6>1. w[1] = s[1 + c]
            BY <1>10, <5>5
          <6>2. 1 + c = c + 1
            BY <3>1
          <6>3. QED
            BY <1>10, <5>5, <6>1, <6>2
        <5>7. s[c + 1].ts <= s[a].ts
          <6>1. c + 1 = a \/ c + 1 < a
            BY <1>4, <5>5
          <6>2. s[a].ts <= s[a].ts
            BY <1>4
          <6>3. QED
            BY <1>5, <5>5, <6>1, <6>2 DEF Line, Sorted
        <5>8. Has(w, "audio")
          BY <1>6, <5>5, <5>6 DEF Has
        <5>9. QED
          BY <2>6, <5>4, <5>6, <5>7, <5>8
      <4>2. CASE ~(n + 1 < next["audio"])
        <5>1. next["audio"] = n + 1
          BY <3>3, <3>6, <4>2
        <5>2. ~Has(w, "audio")
          <6> SUFFICES ASSUME Has(w, "audio") PROVE FALSE
            OBVIOUS
          <6>1. w[1] = s[1 + c] /\ 1 + c \in 1..Len(s) /\ c < 1 + c
            BY <1>10, <2>6, <3>1
          <6>2. s[c].n < s[1 + c].n
            BY <1>5, <1>6, <3>1, <6>1 DEF Line, Numbered
          <6>3. s[1 + c].n < next["audio"] /\ s[1 + c].n \in Nat
            BY <1>4, <1>5, <1>6, <6>1 DEF Line, Timed
          <6>4. QED
            BY <3>2, <3>3, <5>1, <6>2, <6>3
        <5>3. B = x + P
          BY <2>7, <3>4, <5>1, <5>2
        <5>4. QED
          BY <2>8, <5>3
      <4>3. QED
        BY <4>1, <4>2
    <3>8. B - (ts + Q) <= Q
      <4>1. x < ts
        BY <3>1, <3>2
      <4>2. QED
        BY <1>4, <2>4, <2>8, <3>3, <3>7, <4>1
    <3>9. QED
      BY <1>9, <1>12, <2>1, <2>3, <2>9, <3>8 DEF InTime
  <2>12. QED
    BY <2>10, <2>11
<1>16. QED
  BY <1>9, <1>14, <1>15

\* What is inserted takes the mark up to it.
LEMMA MarkNext ==
  ASSUME NEW o \in OutputType, NEW u \in OutputType, NEW p \in Packet,
         NEW from \in [Types -> Int], NEW next \in Counts, Marked(o, from, next),
         p.n = next[p.type], p.ts = Time(from, p.type, p.n),
         u.highest[p.type] = IF o.highest[p.type] < p.ts THEN p.ts ELSE o.highest[p.type],
         \A t \in Types : t # p.type => /\ u.highest[t] = o.highest[t]
                                        /\ Has(u.packets, t) => Has(o.packets, t)
  PROVE  Marked(u, from, More(next, p.type))
<1>1. PICK new : new = More(next, p.type)
  OBVIOUS
<1>2. /\ p.type \in Types /\ new[p.type] = next[p.type] + 1
      /\ \A t \in Types : t # p.type => new[t] = next[t]
      /\ \A t \in Types : next[t] \in Nat /\ new[t] \in Nat
  BY <1>1, MoreIs DEF Packet
<1>3. PICK n : n = next[p.type]
  OBVIOUS
<1>4. u.highest[p.type] = Time(from, p.type, n)
  <2>1. n \in Int
    BY <1>2, <1>3
  <2>2. Time(from, p.type, n) \in Int
    BY <1>2, <2>1, Times
  <2>3. o.highest[p.type] \in Int /\ o.highest[p.type] <= Time(from, p.type, n)
    BY <1>2, <1>3, OutputOf DEF Marked
  <2>4. QED
    BY <1>3, <2>2, <2>3
<1>5. n \in Int /\ n + 1 \in Int /\ n <= n + 1 /\ new[p.type] = n + 1
      /\ (n + 1) - 1 = n
  BY <1>2, <1>3
<1>6. Time(from, p.type, n) <= Time(from, p.type, n + 1)
  BY <1>2, <1>5, TimesOrder
<1>7. ASSUME NEW t \in Types
      PROVE  /\ u.highest[t] <= Time(from, t, new[t])
             /\ Has(u.packets, t) => u.highest[t] = Time(from, t, new[t] - 1)
  <2>1. CASE t = p.type
    BY <1>4, <1>5, <1>6, <2>1
  <2>2. CASE t # p.type
    BY <1>2, <2>2 DEF Marked
  <2>3. QED
    BY <2>1, <2>2
<1>8. QED
  BY <1>1, <1>7 DEF Marked

\* The output with p received and r waiting.
Received(o, p, r) == SetHigher([o EXCEPT !.received = @ \cup {p.type}, !.packets = r], p)

\* A packet that is kept: what waits goes on waiting, or the start is tried.
LEMMA InsertStep ==
  ASSUME NEW o \in OutputType, NEW from \in [Types -> Int], NEW next \in Counts,
         Waiting(o, from, next), ~Started(o),
         NEW p \in Packet, p.n = next[p.type], p.ts = Time(from, p.type, p.n),
         p.type = "video" /\ "video" \notin o.received => IsKey(p),
         NEW new, new = More(next, p.type),
         NEW k, NEW r, Puts(o.packets, p, k, r),
         NEW u, u = Received(o, p, r)
  PROVE  /\ u \in OutputType
         /\ IF Started(u) THEN Ready(u, from, new) ELSE Waiting(u, from, new)
         /\ InTime(o, from, next) => InTime(u, from, new)
<1>1. PICK s : s = o.packets
  OBVIOUS
<1>2. "audio" \in Types /\ "video" \in Types /\ "audio" # "video"
      /\ \A t \in Types : t = "audio" \/ t = "video"
  BY DEF Types
<1>3. /\ p.type \in Types /\ p.n \in Nat /\ p.ts \in Int
      /\ new \in Counts /\ new[p.type] = next[p.type] + 1
      /\ \A t \in Types : t # p.type => new[t] = next[t]
      /\ \A t \in Types : next[t] \in Nat
  <2>1. p.type \in Types /\ p.n \in Nat /\ p.ts \in Int
    BY DEF Packet
  <2>2. QED
    BY <2>1, MoreIs
<1>4. /\ s \in Seq(Packet)
      /\ \A a \in 1..Len(s) : s[a].type \in Types /\ s[a].n \in Nat /\ s[a].ts \in Int
  BY <1>1, OutputOf, PacketOf
<1>5. /\ Line(s, from, next) /\ Whole(s, next) /\ o.sent = <<>> /\ Marked(o, from, next)
      /\ "video" \in o.received <=> Has(s, "video")
      /\ Has(s, "audio") => "audio" \in o.received \/ Has(s, "video")
      /\ Has(s, "audio") /\ Has(s, "video") => AudioAhead(s)
  BY <1>1 DEF Waiting
<1>6. Puts(s, p, k, r)
  BY <1>1
<1>7. r \in Seq(Packet)
  BY <1>6 DEF Puts
<1>8. Line(r, from, new) /\ Whole(r, new)
  BY <1>4, <1>5, <1>6, PutsNext
<1>9. /\ \A a \in 1..Len(r) : r[a] = p \/ \E b \in 1..Len(s) : r[a] = s[b]
      /\ \A b \in 1..Len(s) : \E a \in 1..Len(r) : r[a] = s[b]
      /\ \E a \in 1..Len(r) : r[a] = p
      /\ \A t : Has(r, t) <=> Has(s, t) \/ p.type = t
  BY <1>4, <1>6, PutsMembers
<1>10. /\ u \in OutputType /\ u.packets = r /\ u.sent = <<>>
       /\ u.received = o.received \cup {p.type}
       /\ u.highest[p.type] = IF o.highest[p.type] < p.ts THEN p.ts ELSE o.highest[p.type]
       /\ \A t \in Types : t # p.type => u.highest[t] = o.highest[t]
  <2>1. PICK in : in = [o EXCEPT !.received = @ \cup {p.type}, !.packets = r]
    OBVIOUS
  <2>2. /\ in \in OutputType /\ in.packets = r /\ in.sent = o.sent
        /\ in.received = o.received \cup {p.type} /\ in.highest = o.highest
    BY <1>3, <1>7, <2>1 DEF OutputType
  <2>3. u = SetHigher(in, p)
    BY <2>1 DEF Received
  <2>4. /\ u \in OutputType /\ u.packets = in.packets /\ u.sent = in.sent
        /\ u.received = in.received
    BY <2>2, <2>3, HigherIs
  <2>5. u.highest[p.type] = IF in.highest[p.type] < p.ts THEN p.ts ELSE in.highest[p.type]
    BY <2>2, <2>3, HigherIs
  <2>6. \A t \in Types : t # p.type => u.highest[t] = in.highest[t]
    BY <2>2, <2>3, HigherIs
  <2>7. QED
    BY <1>5, <2>2, <2>4, <2>5, <2>6
<1>11. Marked(u, from, new)
  <2>1. \A t \in Types : t # p.type => /\ u.highest[t] = o.highest[t]
                                       /\ Has(u.packets, t) => Has(o.packets, t)
    BY <1>1, <1>9, <1>10
  <2>2. QED
    BY <1>5, <1>10, <2>1, MarkNext
<1>12. \A a \in 1..Len(s) : s[a].type = p.type => s[a].n < p.n /\ s[a].ts <= p.ts
  <2> SUFFICES ASSUME NEW a \in 1..Len(s), s[a].type = p.type
               PROVE  s[a].n < p.n /\ s[a].ts <= p.ts
    OBVIOUS
  <2>1. /\ s[a].n < p.n /\ s[a].n \in Int /\ p.n \in Int
        /\ s[a].ts = Time(from, p.type, s[a].n)
    BY <1>3, <1>4, <1>5 DEF Line, Timed
  <2>2. s[a].n <= p.n
    BY <2>1
  <2>3. Time(from, p.type, s[a].n) <= Time(from, p.type, p.n)
    BY <1>3, <2>1, <2>2, TimesOrder
  <2>4. QED
    BY <2>1, <2>3
<1>13. ASSUME AudioAhead(s), Has(s, "video") PROVE AudioAhead(r)
  <2>1. PICK b \in 1..Len(s) : s[b].type = "audio"
          /\ \A d \in 1..Len(s) : s[d].type = "video" => s[b].ts <= s[d].ts
    BY <1>13 DEF AudioAhead
  <2>2. PICK a \in 1..Len(r) : r[a] = s[b]
    BY <1>9
  <2>3. PICK v \in 1..Len(s) : s[v].type = "video"
    BY <1>13 DEF Has
  <2>4. ASSUME NEW d \in 1..Len(r), r[d].type = "video" PROVE r[a].ts <= r[d].ts
    <3>1. CASE r[d] = p
      <4>1. s[b].ts <= s[v].ts /\ s[v].ts <= p.ts
        BY <1>12, <2>1, <2>3, <2>4, <3>1
      <4>2. s[b].ts <= p.ts
        BY <1>3, <1>4, <4>1
      <4>3. QED
        BY <2>2, <3>1, <4>2
    <3>2. CASE \E e \in 1..Len(s) : r[d] = s[e]
      BY <2>1, <2>2, <2>4, <3>2
    <3>3. QED
      BY <1>9, <3>1, <3>2
  <2>5. QED
    BY <2>1, <2>2, <2>4 DEF AudioAhead
<1>14. ASSUME ~Has(s, p.type) PROVE Lone(r)
  <2>1. \A a \in 1..Len(r) : r[a].type = p.type => r[a].n = p.n
    <3> SUFFICES ASSUME NEW a \in 1..Len(r), r[a].type = p.type PROVE r[a].n = p.n
      OBVIOUS
    <3>1. ~(\E b \in 1..Len(s) : r[a] = s[b])
      BY <1>14 DEF Has
    <3>2. QED
      BY <1>9, <3>1
  <2>2. \E n : \A a \in 1..Len(r) : r[a].type = p.type => r[a].n = n
    BY <2>1
  <2>3. QED
    BY <1>3, <2>2 DEF Lone
<1>15. ASSUME Started(u) PROVE Ready(u, from, new)
  <2>1. u.received = Types
    BY <1>15 DEF Started
  <2>2. Has(r, "video")
    <3>1. CASE p.type = "video"
      BY <1>9, <3>1
    <3>2. CASE p.type = "audio"
      BY <1>2, <1>5, <1>9, <1>10, <2>1, <3>2
    <3>3. QED
      BY <1>2, <1>3, <3>1, <3>2
  <2>3. Has(r, "audio") => AudioAhead(r) \/ Lone(r)
    <3>1. CASE ~Has(s, p.type)
      BY <1>14, <3>1
    <3>2. CASE Has(s, p.type)
      <4>1. p.type = "audio"
        <5> SUFFICES ASSUME p.type = "video" PROVE FALSE
          BY <1>2, <1>3
        <5>1. "video" \in o.received /\ "audio" \in o.received
          BY <1>2, <1>5, <1>10, <2>1, <3>2
        <5>2. o.received = Types
          BY <1>2, <5>1, OutputOf
        <5>3. QED
          BY <5>2 DEF Started
      <4>2. Has(s, "audio") /\ Has(s, "video")
        BY <1>2, <1>9, <2>2, <3>2, <4>1
      <4>3. QED
        BY <1>5, <1>13, <4>2
    <3>3. QED
      BY <3>1, <3>2
  <2>4. QED
    BY <1>8, <1>10, <1>11, <2>1, <2>2, <2>3 DEF Ready
<1>16. ASSUME ~Started(u) PROVE Waiting(u, from, new)
  <2>1. u.received # Types
    BY <1>16 DEF Started
  <2>2. "video" \in u.received <=> Has(r, "video")
    BY <1>5, <1>9, <1>10
  <2>3. Has(r, "audio") => "audio" \in u.received \/ Has(r, "video")
    BY <1>5, <1>9, <1>10
  <2>4. Has(r, "audio") /\ Has(r, "video") => AudioAhead(r)
    <3> SUFFICES ASSUME Has(r, "audio"), Has(r, "video") PROVE AudioAhead(r)
      OBVIOUS
    <3>1. "video" \in u.received
      BY <2>2
    <3>2. "audio" \notin u.received
      <4>1. u.received \in SUBSET Types
        BY <1>10, OutputOf
      <4>2. QED
        BY <1>2, <2>1, <3>1, <4>1
    <3>3. p.type = "video"
      BY <1>2, <1>3, <1>10, <3>2
    <3>4. Has(s, "audio")
      BY <1>2, <1>9, <3>3
    <3>5. Has(s, "video")
      BY <1>5, <1>10, <3>2, <3>4
    <3>6. QED
      BY <1>5, <1>13, <3>4, <3>5
  <2>5. QED
    BY <1>8, <1>10, <1>11, <2>2, <2>3, <2>4 DEF Waiting
<1>17. ASSUME InTime(o, from, next) PROVE InTime(u, from, new)
  <2>1. /\ \A t \in Types : Has(s, t) => Has(r, t) /\ First(r, t) = First(s, t)
        /\ ~Has(s, p.type) => Has(r, p.type) /\ First(r, p.type) = p
    <3>1. Numbered(s) /\ Numbered(r)
      BY <1>5, <1>8 DEF Line
    <3>2. \A a \in 1..Len(s) : s[a].type = p.type => s[a].n < p.n
      BY <1>12
    <3>3. QED
      BY <1>4, <1>6, <1>7, <3>1, <3>2, FirstNext
  <2>2. AudioFrom(u, from, new) = AudioFrom(o, from, next)
    <3>1. CASE Has(s, "audio")
      BY <1>1, <1>2, <1>10, <2>1, <3>1 DEF AudioFrom
    <3>2. CASE ~Has(s, "audio") /\ p.type = "audio"
      BY <1>1, <1>10, <2>1, <3>2 DEF AudioFrom
    <3>3. CASE ~Has(s, "audio") /\ p.type # "audio"
      <4>1. ~Has(r, "audio") /\ new["audio"] = next["audio"]
        BY <1>2, <1>3, <1>9, <3>3
      <4>2. QED
        BY <1>1, <1>10, <3>3, <4>1 DEF AudioFrom
    <3>4. QED
      BY <3>1, <3>2, <3>3
  <2>3. CASE Has(s, "video")
    BY <1>1, <1>2, <1>10, <1>17, <2>1, <2>2, <2>3 DEF InTime
  <2>4. CASE ~Has(s, "video") /\ p.type = "video"
    <3>1. IsKey(p) /\ Has(r, "video") /\ First(r, "video") = p
      BY <1>5, <2>1, <2>4
    <3>2. AudioFrom(o, from, next) - p.ts <= Period["video"]
      BY <1>1, <1>17, <2>4 DEF InTime
    <3>3. QED
      BY <1>10, <2>2, <3>1, <3>2 DEF InTime
  <2>5. CASE ~Has(s, "video") /\ p.type # "video"
    <3>1. ~Has(r, "video") /\ new["video"] = next["video"]
      BY <1>2, <1>3, <1>9, <2>5
    <3>2. QED
      BY <1>1, <1>10, <1>17, <2>2, <2>5, <3>1 DEF InTime
  <2>6. QED
    BY <2>3, <2>4, <2>5
<1>18. QED
  BY <1>10, <1>15, <1>16, <1>17

\* Every packet that comes before the output has started.
LEMMA WaitingStep ==
  ASSUME NEW o \in OutputType, NEW from \in [Types -> Int], NEW next \in Counts,
         Waiting(o, from, next), ~Started(o),
         NEW p \in Packet, p.n = next[p.type], p.ts = Time(from, p.type, p.n),
         NEW r, r = InterleavePackets(o, p)
  PROVE  /\ Outcome(r, from, More(next, p.type))
         /\ Period["audio"] <= 2 * Period["video"]
            => KeyOutcome(InTime(o, from, next), r, from, More(next, p.type))
<1>1. PICK new : new = More(next, p.type)
  OBVIOUS
<1>2. p.type \in Types /\ new \in Counts
  <2>1. p.type \in Types
    BY DEF Packet
  <2>2. QED
    BY <1>1, <2>1, MoreIs
<1>3. CASE p.type = "video" /\ "video" \notin o.received /\ ~IsKey(p)
  <2>1. r = DiscardUnusedAudio(o, Time(from, "video", next["video"]))
    BY <1>3 DEF InterleavePackets
  <2>2. /\ r \in OutputType /\ ~Started(r) /\ Waiting(r, from, new)
        /\ Period["audio"] <= 2 * Period["video"] /\ InTime(o, from, next)
             => InTime(r, from, new)
    BY <1>1, <1>3, <2>1, UnusedStep
  <2>3. QED
    BY <1>1, <2>2 DEF Outcome, KeyOutcome
<1>4. CASE ~(p.type = "video" /\ "video" \notin o.received /\ ~IsKey(p))
  <2>1. PICK w : w = Insert(o.packets, p)
    OBVIOUS
  <2>2. PICK k : Puts(o.packets, p, k, w)
    BY <2>1, Inserted, OutputOf
  <2>3. PICK u : u = Received(o, p, w)
    OBVIOUS
  <2>4. r = IF Started(u) THEN TryStart(u) ELSE u
    BY <1>4, <2>1, <2>3 DEF InterleavePackets, Received
  <2>5. /\ u \in OutputType
        /\ IF Started(u) THEN Ready(u, from, new) ELSE Waiting(u, from, new)
        /\ InTime(o, from, next) => InTime(u, from, new)
    BY <1>1, <1>4, <2>3, <2>2, InsertStep
  <2>6. CASE Started(u)
    <3>1. /\ Outcome(r, from, new)
          /\ Period["audio"] <= 2 * Period["video"]
             => KeyOutcome(InTime(u, from, new), r, from, new)
      BY <1>2, <2>4, <2>5, <2>6, TryStartIs
    <3>2. QED
      BY <1>1, <2>5, <3>1 DEF KeyOutcome
  <2>7. CASE ~Started(u)
    BY <1>1, <2>4, <2>5, <2>7 DEF Outcome, KeyOutcome
  <2>8. QED
    BY <2>6, <2>7
<1>5. QED
  BY <1>3, <1>4

-----------------------------------------------------------------------------
(***************************************************************************)
(* The invariant.                                                          *)
(***************************************************************************)
\* Its parts.
IInv == TypeOK /\ Early /\ Merging

\* What the prefix bound is for: no packet comes before time 0.
LEMMA Product ==
  ASSUME NEW a \in Nat, NEW b \in Nat, NEW c \in Nat, a >= 1
  PROVE  a * b * c \in Nat /\ a * b * c >= b * c
<1>1. a * b \in Nat /\ b * c \in Nat /\ a * b >= b
  <2>1. PICK d \in Nat : a = d + 1
    <3>1. a - 1 \in Nat /\ a = (a - 1) + 1
      OBVIOUS
    <3>2. QED
      BY <3>1
  <2>2. d * b \in Nat /\ (d + 1) * b = d * b + b
    OBVIOUS
  <2>3. QED
    BY <2>1, <2>2
<1>2. PICK e : e = a * b
  OBVIOUS
<1>3. PICK d \in Nat : e = d + b
  <2>1. e - b \in Nat /\ e = (e - b) + b
    BY <1>1, <1>2
  <2>2. QED
    BY <2>1
<1>4. d * c \in Nat /\ (d + b) * c = d * c + b * c
  OBVIOUS
<1>5. e * c \in Nat /\ e * c >= b * c
  BY <1>1, <1>3, <1>4
<1>6. QED
  BY <1>2, <1>5

\* The times the encoders give.
LEMMA CapturedIs ==
  TypeOK =>
    /\ Captured \in [Types -> Int]
    /\ \A t \in Types : \A n \in Int : SystemTs(t, n) = Time(Captured, t, n)
    /\ encoders.session > 0 => \A t \in Types : 0 <= Captured[t]
<1> SUFFICES ASSUME TypeOK
             PROVE  /\ Captured \in [Types -> Int]
                    /\ \A t \in Types : \A n \in Int : SystemTs(t, n) = Time(Captured, t, n)
                    /\ encoders.session > 0 => \A t \in Types : 0 <= Captured[t]
  OBVIOUS
<1>1. PICK S, L, B : S = encoders.session /\ L = encoders.lead /\ B = Base(S)
  OBVIOUS
<1>2. "audio" \in Types /\ "video" \in Types /\ \A t \in Types : t = "audio" \/ t = "video"
  BY DEF Types
<1>3. PICK P, Q, M : P = Period["audio"] /\ Q = Period["video"] /\ M = MaxPackets + 1
  OBVIOUS
<1>4. P \in Nat /\ Q \in Nat /\ M \in Nat /\ S \in Nat
      /\ L \in Leads /\ Leads \subseteq 0..(M * (Q + P))
  BY <1>1, <1>2, <1>3, InterleaveAssumption DEF TypeOK, EncodersType
<1>5. M * (Q + P) \in Nat /\ Q + P \in Nat
  BY <1>4
<1>6. L \in Int /\ 0 <= L /\ L <= M * (Q + P)
  BY <1>4, <1>5
<1>7. B = S * M * (Q + P)
  BY <1>1, <1>3 DEF Base
<1>8. B \in Int
  <2>1. S * M \in Nat
    BY <1>4
  <2>2. QED
    BY <1>5, <1>7, <2>1
<1>9. \A t \in Types : \A n \in Int :
        /\ n * Period[t] \in Int /\ 0 * Period[t] = 0
        /\ SystemTs(t, n) = B + n * Period[t] - (IF t = "audio" THEN L ELSE 0)
  <2> SUFFICES ASSUME NEW t \in Types, NEW n \in Int
               PROVE /\ n * Period[t] \in Int /\ 0 * Period[t] = 0
                     /\ SystemTs(t, n) = B + n * Period[t] - (IF t = "audio" THEN L ELSE 0)
    OBVIOUS
  <2>1. Period[t] \in Int
    BY Periods
  <2>2. n * Period[t] \in Int /\ 0 * Period[t] = 0
    BY <2>1
  <2>3. QED
    BY <1>1, <2>2 DEF SystemTs
<1>10. \A t \in Types : Captured[t] = B - (IF t = "audio" THEN L ELSE 0)
  <2> SUFFICES ASSUME NEW t \in Types
               PROVE  Captured[t] = B - (IF t = "audio" THEN L ELSE 0)
    OBVIOUS
  <2>1. Captured[t] = SystemTs(t, 0)
    BY DEF Captured
  <2>2. SystemTs(t, 0) = B + 0 * Period[t] - (IF t = "audio" THEN L ELSE 0)
    BY <1>9
  <2>3. 0 * Period[t] = 0
    BY <1>9
  <2>4. QED
    BY <1>6, <1>8, <2>1, <2>2, <2>3
<1>11. Captured \in [Types -> Int]
  <2>1. \A t \in Types : Captured[t] \in Int
    BY <1>6, <1>8, <1>10
  <2>2. Captured = [t \in Types |-> Captured[t]]
    BY DEF Captured
  <2>3. QED
    BY <2>1, <2>2
<1>12. ASSUME NEW t \in Types, NEW n \in Int PROVE SystemTs(t, n) = Time(Captured, t, n)
  <2>1. PICK x, y, z : x = Captured[t] /\ y = n * Period[t] /\ z = SystemTs(t, n)
    OBVIOUS
  <2>2. /\ x = B - (IF t = "audio" THEN L ELSE 0) /\ y \in Int
        /\ z = B + y - (IF t = "audio" THEN L ELSE 0)
    BY <1>9, <1>10, <2>1
  <2>3. z = x + y
    BY <1>6, <1>8, <2>2
  <2>4. QED
    BY <2>1, <2>3 DEF Time
<1>13. ASSUME S > 0 PROVE \A t \in Types : 0 <= Captured[t]
  <2>1. B >= M * (Q + P)
    BY <1>4, <1>5, <1>7, <1>13, Product
  <2>2. B >= L /\ B >= 0
    BY <1>5, <1>6, <1>8, <2>1
  <2>3. QED
    BY <1>6, <1>8, <1>10, <2>2
<1>14. QED
  BY <1>1, <1>11, <1>12, <1>13

\* reset_packet_data leaves an output that waits.
LEMMA ResetIs ==
  /\ Reset \in OutputType /\ ~Started(Reset)
  /\ Reset.packets = <<>> /\ Reset.sent = <<>>
  /\ \A t \in Types : ~Has(Reset.packets, t)
  /\ \A from, next :
       (\A t \in Types : 0 <= Time(from, t, next[t])) => Waiting(Reset, from, next)
<1>1. "audio" \in Types /\ "video" \in Types /\ \A t \in Types : t = "audio" \/ t = "video"
  BY DEF Types
<1>2. <<>> \in Seq(Packet) /\ Len(<<>>) = 0
  OBVIOUS
<1>3. [t \in Types |-> 0] \in [Types -> Int]
  OBVIOUS
<1>4. /\ Reset.packets = <<>> /\ Reset.sent = <<>> /\ Reset.received = {}
      /\ Reset.highest = [t \in Types |-> 0]
  BY DEF Reset
<1>5. Reset \in OutputType
  BY <1>2, <1>3 DEF Reset, OutputType
<1>6. ~Started(Reset)
  BY <1>1, <1>4 DEF Started
<1>7. \A t \in Types : ~Has(<<>>, t)
  BY <1>2 DEF Has
<1>8. ASSUME NEW from, NEW next, \A t \in Types : 0 <= Time(from, t, next[t])
      PROVE  Waiting(Reset, from, next)
  <2>1. Line(<<>>, from, next) /\ Whole(<<>>, next)
    BY <1>2 DEF Line, Sorted, Numbered, Timed, Whole
  <2>2. Marked(Reset, from, next)
    BY <1>4, <1>7, <1>8 DEF Marked
  <2>3. QED
    BY <1>1, <1>4, <1>7, <2>1, <2>2 DEF Waiting
<1>9. QED
  BY <1>4, <1>5, <1>6, <1>7, <1>8

\* At `active' everything waits.
LEMMA ActivateWaits ==
  ASSUME TypeOK, encoders.session > 0
  PROVE  Waiting(Reset, Captured, encoders.next)
<1>1. Captured \in [Types -> Int] /\ \A t \in Types : 0 <= Captured[t]
  BY CapturedIs
<1>2. ASSUME NEW t \in Types PROVE 0 <= Time(Captured, t, encoders.next[t])
  <2>1. encoders.next[t] \in Nat
    BY InterleaveAssumption DEF TypeOK, EncodersType
  <2>2. Time(Captured, t, 0) <= Time(Captured, t, encoders.next[t])
    BY <1>1, <2>1, TimesOrder
  <2>3. Time(Captured, t, 0) = Captured[t]
    <3>1. PICK x, P : x = Captured[t] /\ P = Period[t]
      OBVIOUS
    <3>2. x \in Int /\ P \in Int
      BY <1>1, <3>1, Periods
    <3>3. x + 0 * P = x
      BY <3>2
    <3>4. QED
      BY <3>1, <3>3 DEF Time
  <2>4. Time(Captured, t, encoders.next[t]) \in Int
    BY <1>1, <2>1, Times
  <2>5. QED
    BY <1>1, <2>2, <2>3, <2>4
<1>3. QED
  BY <1>2, ResetIs

\* The packet that is handed over is the next of its type, at its time.
LEMMA NextPacketIs ==
  ASSUME TypeOK, NEW type \in Types
  PROVE  /\ NextPacket(type) \in Packet /\ NextPacket(type).type = type
         /\ NextPacket(type).n = encoders.next[type]
         /\ NextPacket(type).ts = Time(Captured, type, encoders.next[type])
<1>1. encoders.next[type] \in Nat /\ encoders.next[type] \in Int
  BY InterleaveAssumption DEF TypeOK, EncodersType
<1>2. PICK x : x = SystemTs(type, encoders.next[type])
  OBVIOUS
<1>3. x = Time(Captured, type, encoders.next[type]) /\ x \in Int
  BY <1>1, <1>2, CapturedIs, Times
<1>4. NextPacket(type) = [type |-> type, n |-> encoders.next[type], ts |-> x]
  BY <1>2 DEF NextPacket
<1>5. QED
  BY <1>1, <1>3, <1>4 DEF Packet

\* What a packet that comes leads to.
LEMMA DeliverStep ==
  ASSUME IInv, NEW type \in Types, Deliver(type), encoders.active
  PROVE  /\ output' \in OutputType
         /\ encoders'.next = More(encoders.next, type)
         /\ Captured' = Captured
         /\ IF Started(output)
              THEN /\ Started(output') /\ output'.offset = output.offset
                   /\ Running(output', encoders'.next)
              ELSE /\ Outcome(output', Captured, encoders'.next)
                   /\ Period["audio"] <= 2 * Period["video"]
                      => KeyOutcome(InTime(output, Captured, encoders.next), output',
                                    Captured, encoders'.next)
<1>1. PICK p : p = NextPacket(type)
  OBVIOUS
<1>2. /\ p \in Packet /\ p.type = type /\ p.n = encoders.next[type]
      /\ p.ts = Time(Captured, type, encoders.next[type])
  BY <1>1, NextPacketIs DEF IInv
<1>3. /\ output' = InterleavePackets(output, p)
      /\ encoders' = [encoders EXCEPT !.next[type] = @ + 1]
  BY <1>1 DEF Deliver
<1>4. /\ encoders'.next = More(encoders.next, type)
      /\ encoders'.session = encoders.session /\ encoders'.lead = encoders.lead
  <2>1. encoders \in EncodersType
    BY DEF IInv, TypeOK
  <2>2. PICK next : next = [encoders.next EXCEPT ![type] = @ + 1]
    OBVIOUS
  <2>3. encoders' = [encoders EXCEPT !.next = next]
    BY <1>3, <2>2
  <2>4. /\ encoders'.next = next /\ encoders'.session = encoders.session
        /\ encoders'.lead = encoders.lead
    BY <2>1, <2>3 DEF EncodersType
  <2>5. QED
    BY <2>2, <2>4 DEF More
<1>5. Captured' = Captured
  BY <1>4 DEF Captured, SystemTs, Base
<1>6. /\ output \in OutputType /\ encoders.next \in Counts
      /\ Captured \in [Types -> Int]
      /\ IF Started(output) THEN Running(output, encoders.next)
         ELSE Waiting(output, Captured, encoders.next)
  <2>1. output \in OutputType /\ Captured \in [Types -> Int]
    BY CapturedIs DEF IInv, TypeOK
  <2>2. encoders.next \in Counts
    BY InterleaveAssumption DEF IInv, TypeOK, EncodersType, Counts
  <2>3. QED
    BY <2>1, <2>2 DEF IInv, Merging
<1>7. CASE Started(output)
  <2>1. PICK r : r = InterleavePackets(output, p)
    OBVIOUS
  <2>2. /\ r \in OutputType /\ r.received = output.received /\ r.offset = output.offset
        /\ Running(r, More(encoders.next, type))
    BY <1>2, <1>6, <1>7, <2>1, RunningStep
  <2>3. QED
    BY <1>3, <1>4, <1>5, <1>7, <2>1, <2>2 DEF Started
<1>8. CASE ~Started(output)
  <2>1. PICK r : r = InterleavePackets(output, p)
    OBVIOUS
  <2>2. /\ Outcome(r, Captured, More(encoders.next, type))
        /\ Period["audio"] <= 2 * Period["video"]
           => KeyOutcome(InTime(output, Captured, encoders.next), r,
                         Captured, More(encoders.next, type))
    BY <1>2, <1>6, <1>8, <2>1, WaitingStep
  <2>3. r \in OutputType
    BY <2>2 DEF Outcome
  <2>4. QED
    BY <1>3, <1>4, <1>5, <1>8, <2>1, <2>2, <2>3
<1>9. QED
  BY <1>7, <1>8

\* The invariant holds at the start.
LEMMA InitHolds == Init => IInv
<1> SUFFICES ASSUME Init PROVE IInv
  OBVIOUS
<1>1. /\ MaxSessions \in Nat /\ MaxPackets \in Nat /\ MaxEarly \in Nat
      /\ MaxEarly \in 0..MaxPackets /\ output = Reset
  <2>1. MaxSessions \in Nat /\ MaxPackets \in Nat /\ MaxEarly \in 0..MaxPackets
    BY InterleaveAssumption
  <2>2. QED
    BY <2>1 DEF Init
<1>2. /\ encoders.active = FALSE /\ encoders.next = [t \in Types |-> 0]
      /\ encoders \in EncodersType
  <2>1. PICK zero : zero = [t \in Types |-> 0]
    OBVIOUS
  <2>2. zero \in [Types -> 0..MaxPackets] /\ zero \in [Types -> 0..MaxEarly]
    BY <1>1, <2>1
  <2>3. encoders \in [session : {0}, active : {FALSE}, lead : Leads,
                      next : {zero}, lost : {zero}]
    BY <2>1 DEF Init
  <2>4. 0 \in 0..MaxSessions
    BY <1>1
  <2>5. QED
    BY <2>1, <2>2, <2>3, <2>4 DEF EncodersType
<1>3. TypeOK
  BY <1>1, <1>2, ResetIs DEF TypeOK
<1>4. Early
  BY <1>1, <1>2 DEF Early
<1>5. Merging
  BY <1>1, <1>2 DEF Merging
<1>6. QED
  BY <1>3, <1>4, <1>5 DEF IInv

\* Every step keeps it.
LEMMA StepHolds == IInv /\ [Next]_vars => IInv'
<1> SUFFICES ASSUME IInv, [Next]_vars PROVE IInv'
  OBVIOUS
<1>1. /\ TypeOK /\ Early /\ Merging
      /\ encoders \in EncodersType /\ output \in OutputType
      /\ MaxSessions \in Nat /\ MaxPackets \in Nat /\ MaxEarly \in 0..MaxPackets
  BY InterleaveAssumption DEF IInv, TypeOK
<1>2. CASE Hook
  <2>1. PICK lead \in Leads :
          encoders' = [session |-> encoders.session + 1, active |-> FALSE,
                       lead |-> lead, next |-> [t \in Types |-> 0],
                       lost |-> [t \in Types |-> 0]]
    BY <1>2 DEF Hook
  <2>2. output' = Reset /\ encoders.session \in 0..MaxSessions /\ encoders.session < MaxSessions
    BY <1>1, <1>2 DEF Hook, EncodersType
  <2>3. encoders.session + 1 \in 0..MaxSessions
    BY <1>1, <2>2
  <2>4. encoders' \in EncodersType
    BY <1>1, <2>1, <2>3 DEF EncodersType
  <2>5. encoders'.active = FALSE /\ encoders'.next = [t \in Types |-> 0]
    BY <2>1
  <2>6. TypeOK'
    BY <2>2, <2>4, ResetIs DEF TypeOK
  <2>7. Early'
    BY <1>1, <2>5 DEF Early
  <2>8. Merging'
    BY <2>2, <2>5 DEF Merging
  <2>9. QED
    BY <2>6, <2>7, <2>8 DEF IInv
<1>3. CASE Activate
  <2>1. /\ encoders.session > 0 /\ ~encoders.active /\ output' = output /\ output = Reset
        /\ encoders' = [encoders EXCEPT !.active = TRUE, !.lost = encoders.next]
    BY <1>1, <1>3 DEF Activate, Merging
  <2>2. encoders.next \in [Types -> 0..MaxEarly]
    <3>1. encoders.next \in [Types -> 0..MaxPackets]
      BY <1>1 DEF EncodersType
    <3>2. \A t \in Types : encoders.next[t] <= MaxEarly
      BY <1>1, <2>1 DEF Early
    <3>3. \A t \in Types : encoders.next[t] \in 0..MaxEarly
      BY <1>1, <3>1, <3>2
    <3>4. QED
      BY <3>1, <3>3
  <2>3. /\ encoders' \in EncodersType /\ encoders'.active = TRUE
        /\ encoders'.next = encoders.next /\ encoders'.session = encoders.session
        /\ encoders'.lead = encoders.lead
    BY <1>1, <2>1, <2>2 DEF EncodersType
  <2>4. TypeOK'
    BY <1>1, <2>1, <2>3 DEF TypeOK
  <2>5. Early'
    BY <2>3 DEF Early
  <2>6. Captured' = Captured
    BY <2>3 DEF Captured, SystemTs, Base
  <2>7. Waiting(Reset, Captured, encoders.next)
    BY <1>1, <2>1, ActivateWaits
  <2>8. output' = Reset /\ ~Started(Reset)
    BY <2>1, ResetIs
  <2>9. Merging'
    <3>1. encoders'.session > 0 /\ encoders'.active
      BY <2>1, <2>3
    <3>2. Waiting(output', Captured', encoders'.next) /\ ~Started(output')
      BY <2>3, <2>6, <2>7, <2>8
    <3>3. QED
      BY <3>1, <3>2 DEF Merging
  <2>10. QED
    BY <2>4, <2>5, <2>9 DEF IInv
<1>4. ASSUME NEW type \in Types, Deliver(type) PROVE IInv'
  <2>1. /\ encoders.session > 0
        /\ encoders.next[type] < (IF encoders.active THEN MaxPackets ELSE MaxEarly)
        /\ encoders' = [encoders EXCEPT !.next[type] = @ + 1]
        /\ ~encoders.active => output' = output
    BY <1>4 DEF Deliver
  <2>2. encoders.next \in [Types -> 0..MaxPackets]
    BY <1>1 DEF EncodersType
  <2>3. encoders.next[type] + 1 \in 0..MaxPackets
    BY <1>1, <2>1, <2>2
  <2>4. /\ encoders' \in EncodersType /\ encoders'.active = encoders.active
        /\ encoders'.next = [encoders.next EXCEPT ![type] = @ + 1]
        /\ encoders'.session = encoders.session
    BY <1>1, <2>1, <2>3 DEF EncodersType
  <2>5. CASE ~encoders.active
    <3>1. output' = Reset
      BY <1>1, <2>1, <2>5 DEF Merging
    <3>2. TypeOK'
      BY <2>4, <3>1, ResetIs DEF TypeOK
    <3>3. Merging'
      BY <2>4, <2>5, <3>1 DEF Merging
    <3>4. \A t \in Types : encoders'.next[t] <= MaxEarly
      <4> SUFFICES ASSUME NEW t \in Types PROVE encoders'.next[t] <= MaxEarly
        OBVIOUS
      <4>1. encoders.next[t] <= MaxEarly /\ encoders.next[t] \in Nat
        BY <1>1, <2>2, <2>5 DEF Early
      <4>2. CASE t = type
        BY <1>1, <2>1, <2>2, <2>4, <2>5, <4>1, <4>2
      <4>3. CASE t # type
        BY <2>2, <2>4, <4>1, <4>3
      <4>4. QED
        BY <4>2, <4>3
    <3>5. QED
      BY <3>2, <3>3, <3>4 DEF Early, IInv
  <2>6. CASE encoders.active
    <3>1. /\ output' \in OutputType /\ Captured' = Captured
          /\ IF Started(output)
               THEN Started(output') /\ Running(output', encoders'.next)
               ELSE Outcome(output', Captured, encoders'.next)
      BY <1>4, <2>6, DeliverStep
    <3>2. TypeOK'
      BY <2>4, <3>1 DEF TypeOK
    <3>3. Early'
      BY <2>4, <2>6 DEF Early
    <3>4. IF Started(output') THEN Running(output', encoders'.next)
          ELSE Waiting(output', Captured', encoders'.next)
      BY <3>1 DEF Outcome
    <3>5. Merging'
      BY <2>1, <2>4, <2>6, <3>4 DEF Merging
    <3>6. QED
      BY <3>2, <3>3, <3>5 DEF IInv
  <2>7. QED
    BY <2>5, <2>6
<1>5. CASE UNCHANGED vars
  <2>1. encoders' = encoders /\ output' = output
    BY <1>5 DEF vars
  <2>2. Captured' = Captured
    BY <2>1 DEF Captured, SystemTs, Base
  <2>3. QED
    BY <1>1, <2>1, <2>2 DEF TypeOK, Early, Merging, IInv
<1>6. QED
  BY <1>2, <1>3, <1>4, <1>5 DEF Next

\* The invariant of the specification.
THEOREM Invariance == Spec => []IInv
<1>1. Init => IInv
  BY InitHolds
<1>2. IInv /\ [Next]_vars => IInv'
  BY StepHolds
<1>3. QED
  BY <1>1, <1>2, PTL DEF Spec

-----------------------------------------------------------------------------
(***************************************************************************)
(* What follows from it.                                                   *)
(***************************************************************************)
\* What was sent, for the properties below.
LEMMA SentIs ==
  ASSUME IInv, output.sent # <<>>
  PROVE  /\ Started(output) /\ Running(output, encoders.next)
         /\ output.sent \in Seq(Packet)
         /\ output.offset \in [Types -> Int] /\ encoders.next \in Counts
<1>1. output \in OutputType /\ encoders.next \in Counts
  BY InterleaveAssumption DEF IInv, TypeOK, EncodersType, Counts
<1>2. Started(output) /\ Running(output, encoders.next)
  BY ResetIs DEF IInv, Merging, Waiting
<1>3. QED
  BY <1>1, <1>2, OutputOf

\* All packets between the offset and one that was sent were sent before it.
LEMMA SentBefore ==
  ASSUME IInv, NEW i \in 1..Len(output.sent), NEW n \in Int,
         output.offset[output.sent[i].type] <= n, n < output.sent[i].n
  PROVE  \E j \in 1..Len(output.sent) :
           j < i /\ output.sent[j].type = output.sent[i].type /\ output.sent[j].n = n
<1>1. PICK d, s, off, t :
        d = output.sent /\ s = output.packets /\ off = output.offset /\ t = output.sent[i].type
  OBVIOUS
<1>2. /\ Running(output, encoders.next) /\ d \in Seq(Packet)
      /\ off \in [Types -> Int] /\ encoders.next \in Counts
  <2>1. output.sent # <<>>
    OBVIOUS
  <2>2. QED
    BY <1>1, <2>1, SentIs
<1>3. /\ Len(d) \in Nat /\ \A a \in 1..Len(d) : d[a].type \in Types /\ d[a].n \in Nat
      /\ t \in Types /\ t = d[i].type /\ i \in 1..Len(d)
      /\ off[t] \in Int /\ encoders.next[t] \in Nat
  BY <1>1, <1>2, PacketOf DEF Counts
<1>4. /\ Numbered(d) /\ Timed(d, Zeroed(off), encoders.next)
      /\ \A m \in off[t]..(encoders.next[t] - 1) : Holds(d, t, m) \/ Holds(s, t, m)
      /\ \A a \in 1..Len(s) : d[i].type = s[a].type => d[i].n < s[a].n
  BY <1>1, <1>2, <1>3 DEF Running, Line
<1>5. d[i].n < encoders.next[t]
  BY <1>3, <1>4 DEF Timed
<1>6. n \in off[t]..(encoders.next[t] - 1)
  BY <1>1, <1>3, <1>5
<1>7. ~Holds(s, t, n)
  <2> SUFFICES ASSUME NEW a \in 1..Len(s), s[a].type = t, s[a].n = n PROVE FALSE
    BY DEF Holds
  <2>1. d[i].n < n
    BY <1>3, <1>4
  <2>2. QED
    BY <1>1, <1>3, <2>1
<1>8. PICK j \in 1..Len(d) : d[j].type = t /\ d[j].n = n
  BY <1>4, <1>6, <1>7 DEF Holds
<1>9. j < i
  <2> SUFFICES ASSUME ~(j < i) PROVE FALSE
    OBVIOUS
  <2>1. i = j \/ i < j
    BY <1>3
  <2>2. i < j => d[i].n < d[j].n
    BY <1>3, <1>4, <1>8 DEF Numbered
  <2>3. n < d[i].n /\ d[i].n \in Int
    BY <1>1, <1>3
  <2>4. QED
    BY <1>8, <2>1, <2>2, <2>3
<1>10. QED
  BY <1>1, <1>8, <1>9

\* The first packet of a type that is sent is the one at the offset.
LEMMA FirstSent ==
  ASSUME IInv, NEW i \in 1..Len(output.sent), NoneBetween(0, i)
  PROVE  output.sent[i].n = output.offset[output.sent[i].type]
<1>1. PICK d, off, t : d = output.sent /\ off = output.offset /\ t = output.sent[i].type
  OBVIOUS
<1>2. /\ Running(output, encoders.next) /\ d \in Seq(Packet)
      /\ off \in [Types -> Int]
  <2>1. output.sent # <<>>
    OBVIOUS
  <2>2. QED
    BY <1>1, <2>1, SentIs
<1>3. /\ Len(d) \in Nat /\ t \in Types /\ t = d[i].type /\ i \in 1..Len(d)
      /\ d[i].n \in Nat /\ off[t] \in Int
  BY <1>1, <1>2, PacketOf
<1>4. off[t] <= d[i].n
  BY <1>1, <1>2, <1>3 DEF Running
<1>5. ~(off[t] < d[i].n)
  <2> SUFFICES ASSUME off[t] < d[i].n PROVE FALSE
    OBVIOUS
  <2>1. PICK j \in 1..Len(d) : j < i /\ d[j].type = t
    <3>1. off[t] <= off[t]
      BY <1>3
    <3>2. QED
      BY <1>1, <1>3, <3>1, SentBefore
  <2>2. j \in (0 + 1)..(i - 1)
    BY <1>3, <2>1
  <2>3. QED
    BY <1>1, <2>1, <2>2 DEF NoneBetween
<1>6. QED
  BY <1>1, <1>3, <1>4, <1>5

\* What was sent is in the order of its times.
LEMMA SentSorted == IInv => Monotonic
<1> SUFFICES ASSUME IInv, NEW i \in 1..(Len(output.sent) - 1)
             PROVE  output.sent[i].ts <= output.sent[i + 1].ts
  BY DEF Monotonic
<1>1. output \in OutputType
  BY DEF IInv, TypeOK
<1>2. output.sent \in Seq(Packet) /\ Len(output.sent) \in Nat
  BY <1>1, OutputOf, PacketOf
<1>3. i \in 1..Len(output.sent) /\ i + 1 \in 1..Len(output.sent) /\ i < i + 1
      /\ output.sent # <<>>
  BY <1>2
<1>4. Sorted(output.sent)
  BY <1>3, SentIs DEF Running, Line
<1>5. QED
  BY <1>3, <1>4 DEF Sorted

\* Nothing is missing in what was sent, and it begins at 0.
LEMMA SentWhole == IInv => Gapless
<1> SUFFICES ASSUME IInv PROVE Gapless
  OBVIOUS
<1> SUFFICES ASSUME NEW i \in 1..Len(output.sent)
             PROVE  LET p == output.sent[i]
                    IN  IF NoneBetween(0, i) THEN p.ts = 0
                        ELSE \E j \in 1..(i - 1) :
                               /\ NoneBetween(j, i)
                               /\ output.sent[j] =
                                    [p EXCEPT !.n = @ - 1, !.ts = @ - Period[p.type]]
  <2>1. output.sent \in Seq(Packet)
    BY OutputOf DEF IInv, TypeOK
  <2>2. DOMAIN output.sent = 1..Len(output.sent)
    BY <2>1, PacketOf
  <2>3. QED
    BY <2>2 DEF Gapless
<1>1. PICK d, off, t : d = output.sent /\ off = output.offset /\ t = output.sent[i].type
  OBVIOUS
<1>2. /\ Running(output, encoders.next) /\ d \in Seq(Packet)
      /\ off \in [Types -> Int]
  <2>1. output.sent # <<>>
    OBVIOUS
  <2>2. QED
    BY <1>1, <2>1, SentIs
<1>3. /\ Len(d) \in Nat /\ t \in Types /\ t = d[i].type /\ i \in 1..Len(d)
      /\ \A a \in 1..Len(d) : d[a] \in Packet /\ d[a].type \in Types
                              /\ d[a].n \in Nat /\ d[a].ts \in Int
  BY <1>1, <1>2, PacketOf
<1>4. /\ Numbered(d) /\ off[t] <= d[i].n /\ off[t] \in Int
      /\ \A a \in 1..Len(d) : d[a].ts = Time(Zeroed(off), d[a].type, d[a].n)
  BY <1>1, <1>2, <1>3 DEF Running, Line, Timed
<1>5. CASE NoneBetween(0, i)
  <2>1. d[i].n = off[t]
    BY <1>1, <1>5, FirstSent
  <2>2. Time(Zeroed(off), t, off[t]) = 0
    BY <1>2, <1>3, <1>4, OffsetTime
  <2>3. QED
    BY <1>1, <1>3, <1>4, <1>5, <2>1, <2>2
<1>6. CASE ~NoneBetween(0, i)
  <2>1. PICK m \in Int : m = d[i].n - 1 /\ d[i].n \in Int
    BY <1>3
  <2>2. PICK k \in 1..Len(d) : k < i /\ d[k].type = t
    <3>1. PICK k \in (0 + 1)..(i - 1) : d[k].type = t
      BY <1>1, <1>6 DEF NoneBetween
    <3>2. k \in 1..Len(d) /\ k < i
      BY <1>3, <3>1
    <3>3. QED
      BY <3>1, <3>2
  <2>3. off[t] <= m /\ m < d[i].n
    <3>1. d[k].n < d[i].n
      BY <1>3, <1>4, <2>2 DEF Numbered
    <3>2. off[t] <= d[k].n
      BY <1>1, <1>2, <2>2 DEF Running
    <3>3. d[k].n \in Nat
      BY <1>3, <2>2
    <3>4. QED
      BY <1>3, <1>4, <2>1, <3>1, <3>2, <3>3
  <2>4. PICK j \in 1..Len(d) : j < i /\ d[j].type = t /\ d[j].n = m
    BY <1>1, <1>3, <2>3, SentBefore
  <2>5. NoneBetween(j, i)
    <3> SUFFICES ASSUME NEW l \in (j + 1)..(i - 1), d[l].type = t PROVE FALSE
      BY <1>1 DEF NoneBetween
    <3>1. l \in 1..Len(d) /\ j < l /\ l < i
      BY <1>3, <2>4
    <3>2. d[j].n < d[l].n /\ d[l].n < d[i].n
      BY <1>3, <1>4, <2>4, <3>1 DEF Numbered
    <3>3. d[l].n \in Int
      BY <1>3, <3>1
    <3>4. QED
      BY <2>1, <2>4, <3>2, <3>3
  <2>6. d[j].ts = d[i].ts - Period[t]
    <3>1. Zeroed(off) \in [Types -> Int]
      BY <1>2, <1>3, <2>1, OffsetTime
    <3>2. Time(Zeroed(off), t, d[i].n - 1) = Time(Zeroed(off), t, d[i].n) - Period[t]
      BY <1>3, <2>1, <3>1, Times
    <3>3. QED
      BY <1>3, <1>4, <2>1, <2>4, <3>2
  <2>7. d[j] = [d[i] EXCEPT !.n = @ - 1, !.ts = @ - Period[d[i].type]]
    <3>1. PICK p, q : p = d[i] /\ q = d[j]
      OBVIOUS
    <3>2. /\ p \in Packet /\ q \in Packet /\ q.type = p.type /\ q.n = p.n - 1
          /\ q.ts = p.ts - Period[p.type]
      BY <1>3, <2>1, <2>4, <2>6, <3>1
    <3>3. q = [p EXCEPT !.n = @ - 1, !.ts = @ - Period[p.type]]
      BY <3>2 DEF Packet
    <3>4. QED
      BY <3>1, <3>3
  <2>8. j \in 1..(i - 1)
    BY <1>3, <2>4
  <2>9. QED
    BY <1>1, <1>6, <2>5, <2>7, <2>8
<1>7. QED
  BY <1>5, <1>6

\* Every variable keeps its type.
THEOREM TypesHold == Spec => []TypeOK
<1>1. IInv => TypeOK
  BY DEF IInv
<1>2. QED
  BY <1>1, Invariance, PTL

\* The packets are sent in the order of their times.
THEOREM InTimeOrder == Spec => []Monotonic
BY SentSorted, Invariance, PTL

\* The stream starts at 0 and no packet is lost or sent twice.
THEOREM NoGap == Spec => []Gapless
BY SentWhole, Invariance, PTL

-----------------------------------------------------------------------------
(***************************************************************************)
(* Where the stream starts.  An audio packet is no longer than two frames: *)
(* ZDTalk has 15 frames a second and 1024 samples to a packet.             *)
(***************************************************************************)
\* The offsets, once set, put together what was captured together.
Synced == Started(output) => Near(output.offset, Captured)

\* Before the first packet nothing says that audio is late.
LEMMA ActivateInTime ==
  ASSUME TypeOK,
         Time(Captured, "audio", encoders.next["audio"])
           <= Time(Captured, "video", 0) + Period["video"]
  PROVE  InTime(Reset, Captured, encoders.next)
<1>1. "audio" \in Types /\ "video" \in Types /\ Captured \in [Types -> Int]
  BY CapturedIs DEF Types
<1>2. encoders.next["audio"] \in Nat /\ encoders.next["video"] \in Nat
  BY <1>1, InterleaveAssumption DEF TypeOK, EncodersType
<1>3. PICK x, y, z : /\ x = Time(Captured, "audio", encoders.next["audio"])
                     /\ y = Time(Captured, "video", 0)
                     /\ z = Time(Captured, "video", encoders.next["video"])
  OBVIOUS
<1>4. y <= z
  BY <1>1, <1>2, <1>3, TimesOrder
<1>5. x \in Int /\ y \in Int /\ z \in Int
  <2>1. encoders.next["audio"] \in Int /\ encoders.next["video"] \in Int /\ 0 \in Int
    BY <1>2
  <2>2. QED
    BY <1>1, <1>3, <2>1, Times
<1>6. Period["video"] \in Int
  BY <1>1, Periods
<1>7. x - z <= Period["video"]
  BY <1>3, <1>4, <1>5, <1>6
<1>8. ~Has(Reset.packets, "audio") /\ ~Has(Reset.packets, "video")
  BY <1>1, ResetIs
<1>9. QED
  BY <1>3, <1>7, <1>8 DEF InTime, AudioFrom

\* Both hold at the start.
LEMMA InitSynced == Init => KeyFirst /\ Synced
<1> SUFFICES ASSUME Init PROVE KeyFirst /\ Synced
  OBVIOUS
<1>1. encoders.active = FALSE /\ output = Reset
  BY DEF Init
<1>2. QED
  BY <1>1, ResetIs DEF KeyFirst, Synced

\* Every step keeps both.
LEMMA StepSynced ==
  ASSUME Period["audio"] <= 2 * Period["video"]
  PROVE  IInv /\ KeyFirst /\ Synced /\ [Next]_vars => KeyFirst' /\ Synced'
<1> SUFFICES ASSUME IInv, KeyFirst, Synced, [Next]_vars PROVE KeyFirst' /\ Synced'
  OBVIOUS
<1>1. /\ encoders \in EncodersType /\ TypeOK /\ Merging
      /\ "audio" \in Types /\ "video" \in Types
  BY DEF IInv, TypeOK, Types
<1>2. CASE Hook
  <2>1. encoders'.active = FALSE /\ output' = Reset
    BY <1>2 DEF Hook
  <2>2. QED
    BY <2>1, ResetIs DEF KeyFirst, Synced
<1>3. CASE Activate
  <2>1. /\ ~encoders.active /\ output' = output /\ output = Reset
        /\ encoders' = [encoders EXCEPT !.active = TRUE, !.lost = encoders.next]
    BY <1>1, <1>3 DEF Activate, Merging
  <2>2. /\ encoders'.next = encoders.next /\ encoders'.session = encoders.session
        /\ encoders'.lead = encoders.lead /\ encoders'.lost = encoders.next
    BY <1>1, <2>1 DEF EncodersType
  <2>3. Captured' = Captured
    BY <2>2 DEF Captured, SystemTs, Base
  <2>4. output' = Reset /\ ~Started(Reset)
    BY <2>1, ResetIs
  <2>5. AudioInTime' => InTime(Reset, Captured, encoders.next)
    <3>1. AudioInTime' = (SystemTs("audio", encoders.next["audio"])
                            <= SystemTs("video", 0) + Period["video"])
      BY <2>2 DEF AudioInTime, SystemTs, Base
    <3>2. encoders.next["audio"] \in Int /\ 0 \in Int
      BY <1>1, InterleaveAssumption DEF EncodersType
    <3>3. /\ SystemTs("audio", encoders.next["audio"])
               = Time(Captured, "audio", encoders.next["audio"])
          /\ SystemTs("video", 0) = Time(Captured, "video", 0)
      BY <1>1, <3>2, CapturedIs
    <3>4. QED
      BY <1>1, <3>1, <3>3, ActivateInTime
  <2>6. KeyFirst'
    BY <2>2, <2>3, <2>4, <2>5 DEF KeyFirst
  <2>7. Synced'
    BY <2>4 DEF Synced
  <2>8. QED
    BY <2>6, <2>7
<1>4. ASSUME NEW type \in Types, Deliver(type) PROVE KeyFirst' /\ Synced'
  <2>1. /\ encoders' = [encoders EXCEPT !.next[type] = @ + 1]
        /\ ~encoders.active => output' = output
    BY <1>4 DEF Deliver
  <2>2. /\ encoders'.active = encoders.active /\ encoders'.lost = encoders.lost
        /\ encoders'.session = encoders.session /\ encoders'.lead = encoders.lead
    <3>1. PICK next : encoders' = [encoders EXCEPT !.next = next]
      BY <2>1
    <3>2. QED
      BY <1>1, <3>1 DEF EncodersType
  <2>3. CASE ~encoders.active
    <3>1. output' = Reset /\ ~encoders'.active
      BY <1>1, <2>1, <2>2, <2>3 DEF Merging
    <3>2. QED
      BY <3>1, ResetIs DEF KeyFirst, Synced
  <2>4. CASE encoders.active
    <3>1. /\ Captured' = Captured
          /\ IF Started(output)
               THEN Started(output') /\ output'.offset = output.offset
               ELSE KeyOutcome(InTime(output, Captured, encoders.next), output',
                               Captured, encoders'.next)
      BY <1>4, <2>4, DeliverStep
    <3>2. AudioInTime' = AudioInTime
      BY <2>2 DEF AudioInTime, SystemTs, Base
    <3>3. CASE Started(output)
      BY <2>2, <2>4, <3>1, <3>2, <3>3 DEF KeyFirst, Synced
    <3>4. CASE ~Started(output)
      <4>1. Synced'
        BY <3>1, <3>4 DEF KeyOutcome, Synced
      <4>2. KeyFirst'
        BY <2>2, <2>4, <3>1, <3>2, <3>4 DEF KeyOutcome, KeyFirst
      <4>3. QED
        BY <4>1, <4>2
    <3>5. QED
      BY <3>3, <3>4
  <2>5. QED
    BY <2>3, <2>4
<1>5. CASE UNCHANGED vars
  <2>1. encoders' = encoders /\ output' = output
    BY <1>5 DEF vars
  <2>2. Captured' = Captured /\ AudioInTime' = AudioInTime
    BY <2>1 DEF Captured, AudioInTime, SystemTs, Base
  <2>3. QED
    BY <2>1, <2>2 DEF KeyFirst, Synced
<1>6. QED
  BY <1>2, <1>3, <1>4, <1>5 DEF Next

\* Once started, the frame at the offset is a keyframe, and the first sent.
LEMMA FirstSentIsKey == IInv /\ KeyFirst => FirstIsKeyframe
<1> SUFFICES ASSUME IInv, KeyFirst PROVE FirstIsKeyframe
  OBVIOUS
<1>1. output.sent \in Seq(Packet) /\ DOMAIN output.sent = 1..Len(output.sent)
  <2>1. output.sent \in Seq(Packet)
    BY OutputOf DEF IInv, TypeOK
  <2>2. QED
    BY <2>1, PacketOf
<1> SUFFICES ASSUME AudioInTime, NEW i \in 1..Len(output.sent),
                    output.sent[i].type = "video", NoneBetween(0, i)
             PROVE  IsKey(output.sent[i])
  BY <1>1 DEF FirstIsKeyframe
<1>2. output.sent[i].n = output.offset["video"]
  BY FirstSent
<1>3. output.sent # <<>>
  BY <1>1
<1>4. Started(output)
  BY <1>3, SentIs
<1>5. encoders.active
  BY <1>3, ResetIs DEF IInv, Merging
<1>6. output.offset["video"] % KeyInterval = 0
  BY <1>4, <1>5 DEF KeyFirst
<1>7. QED
  BY <1>2, <1>6 DEF IsKey

\* Synced in the words of the specification.
LEMMA SyncedIs == IInv /\ Synced => InSync
<1> SUFFICES ASSUME IInv, Synced, Started(output)
             PROVE  SystemTs("audio", output.offset["audio"])
                      - SystemTs("video", output.offset["video"])
                      \in (1 - Period["audio"])..Period["video"]
  BY DEF InSync
<1>1. output.offset["audio"] \in Int /\ output.offset["video"] \in Int
      /\ "audio" \in Types /\ "video" \in Types
  BY OutputOf DEF IInv, TypeOK, Types
<1>2. /\ SystemTs("audio", output.offset["audio"])
           = Time(Captured, "audio", output.offset["audio"])
      /\ SystemTs("video", output.offset["video"])
           = Time(Captured, "video", output.offset["video"])
  BY <1>1, CapturedIs DEF IInv
<1>3. QED
  BY <1>2 DEF Synced, Near

\* The stream begins with a keyframe, unless audio was lost.
THEOREM KeyframeFirst ==
  ASSUME Period["audio"] <= 2 * Period["video"]
  PROVE  Spec => []FirstIsKeyframe
<1>1. Init => KeyFirst /\ Synced
  BY InitSynced
<1>2. IInv /\ KeyFirst /\ Synced /\ [Next]_vars => KeyFirst' /\ Synced'
  BY StepSynced
<1>3. IInv /\ KeyFirst => FirstIsKeyframe
  BY FirstSentIsKey
<1>4. QED
  BY <1>1, <1>2, <1>3, Invariance, PTL DEF Spec

\* Sound and picture that play together were captured together.
THEOREM SoundInSync ==
  ASSUME Period["audio"] <= 2 * Period["video"]
  PROVE  Spec => []InSync
<1>1. Init => KeyFirst /\ Synced
  BY InitSynced
<1>2. IInv /\ KeyFirst /\ Synced /\ [Next]_vars => KeyFirst' /\ Synced'
  BY StepSynced
<1>3. IInv /\ Synced => InSync
  BY SyncedIs
<1>4. QED
  BY <1>1, <1>2, <1>3, Invariance, PTL DEF Spec
==============================================================================
