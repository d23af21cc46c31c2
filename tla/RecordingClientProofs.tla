------------------------- MODULE RecordingClientProofs -------------------------
(***************************************************************************)
(* Proofs about RecordingClient for every set of events, every size of     *)
(* their payloads and any number of messages, however they are cut.        *)
(***************************************************************************)
EXTENDS RecordingClient, SequenceTheorems, TLAPS

(***************************************************************************)
(* Bytes in sequence.  The bytes on the wire and those being parsed are a  *)
(* part of what the server sent: in its order, and, as long as no read     *)
(* ended inside a message, made of whole messages.                         *)
(***************************************************************************)
Before(a, b) == a[1] < b[1] \/ (a[1] = b[1] /\ a[2] < b[2])
Ordered(s) == \A a, b \in DOMAIN s : a < b => Before(s[a], s[b])
Ahead(s, t) == \A a \in DOMAIN s, b \in DOMAIN t : Before(s[a], t[b])

\* The bytes of message m, of those in sent.
Size(sent, m) == 3 + PayloadSize[sent[m]]
Known(s, sent) ==
    \A a \in DOMAIN s : /\ s[a][1] \in DOMAIN sent
                        /\ s[a][2] \in 1..Size(sent, s[a][1])
Whole(s, sent) ==
    \A a \in DOMAIN s : \A k \in 1..Size(sent, s[a][1]) :
        LET p == a - s[a][2] + k IN p \in DOMAIN s /\ s[p] = <<s[a][1], k>>

\* Indices and elements of a part of a sequence.
LEMMA Part ==
  ASSUME NEW S, NEW s \in Seq(S), NEW m \in 1..(Len(s) + 1),
         NEW n \in (m - 1)..Len(s)
  PROVE  /\ SubSeq(s, m, n) \in Seq(S)
         /\ Len(SubSeq(s, m, n)) = n - m + 1
         /\ DOMAIN SubSeq(s, m, n) = 1..(n - m + 1)
         /\ \A a \in 1..(n - m + 1) : /\ SubSeq(s, m, n)[a] = s[m + a - 1]
                                      /\ m + a - 1 \in DOMAIN s
<1>1. \A i \in m..n : s[i] \in S
  OBVIOUS
<1>2. /\ SubSeq(s, m, n) \in Seq(S)
      /\ Len(SubSeq(s, m, n)) = IF m <= n THEN n - m + 1 ELSE 0
      /\ \A i \in 1..(n - m + 1) : SubSeq(s, m, n)[i] = s[m + i - 1]
  BY <1>1, SubSeqProperties
<1>3. QED
  BY <1>2

\* The parts of an ordered sequence are ordered.
LEMMA PartOrdered ==
  ASSUME NEW s \in Seq(Bytes), Ordered(s), NEW m \in 1..(Len(s) + 1),
         NEW n \in (m - 1)..Len(s)
  PROVE  Ordered(SubSeq(s, m, n))
<1> DEFINE t == SubSeq(s, m, n)
<1>1. /\ DOMAIN t = 1..(n - m + 1)
      /\ \A a \in 1..(n - m + 1) : t[a] = s[m + a - 1] /\ m + a - 1 \in DOMAIN s
  BY Part
<1>2. \A a, b \in DOMAIN t : a < b => Before(t[a], t[b])
  BY <1>1 DEF Ordered
<1>3. QED
  BY <1>2 DEF Ordered

LEMMA PartKnown ==
  ASSUME NEW sent, NEW s \in Seq(Bytes), Known(s, sent),
         NEW m \in 1..(Len(s) + 1), NEW n \in (m - 1)..Len(s)
  PROVE  Known(SubSeq(s, m, n), sent)
<1> DEFINE t == SubSeq(s, m, n)
<1>1. /\ DOMAIN t = 1..(n - m + 1)
      /\ \A a \in 1..(n - m + 1) : t[a] = s[m + a - 1] /\ m + a - 1 \in DOMAIN s
  BY Part
<1>2. QED
  BY <1>1 DEF Known

\* No message has bytes on both sides of another's last one, or of its own.
LEMMA NotAcross ==
  ASSUME NEW sent \in Seq(AllEvents), NEW s \in Seq(Bytes), Ordered(s),
         Known(s, sent), NEW n \in DOMAIN s, s[n][2] = Size(sent, s[n][1]),
         NEW q \in DOMAIN s, NEW r \in DOMAIN s, q <= n, n < r
  PROVE  s[q][1] # s[r][1]
<1>1. /\ s[q][1] \in Nat /\ s[q][2] \in Nat
      /\ s[n][1] \in Nat /\ s[n][2] \in Nat
      /\ s[r][1] \in Nat /\ s[r][2] \in Nat
  <2>1. \A b \in Bytes : b[1] \in Nat /\ b[2] \in Nat
    BY RecordingClientAssumption DEF Bytes
  <2>2. s[q] \in Bytes /\ s[n] \in Bytes /\ s[r] \in Bytes
    OBVIOUS
  <2>3. QED
    BY <2>1, <2>2
<1>2. Before(s[n], s[r])
  BY DEF Ordered
<1>3. q = n \/ Before(s[q], s[n])
  BY DEF Ordered
<1>4. s[r][2] \in 1..Size(sent, s[r][1])
  BY DEF Known
<1>5. CASE s[n][1] = s[r][1]
  <2>1. s[n][2] < s[r][2] /\ Size(sent, s[n][1]) = Size(sent, s[r][1])
    BY <1>1, <1>2, <1>5 DEF Before
  <2>2. QED
    BY <1>1, <1>4, <2>1
<1>6. CASE s[n][1] # s[r][1]
  BY <1>1, <1>2, <1>3, <1>6 DEF Before
<1>7. QED
  BY <1>5, <1>6

\* A cut after the last byte of a message leaves whole messages on both sides.
LEMMA CutWhole ==
  ASSUME NEW sent \in Seq(AllEvents), NEW s \in Seq(Bytes), Ordered(s),
         Known(s, sent), Whole(s, sent), NEW n \in DOMAIN s,
         s[n][2] = Size(sent, s[n][1])
  PROVE  Whole(SubSeq(s, 1, n), sent) /\ Whole(SubSeq(s, n + 1, Len(s)), sent)
<1> DEFINE t == SubSeq(s, 1, n)
           u == SubSeq(s, n + 1, Len(s))
<1>1. /\ DOMAIN t = 1..n
      /\ \A a \in 1..n : t[a] = s[a] /\ a \in DOMAIN s
  BY Part
<1>2. /\ DOMAIN u = 1..(Len(s) - n)
      /\ \A a \in 1..(Len(s) - n) : u[a] = s[n + a] /\ n + a \in DOMAIN s
  <2>1. n + 1 \in 1..(Len(s) + 1) /\ Len(s) \in ((n + 1) - 1)..Len(s)
    OBVIOUS
  <2>2. \A a \in 1..(Len(s) - (n + 1) + 1) : u[a] = s[(n + 1) + a - 1]
                                            /\ (n + 1) + a - 1 \in DOMAIN s
    BY <2>1, Part
  <2>3. DOMAIN u = 1..(Len(s) - (n + 1) + 1)
    BY <2>1, Part
  <2>4. QED
    BY <2>2, <2>3
<1>3. \A q, r \in DOMAIN s : q <= n /\ n < r => s[q][1] # s[r][1]
  BY NotAcross
<1>4. \A a \in DOMAIN s : s[a][2] \in Nat
  <2>1. \A b \in Bytes : b[2] \in Nat
    BY DEF Bytes
  <2>2. QED
    BY <2>1
<1> HIDE DEF t, u
<1>5. ASSUME NEW a \in DOMAIN s, NEW k \in 1..Size(sent, s[a][1])
      PROVE  LET p == a - s[a][2] + k
             IN  p \in DOMAIN s /\ s[p] = <<s[a][1], k>> /\ (a <= n <=> p <= n)
  <2> DEFINE p == a - s[a][2] + k
  <2>1. p \in DOMAIN s /\ s[p] = <<s[a][1], k>>
    BY DEF Whole
  <2>2. s[p][1] = s[a][1]
    BY <2>1
  <2> HIDE DEF p
  <2>3. ~(p <= n /\ n < a) /\ ~(a <= n /\ n < p)
    BY <1>3, <2>1, <2>2
  <2>4. p \in Int /\ a \in Int /\ n \in Int
    BY <2>1
  <2>5. a <= n <=> p <= n
    BY <2>3, <2>4
  <2>6. QED
    BY <2>1, <2>5 DEF p
<1>6. Whole(t, sent)
  <2>1. ASSUME NEW a \in DOMAIN t, NEW k \in 1..Size(sent, t[a][1])
        PROVE  LET p == a - t[a][2] + k
               IN  p \in DOMAIN t /\ t[p] = <<t[a][1], k>>
    <3> DEFINE p == a - t[a][2] + k
    <3>1. a \in DOMAIN s /\ t[a] = s[a] /\ a <= n
      BY <1>1
    <3>2. p \in DOMAIN s /\ s[p] = <<t[a][1], k>> /\ p <= n
      BY <1>5, <3>1
    <3> HIDE DEF p
    <3>3. p \in DOMAIN t /\ t[p] = <<t[a][1], k>>
      BY <1>1, <3>2
    <3>4. QED
      BY <3>3 DEF p
  <2>2. QED
    BY <2>1 DEF Whole
<1>7. Whole(u, sent)
  <2>1. ASSUME NEW a \in DOMAIN u, NEW k \in 1..Size(sent, u[a][1])
        PROVE  LET p == a - u[a][2] + k
               IN  p \in DOMAIN u /\ u[p] = <<u[a][1], k>>
    <3> DEFINE p == a - u[a][2] + k
               b == n + a
               q == b - s[b][2] + k
    <3>1. b \in DOMAIN s /\ u[a] = s[b] /\ ~(b <= n) /\ a \in Nat
      BY <1>2
    <3>2. k \in 1..Size(sent, s[b][1])
      BY <3>1
    <3> HIDE DEF b
    <3>3. q \in DOMAIN s /\ s[q] = <<s[b][1], k>> /\ ~(q <= n)
      BY <1>5, <3>1, <3>2
    <3>4. k \in Int /\ s[b][2] \in Nat
      <4>1. s[b][2] \in Nat
        BY <1>4, <3>1
      <4>2. \A x \in 1..Size(sent, s[b][1]) : x \in Int
        OBVIOUS
      <4>3. QED
        BY <3>2, <4>1, <4>2
    <3>5. q = n + p /\ p \in Int
      BY <3>1, <3>4 DEF b
    <3> HIDE DEF p, q
    <3>6. p \in 1..(Len(s) - n)
      BY <3>3, <3>5
    <3>7. p \in DOMAIN u /\ u[p] = <<u[a][1], k>>
      BY <1>2, <3>1, <3>3, <3>5, <3>6
    <3>8. QED
      BY <3>7 DEF p
  <2>2. QED
    BY <2>1 DEF Whole
<1>8. QED
  BY <1>6, <1>7 DEF t, u

(***************************************************************************)
(* The server's next message.                                              *)
(***************************************************************************)
\* What the client keeps of the messages sent is not changed by another one.
LEMMA SentGrows ==
  ASSUME NEW sent \in Seq(AllEvents), NEW event \in AllEvents, NEW s \in Seq(Bytes),
         Known(s, sent)
  PROVE  /\ Known(s, Append(sent, event))
         /\ Whole(s, sent) => Whole(s, Append(sent, event))
<1> DEFINE more == Append(sent, event)
<1>1. \A m \in DOMAIN sent : m \in DOMAIN more /\ more[m] = sent[m]
  OBVIOUS
<1> HIDE DEF more
<1>2. \A m \in DOMAIN sent : m \in DOMAIN more /\ Size(more, m) = Size(sent, m)
  BY <1>1 DEF Size
<1>3. Known(s, more)
  BY <1>2 DEF Known
<1>4. Whole(s, sent) => Whole(s, more)
  BY <1>2 DEF Whole, Known
<1>5. QED
  BY <1>3, <1>4 DEF more

\* The bytes of one message.
LEMMA MessageBytes ==
  ASSUME NEW i \in 1..MaxMessages, NEW event \in AllEvents
  PROVE  LET t == Message(i, event) IN
         /\ t \in Seq(Bytes)
         /\ Len(t) = 3 + PayloadSize[event] /\ Len(t) \in Nat /\ Len(t) >= 3
         /\ DOMAIN t = 1..Len(t)
         /\ \A k \in 1..Len(t) : t[k] = <<i, k>>
<1>1. PayloadSize[event] \in Nat
  BY RecordingClientAssumption
<1>2. \A k \in 1..(3 + PayloadSize[event]) : <<i, k>> \in Bytes
  BY <1>1 DEF Bytes
<1> DEFINE t == Message(i, event)
<1>3. t \in [1..(3 + PayloadSize[event]) -> Bytes]
  BY <1>2 DEF Message
<1>4. t \in Seq(Bytes) /\ Len(t) = 3 + PayloadSize[event]
  BY <1>1, <1>3
<1>5. \A k \in 1..(3 + PayloadSize[event]) : t[k] = <<i, k>>
  BY DEF Message
<1> HIDE DEF t
<1>6. QED
  BY <1>1, <1>3, <1>4, <1>5 DEF t

\* It comes after all that is on the wire, whole.
LEMMA MessageFollows ==
  ASSUME NEW sent \in Seq(AllEvents), NEW event \in AllEvents, NEW s \in Seq(Bytes),
         Ordered(s), Known(s, sent), Len(sent) < MaxMessages
  PROVE  LET more == Append(sent, event)
             r    == s \o Message(Len(sent) + 1, event)
         IN  /\ r \in Seq(Bytes) /\ Ordered(r) /\ Known(r, more)
             /\ Whole(s, sent) => Whole(r, more)
             /\ DOMAIN s \subseteq DOMAIN r
             /\ \A a \in DOMAIN s : r[a] = s[a]
             /\ \E a \in DOMAIN r : r[a] = <<Len(sent) + 1, 1>>
             /\ \A a \in DOMAIN r : a \in DOMAIN s \/ r[a][1] = Len(sent) + 1
<1> DEFINE more == Append(sent, event)
           i == Len(sent) + 1
           t == Message(i, event)
           r == s \o t
<1>1. i \in 1..MaxMessages /\ i \in Nat
  BY RecordingClientAssumption
<1>2. /\ t \in Seq(Bytes)
      /\ Len(t) = 3 + PayloadSize[event] /\ Len(t) \in Nat /\ Len(t) >= 3
      /\ DOMAIN t = 1..Len(t)
      /\ \A k \in 1..Len(t) : t[k] = <<i, k>>
  BY <1>1, MessageBytes
<1>3. i \in DOMAIN more /\ more[i] = event
  OBVIOUS
<1>4. Size(more, i) = Len(t)
  BY <1>2, <1>3 DEF Size
<1>5. \A a \in DOMAIN s : s[a][1] \in Nat /\ s[a][1] < i /\ s[a][1] \in DOMAIN sent
  BY DEF Known
<1> HIDE DEF more, i, t
<1>6. /\ r \in Seq(Bytes) /\ Len(r) = Len(s) + Len(t)
      /\ \A a \in 1..Len(s) : r[a] = s[a]
      /\ \A a \in (Len(s) + 1)..(Len(s) + Len(t)) : r[a] = t[a - Len(s)]
  <2>1. /\ r \in Seq(Bytes) /\ Len(r) = Len(s) + Len(t)
        /\ \A a \in 1..(Len(s) + Len(t)) :
             r[a] = IF a <= Len(s) THEN s[a] ELSE t[a - Len(s)]
    BY <1>2, ConcatProperties
  <2>2. Len(s) \in Nat /\ Len(t) \in Nat
    BY <1>2
  <2>3. QED
    BY <2>1, <2>2
<1>7. Len(s) \in Nat /\ DOMAIN s = 1..Len(s) /\ DOMAIN r = 1..(Len(s) + Len(t))
  BY <1>2, <1>6
<1> HIDE DEF r
<1>8. \A a \in DOMAIN r : \/ a \in DOMAIN s /\ r[a] = s[a]
                          \/ /\ ~(a <= Len(s)) /\ a - Len(s) \in 1..Len(t)
                             /\ r[a] = <<i, a - Len(s)>>
  <2>1. SUFFICES ASSUME NEW a \in DOMAIN r, ~(a <= Len(s))
                 PROVE  a - Len(s) \in 1..Len(t) /\ r[a] = <<i, a - Len(s)>>
    BY <1>6, <1>7, <1>2
  <2>2. a \in (Len(s) + 1)..(Len(s) + Len(t)) /\ a - Len(s) \in 1..Len(t)
    BY <1>2, <1>7, <2>1
  <2>3. r[a] = t[a - Len(s)]
    BY <1>6, <2>2
  <2>4. QED
    BY <1>2, <2>2, <2>3
<1>9. Ordered(r)
  <2>1. ASSUME NEW a \in DOMAIN r, NEW b \in DOMAIN r, a < b
        PROVE  Before(r[a], r[b])
    <3>1. CASE b <= Len(s)
      <4>1. a \in DOMAIN s /\ b \in DOMAIN s /\ r[a] = s[a] /\ r[b] = s[b]
        BY <1>2, <1>6, <1>7, <2>1, <3>1
      <4>2. QED
        BY <2>1, <4>1 DEF Ordered
    <3>2. CASE ~(b <= Len(s)) /\ a <= Len(s)
      <4>1. r[a][1] < i /\ r[b][1] = i
        BY <1>5, <1>8, <3>2
      <4>2. QED
        BY <4>1 DEF Before
    <3>3. CASE ~(b <= Len(s)) /\ ~(a <= Len(s))
      <4>1. r[a] = <<i, a - Len(s)>> /\ r[b] = <<i, b - Len(s)>>
        BY <1>7, <1>8, <3>3
      <4>2. a - Len(s) < b - Len(s)
        BY <1>2, <1>7, <2>1
      <4>3. QED
        BY <4>1, <4>2 DEF Before
    <3>4. QED
      BY <3>1, <3>2, <3>3
  <2>2. QED
    BY <2>1 DEF Ordered
<1>10. Known(s, more) /\ (Whole(s, sent) => Whole(s, more))
  BY SentGrows DEF more
<1>11. Known(r, more)
  <2>1. ASSUME NEW a \in DOMAIN r
        PROVE  r[a][1] \in DOMAIN more /\ r[a][2] \in 1..Size(more, r[a][1])
    <3>1. CASE a \in DOMAIN s /\ r[a] = s[a]
      BY <1>10, <3>1 DEF Known
    <3>2. CASE a - Len(s) \in 1..Len(t) /\ r[a] = <<i, a - Len(s)>>
      BY <1>3, <1>4, <3>2
    <3>3. QED
      BY <1>8, <3>1, <3>2
  <2>2. QED
    BY <2>1 DEF Known
<1>12. ASSUME Whole(s, sent)
       PROVE  Whole(r, more)
  <2>1. ASSUME NEW a \in DOMAIN r, NEW k \in 1..Size(more, r[a][1])
        PROVE  LET p == a - r[a][2] + k IN p \in DOMAIN r /\ r[p] = <<r[a][1], k>>
    <3>1. CASE a \in DOMAIN s /\ r[a] = s[a]
      <4> DEFINE p == a - s[a][2] + k
      <4>1. p \in DOMAIN s /\ s[p] = <<s[a][1], k>>
        BY <1>10, <1>12, <2>1, <3>1 DEF Whole
      <4> HIDE DEF p
      <4>2. p \in DOMAIN r /\ r[p] = s[p]
        BY <1>2, <1>6, <1>7, <4>1
      <4>3. QED
        BY <3>1, <4>1, <4>2 DEF p
    <3>2. CASE a - Len(s) \in 1..Len(t) /\ r[a] = <<i, a - Len(s)>>
      <4>1. k \in 1..Len(t)
        BY <1>4, <3>2
      <4>2. a - r[a][2] + k = Len(s) + k
        BY <1>2, <1>7, <3>2, <4>1
      <4>3. /\ Len(s) + k \in (Len(s) + 1)..(Len(s) + Len(t))
            /\ Len(s) + k - Len(s) = k /\ Len(s) + k \in DOMAIN r
        BY <1>2, <1>7, <4>1
      <4>4. r[Len(s) + k] = t[k] /\ t[k] = <<i, k>>
        <5> DEFINE b == Len(s) + k
        <5>1. b \in (Len(s) + 1)..(Len(s) + Len(t)) /\ b - Len(s) = k
          BY <4>3
        <5> HIDE DEF b
        <5>2. r[b] = t[k]
          BY <1>6, <5>1
        <5>3. QED
          BY <1>2, <4>1, <5>2 DEF b
      <4>5. QED
        BY <3>2, <4>2, <4>3, <4>4
    <3>3. QED
      BY <1>8, <3>1, <3>2
  <2>2. QED
    BY <2>1 DEF Whole
<1>13. Len(s) + 1 \in DOMAIN r /\ r[Len(s) + 1] = <<i, 1>>
  <2>1. Len(s) + 1 \in (Len(s) + 1)..(Len(s) + Len(t)) /\ Len(s) + 1 - Len(s) = 1
    BY <1>2, <1>7
  <2>2. r[Len(s) + 1] = t[1] /\ t[1] = <<i, 1>>
    BY <1>2, <1>6, <2>1
  <2>3. QED
    BY <1>2, <1>7, <2>2
<1>14. DOMAIN s \subseteq DOMAIN r /\ \A a \in DOMAIN s : r[a] = s[a]
  BY <1>2, <1>6, <1>7
<1>15. \A a \in DOMAIN r : a \in DOMAIN s \/ r[a][1] = i
  BY <1>8
<1>16. \E a \in DOMAIN r : r[a] = <<i, 1>>
  BY <1>13
<1>17. QED
  BY <1>6, <1>9, <1>11, <1>12, <1>14, <1>15, <1>16 DEF more, i, t, r

(***************************************************************************)
(* The inductive invariant.                                                *)
(***************************************************************************)
BytesInOrder ==
    /\ Ordered(client.data) /\ Known(client.data, server.sent)
    /\ Ordered(wire) /\ Known(wire, server.sent)
    /\ Ahead(client.data, wire)
    /\ client.main # "parse" => client.data = <<>>

\* Command c, if it was parsed from a message, has that one's event byte
\* before all of s.
Past(c, s) == c.of > 0 => \A a \in DOMAIN s : Before(<<c.of, 3>>, s[a])
Read(c) == /\ Past(c, client.data) /\ Past(c, wire)
           /\ c.of \in 0..Len(server.sent)
Sooner(c, d) == c.of > 0 /\ d.of > 0 => c.of < d.of

CommandsInOrder ==
    /\ \A i \in DOMAIN obs.executed : Read(obs.executed[i])
    /\ \A i \in DOMAIN obs.posted : Read(obs.posted[i])
    /\ \A i, j \in DOMAIN obs.executed :
         i < j => Sooner(obs.executed[i], obs.executed[j])
    /\ \A i, j \in DOMAIN obs.posted :
         i < j => Sooner(obs.posted[i], obs.posted[j])
    /\ \A i \in DOMAIN obs.executed, j \in DOMAIN obs.posted :
         Sooner(obs.executed[i], obs.posted[j])

\* What becomes of a message while none is cut.
Runs(m, cs) == \E i \in DOMAIN cs : cs[i].of = m
Begins(m, s) == \E a \in DOMAIN s : s[a] = <<m, 1>>
Faithful(c) == c.of \in DOMAIN server.sent /\ c.event = server.sent[c.of]

AllWhole ==
    /\ Whole(client.data, server.sent) /\ Whole(wire, server.sent)
    /\ \A i \in DOMAIN obs.executed : Faithful(obs.executed[i])
    /\ \A i \in DOMAIN obs.posted : Faithful(obs.posted[i])
    /\ \A m \in DOMAIN server.sent : server.sent[m] # Unknown =>
         \/ Runs(m, obs.executed) \/ Runs(m, obs.posted)
         \/ Begins(m, client.data) \/ Begins(m, wire)

Inv ==
    /\ TypeOK /\ BytesInOrder /\ CommandsInOrder
    /\ client.main # "exited" /\ ~client.garbled => AllWhole
    /\ ExecutedAsSent

USE DEF AllEvents

LEMMA ByteTypes ==
  \A b \in Bytes : b[1] \in 1..MaxMessages /\ b[1] \in Nat /\ b[2] \in Nat
BY RecordingClientAssumption DEF Bytes

\* ExecutedAsSent follows from the rest.
LEMMA AccountedFor ==
  ASSUME TypeOK, CommandsInOrder, AllWhole
  PROVE  ExecutedAsSent
<1>1. SUFFICES ASSUME NEW i \in DOMAIN obs.executed
               PROVE  LET c == obs.executed[i] IN
                      /\ c.of \in DOMAIN server.sent /\ c.event = server.sent[c.of]
                      /\ \A m \in 1..(c.of - 1) : server.sent[m] # Unknown =>
                           \E j \in 1..(i - 1) : obs.executed[j].of = m
  BY DEF ExecutedAsSent
<1> DEFINE c == obs.executed[i]
<1>2. c.of \in DOMAIN server.sent /\ c.event = server.sent[c.of]
  BY DEF AllWhole, Faithful
<1>3. server.sent \in Seq(AllEvents) /\ obs.executed \in Seq(Commands)
  BY DEF TypeOK, ServerType, ObsType
<1>4. c.of \in Nat /\ c.of > 0 /\ i \in Nat
  BY <1>2, <1>3
<1>5. ASSUME NEW m \in 1..(c.of - 1), server.sent[m] # Unknown
      PROVE  \E j \in 1..(i - 1) : obs.executed[j].of = m
  <2>1. m \in DOMAIN server.sent /\ m \in Nat /\ m < c.of /\ m > 0
    BY <1>2, <1>3, <1>4
  <2>2. ~Begins(m, client.data) /\ ~Begins(m, wire)
    <3>1. \A s : Past(c, s) => ~Begins(m, s)
      BY <1>4, <2>1 DEF Past, Begins, Before
    <3>2. Past(c, client.data) /\ Past(c, wire)
      BY DEF CommandsInOrder, Read
    <3>3. QED
      BY <3>1, <3>2
  <2>3. ~Runs(m, obs.posted)
    BY <1>4, <2>1 DEF CommandsInOrder, Sooner, Runs
  <2>4. PICK j \in DOMAIN obs.executed : obs.executed[j].of = m
    BY <1>5, <2>1, <2>2, <2>3 DEF AllWhole, Runs
  <2>5. j \in Nat /\ j > 0 /\ j # i
    BY <1>3, <2>1, <2>4
  <2>6. ~(i < j)
    BY <1>4, <2>1, <2>4 DEF CommandsInOrder, Sooner
  <2>7. QED
    BY <1>4, <2>4, <2>5, <2>6
<1>6. QED
  BY <1>2, <1>5

LEMMA AccountedForNext ==
  (TypeOK /\ CommandsInOrder /\ AllWhole)' => ExecutedAsSent'
<1>1. TypeOK /\ CommandsInOrder /\ AllWhole => ExecutedAsSent
  BY AccountedFor
<1>2. QED
  BY <1>1, PTL

LEMMA InvInit == Init => Inv
<1> SUFFICES ASSUME Init PROVE Inv
  OBVIOUS
<1>1. TypeOK
  BY DEF Init, TypeOK, ServerType, ClientType, ObsType
<1>2. BytesInOrder
  BY DEF Init, BytesInOrder, Ordered, Known, Ahead
<1>3. CommandsInOrder
  BY DEF Init, CommandsInOrder
<1>4. AllWhole
  BY DEF Init, AllWhole, Whole
<1>5. QED
  BY <1>1, <1>2, <1>3, <1>4, AccountedFor DEF Inv

Intact == client.main # "exited" /\ ~client.garbled => AllWhole
Core == BytesInOrder /\ CommandsInOrder /\ Intact /\ ExecutedAsSent

\* A step that touches neither bytes nor commands.
LEMMA Idle ==
  ASSUME Inv, wire' = wire, client'.data = client.data,
         client'.garbled = client.garbled, server'.sent = server.sent,
         obs'.posted = obs.posted, obs'.executed = obs.executed,
         client.main # "exited", client'.main # "parse" => client.main # "parse"
  PROVE  Core'
<1>1. BytesInOrder'
  BY DEF Inv, BytesInOrder
<1>2. CommandsInOrder'
  BY DEF Inv, CommandsInOrder, Read
<1>3. Intact'
  BY DEF Inv, Intact, AllWhole, Faithful
<1>4. ExecutedAsSent'
  BY DEF Inv, ExecutedAsSent
<1>5. QED
  BY <1>1, <1>2, <1>3, <1>4 DEF Core

\* The types behind the actions.
LEMMA Types ==
  ASSUME Inv
  PROVE  /\ server \in ServerType /\ client \in ClientType /\ obs \in ObsType
         /\ server.sent \in Seq(AllEvents) /\ server.received \in Seq(Nat)
         /\ wire \in Seq(Bytes) /\ client.data \in Seq(Bytes)
         /\ obs.posted \in Seq(Commands) /\ obs.executed \in Seq(Commands)
         /\ obs.notices \in Seq(Nat)
BY DEF Inv, TypeOK, ServerType, ClientType, ObsType

LEMMA SimpleSteps ==
  ASSUME Inv, client.main # "exited",
         Close \/ SocketConnected \/ SendMessageToServer \/ SocketDisconnected
         \/ Quit \/ ThreadFinishes
  PROVE  Inv'
<1>1. CASE Close
  <2>1. Core'
    BY <1>1, Types, Idle DEF Close, ServerType
  <2>2. TypeOK'
    BY <1>1, Types DEF Close, TypeOK, ServerType
  <2>3. QED
    BY <2>1, <2>2 DEF Inv, Core, Intact
<1>2. CASE SocketConnected
  <2>1. Core'
    BY <1>2, Types, Idle DEF SocketConnected, ClientType, ObsType
  <2>2. TypeOK'
    BY <1>2, Types DEF SocketConnected, TypeOK, ClientType, ObsType
  <2>3. QED
    BY <2>1, <2>2 DEF Inv, Core, Intact
<1>3. CASE SendMessageToServer
  <2>1. Core'
    BY <1>3, Types, Idle DEF SendMessageToServer, ServerType, ObsType
  <2>2. Head(obs.notices) \in Nat /\ Tail(obs.notices) \in Seq(Nat)
    BY <1>3, Types, HeadTailProperties DEF SendMessageToServer
  <2>3. Append(server.received, Head(obs.notices)) \in Seq(Nat)
    BY <2>2, Types, AppendProperties
  <2>4. server' \in ServerType
    BY <1>3, <2>3, Types DEF SendMessageToServer, ServerType
  <2>5. obs' \in ObsType
    BY <1>3, <2>2, Types DEF SendMessageToServer, ObsType
  <2>6. TypeOK'
    BY <1>3, <2>4, <2>5, Types DEF SendMessageToServer, TypeOK
  <2>7. QED
    BY <2>1, <2>6 DEF Inv, Core, Intact
<1>4. CASE SocketDisconnected
  <2>1. Core'
    BY <1>4, Types, Idle DEF SocketDisconnected, ClientType
  <2>2. TypeOK'
    BY <1>4, Types DEF SocketDisconnected, TypeOK, ClientType
  <2>3. QED
    BY <2>1, <2>2 DEF Inv, Core, Intact
<1>5. CASE Quit
  <2>1. Core'
    BY <1>5, Types, Idle DEF Quit, ClientType, ObsType
  <2>2. TypeOK'
    BY <1>5, Types DEF Quit, TypeOK, ClientType, ObsType
  <2>3. QED
    BY <2>1, <2>2 DEF Inv, Core, Intact
<1>6. CASE ThreadFinishes
  <2>1. Core'
    BY <1>6, Types, Idle DEF ThreadFinishes, ObsType
  <2>2. TypeOK'
    BY <1>6, Types DEF ThreadFinishes, TypeOK, ObsType
  <2>3. QED
    BY <2>1, <2>2 DEF Inv, Core, Intact
<1>7. QED
  BY <1>1, <1>2, <1>3, <1>4, <1>5, <1>6

\* When the process is gone nothing is left to run.
LEMMA WaitedStep ==
  ASSUME Inv, Waited
  PROVE  Inv'
<1>1. /\ client' = [client EXCEPT !.main = "exited"]
      /\ obs' = [obs EXCEPT !.posted = <<>>, !.notices = <<>>]
      /\ server' = server /\ wire' = wire /\ client.main # "parse"
  BY DEF Waited
<1>2. /\ client'.main = "exited" /\ client'.data = client.data
      /\ client'.garbled = client.garbled
      /\ obs'.posted = <<>> /\ obs'.executed = obs.executed
  BY <1>1, Types DEF ClientType, ObsType
<1>3. TypeOK'
  <2>1. client' \in ClientType
    BY <1>1, Types DEF ClientType
  <2>2. <<>> \in Seq(Commands) /\ <<>> \in Seq(Nat)
    OBVIOUS
  <2>3. obs' \in ObsType
    BY <1>1, <2>2, Types DEF ObsType
  <2>4. QED
    BY <1>1, <2>1, <2>3, Types DEF TypeOK
<1>4. BytesInOrder'
  BY <1>1, <1>2 DEF Inv, BytesInOrder
<1>5. CommandsInOrder'
  BY <1>1, <1>2 DEF Inv, CommandsInOrder, Read
<1>6. ExecutedAsSent'
  BY <1>1, <1>2 DEF Inv, ExecutedAsSent
<1>7. QED
  BY <1>2, <1>3, <1>4, <1>5, <1>6 DEF Inv

LEMMA SendCommandStep ==
  ASSUME Inv, client.main # "exited", NEW event \in AllEvents, SendCommand(event)
  PROVE  Inv'
<1> DEFINE sent == server.sent
           more == Append(sent, event)
           i    == Len(sent) + 1
<1>1. /\ Len(sent) < MaxMessages
      /\ server' = [server EXCEPT !.sent = more]
      /\ wire' = wire \o Message(i, event)
      /\ client' = client /\ obs' = obs
  BY DEF SendCommand
<1>2. server'.sent = more
  BY <1>1, Types DEF ServerType
<1>3. more \in Seq(AllEvents) /\ Len(more) = i /\ Len(sent) \in Nat /\ i = Len(sent) + 1
  BY Types, AppendProperties
<1>4. \A m \in DOMAIN sent : m \in DOMAIN more /\ more[m] = sent[m] /\ m \in Nat /\ m < i
  BY Types, AppendProperties
<1>5. \A m \in DOMAIN more : m \in DOMAIN sent \/ m = i
  <2>1. DOMAIN more = 1..i /\ DOMAIN sent = 1..Len(sent)
    BY <1>3, Types
  <2>2. QED
    BY <1>3, <2>1
<1>6. Ordered(wire) /\ Known(wire, sent) /\ Known(client.data, sent)
      /\ Ordered(client.data) /\ Ahead(client.data, wire)
  BY DEF Inv, BytesInOrder
<1>7. /\ wire' \in Seq(Bytes) /\ Ordered(wire') /\ Known(wire', more)
      /\ Whole(wire, sent) => Whole(wire', more)
      /\ DOMAIN wire \subseteq DOMAIN wire'
      /\ \A a \in DOMAIN wire : wire'[a] = wire[a]
      /\ \E a \in DOMAIN wire' : wire'[a] = <<i, 1>>
      /\ \A a \in DOMAIN wire' : a \in DOMAIN wire \/ wire'[a][1] = i
  <2> DEFINE r == wire \o Message(i, event)
  <2>1. /\ r \in Seq(Bytes) /\ Ordered(r) /\ Known(r, more)
        /\ Whole(wire, sent) => Whole(r, more)
        /\ DOMAIN wire \subseteq DOMAIN r
        /\ \A a \in DOMAIN wire : r[a] = wire[a]
        /\ \E a \in DOMAIN r : r[a] = <<i, 1>>
        /\ \A a \in DOMAIN r : a \in DOMAIN wire \/ r[a][1] = i
    BY <1>1, <1>6, Types, MessageFollows
  <2>2. wire' = r
    BY <1>1
  <2> HIDE DEF r
  <2>3. QED
    BY <2>1, <2>2
<1>8. Known(client.data, more) /\ (Whole(client.data, sent) => Whole(client.data, more))
  BY <1>6, Types, SentGrows
<1>9. TypeOK'
  BY <1>1, <1>3, <1>7, Types DEF TypeOK, ServerType
<1> HIDE DEF more, i, sent
<1>10. BytesInOrder'
  <2>1. \A a \in DOMAIN client.data : client.data[a][1] < i
    BY <1>4, <1>6 DEF Known
  <2>2. Ahead(client.data, wire')
    <3>1. ASSUME NEW a \in DOMAIN client.data, NEW b \in DOMAIN wire'
          PROVE  Before(client.data[a], wire'[b])
      <4>1. CASE b \in DOMAIN wire
        BY <1>6, <1>7, <4>1 DEF Ahead
      <4>2. CASE wire'[b][1] = i
        BY <2>1, <4>2 DEF Before
      <4>3. QED
        BY <1>7, <4>1, <4>2
    <3>2. QED
      BY <3>1 DEF Ahead
  <2>3. QED
    BY <1>1, <1>2, <1>6, <1>7, <1>8, <2>2 DEF Inv, BytesInOrder
<1>11. CommandsInOrder'
  <2>1. ASSUME NEW c, Read(c), c \in Commands
        PROVE  Past(c, wire') /\ c.of \in 0..Len(more)
    <3>1. c.of \in 0..Len(sent) /\ c.of < i
      BY <1>3, <2>1 DEF Read, sent
    <3>2. Past(c, wire)
      BY <2>1 DEF Read
    <3>3. Past(c, wire')
      BY <1>7, <3>1, <3>2 DEF Past, Before
    <3>4. QED
      BY <1>3, <3>1, <3>3
  <2>2. \A c \in Commands : Read(c) => Read(c)'
    BY <1>1, <1>2, <2>1 DEF Read
  <2>3. QED
    BY <1>1, <2>2, Types DEF Inv, CommandsInOrder
<1>12. Intact'
  <2>1. SUFFICES ASSUME AllWhole, ~client.garbled PROVE AllWhole'
    BY <1>1 DEF Inv, Intact
  <2>2. Whole(client.data, more) /\ Whole(wire', more)
    BY <1>7, <1>8, <2>1 DEF AllWhole, sent
  <2>3. \A c : Faithful(c) => Faithful(c)'
    BY <1>2, <1>4 DEF Faithful, sent
  <2>4. \A m \in DOMAIN more : more[m] # Unknown =>
          \/ Runs(m, obs.executed) \/ Runs(m, obs.posted)
          \/ Begins(m, client.data) \/ Begins(m, wire')
    <3>1. \A m : Begins(m, wire) => Begins(m, wire')
      BY <1>7 DEF Begins
    <3>2. Begins(i, wire')
      BY <1>7 DEF Begins
    <3>3. QED
      BY <1>4, <1>5, <2>1, <3>1, <3>2 DEF AllWhole, sent
  <2>5. QED
    BY <1>1, <1>2, <2>1, <2>2, <2>3, <2>4 DEF AllWhole
<1>13. ExecutedAsSent'
  <2>1. CASE client.garbled
    BY <1>1, <2>1 DEF ExecutedAsSent
  <2>2. CASE ~client.garbled
    BY <1>1, <1>9, <1>11, <1>12, <2>2, AccountedForNext DEF Intact
  <2>3. QED
    BY <2>1, <2>2
<1>14. QED
  BY <1>9, <1>10, <1>11, <1>12, <1>13 DEF Inv, Intact

\* A step that only moves commands from posted to executed.
LEMMA ExecuteStep ==
  ASSUME Inv, client.main # "exited", Execute
  PROVE  Inv'
<1> DEFINE c == Head(obs.posted)
<1>1. /\ obs' = [obs EXCEPT !.posted   = Tail(obs.posted),
                            !.executed = Append(obs.executed, c),
                            !.notices  = Append(obs.notices, Len(obs.executed) + 1)]
      /\ server' = server /\ wire' = wire /\ client' = client
      /\ obs.posted # <<>>
  BY DEF Execute
<1>2. /\ obs'.posted = Tail(obs.posted)
      /\ obs'.executed = Append(obs.executed, c)
  BY <1>1, Types DEF ObsType
<1>3. /\ c \in Commands /\ c = obs.posted[1] /\ 1 \in DOMAIN obs.posted
      /\ obs'.posted \in Seq(Commands)
      /\ \A j \in DOMAIN obs'.posted : /\ obs'.posted[j] = obs.posted[j + 1]
                                       /\ j + 1 \in DOMAIN obs.posted
                                       /\ j \in Nat /\ 1 < j + 1
      /\ \A j \in DOMAIN obs.posted : j = 1 \/ j - 1 \in DOMAIN obs'.posted
  <2>1. /\ Head(obs.posted) \in Commands
        /\ Tail(obs.posted) \in Seq(Commands)
        /\ Len(Tail(obs.posted)) = Len(obs.posted) - 1
        /\ \A j \in 1..Len(Tail(obs.posted)) :
             Tail(obs.posted)[j] = obs.posted[j + 1]
    BY <1>1, Types, HeadTailProperties
  <2>2. Len(obs.posted) \in Nat /\ DOMAIN obs.posted = 1..Len(obs.posted)
        /\ Len(obs.posted) # 0
    BY <1>1, Types, EmptySeq
  <2>3. DOMAIN Tail(obs.posted) = 1..(Len(obs.posted) - 1)
    BY <2>1
  <2>4. Head(obs.posted) = obs.posted[1]
    BY <1>1, Types
  <2>5. QED
    BY <1>2, <2>1, <2>2, <2>3, <2>4
<1>4. /\ obs'.executed \in Seq(Commands)
      /\ \A j \in DOMAIN obs.executed : /\ j \in DOMAIN obs'.executed
                                        /\ obs'.executed[j] = obs.executed[j]
      /\ \E j \in DOMAIN obs'.executed : obs'.executed[j] = c
      /\ \A j \in DOMAIN obs'.executed :
           \/ j \in DOMAIN obs.executed
           \/ obs'.executed[j] = c /\ \A i \in DOMAIN obs'.executed : ~(j < i)
  <2> DEFINE n == Len(obs.executed)
  <2>1. n \in Nat /\ DOMAIN obs.executed = 1..n
    BY Types
  <2>2. /\ Append(obs.executed, c) \in Seq(Commands)
        /\ Len(Append(obs.executed, c)) = n + 1
        /\ \A j \in 1..n : Append(obs.executed, c)[j] = obs.executed[j]
        /\ Append(obs.executed, c)[n + 1] = c
    BY <1>3, Types, AppendProperties
  <2>3. DOMAIN Append(obs.executed, c) = 1..(n + 1)
    BY <2>2
  <2> HIDE DEF n, c
  <2>4. QED
    BY <1>2, <2>1, <2>2, <2>3
<1> HIDE DEF c
<1>5. TypeOK'
  <2>1. Append(obs.notices, Len(obs.executed) + 1) \in Seq(Nat)
    BY Types, AppendProperties
  <2>2. obs' \in ObsType
    BY <1>1, <1>2, <1>3, <1>4, <2>1, Types DEF ObsType
  <2>3. QED
    BY <1>1, <2>2, Types DEF TypeOK
<1>6. BytesInOrder'
  BY <1>1 DEF Inv, BytesInOrder
<1>7. CommandsInOrder'
  <2>1. \A d : Read(d) => Read(d)'
    BY <1>1 DEF Read
  <2>2. \A j \in DOMAIN obs'.executed : Read(obs'.executed[j])
    BY <1>3, <1>4 DEF Inv, CommandsInOrder
  <2>3. \A j \in DOMAIN obs'.posted : Read(obs'.posted[j])
    BY <1>3 DEF Inv, CommandsInOrder
  <2>4. ASSUME NEW i \in DOMAIN obs'.executed, NEW j \in DOMAIN obs'.executed, i < j
        PROVE  Sooner(obs'.executed[i], obs'.executed[j])
    <3>1. i \in DOMAIN obs.executed /\ obs'.executed[i] = obs.executed[i]
      BY <1>4, <2>4
    <3>2. CASE j \in DOMAIN obs.executed
      BY <1>4, <2>4, <3>1, <3>2 DEF Inv, CommandsInOrder
    <3>3. CASE obs'.executed[j] = c
      BY <1>3, <3>1, <3>3 DEF Inv, CommandsInOrder
    <3>4. QED
      BY <1>4, <3>2, <3>3
  <2>5. ASSUME NEW i \in DOMAIN obs'.posted, NEW j \in DOMAIN obs'.posted, i < j
        PROVE  Sooner(obs'.posted[i], obs'.posted[j])
    <3>1. i + 1 \in DOMAIN obs.posted /\ j + 1 \in DOMAIN obs.posted /\ i + 1 < j + 1
      BY <1>3, <2>5
    <3>2. Sooner(obs.posted[i + 1], obs.posted[j + 1])
      BY <3>1 DEF Inv, CommandsInOrder
    <3>3. QED
      BY <1>3, <3>2
  <2>6. ASSUME NEW i \in DOMAIN obs'.executed, NEW j \in DOMAIN obs'.posted
        PROVE  Sooner(obs'.executed[i], obs'.posted[j])
    <3>1. j + 1 \in DOMAIN obs.posted /\ 1 < j + 1 /\ obs'.posted[j] = obs.posted[j + 1]
      BY <1>3
    <3>2. Sooner(c, obs.posted[j + 1])
      BY <1>3, <3>1 DEF Inv, CommandsInOrder
    <3>3. CASE i \in DOMAIN obs.executed
      BY <1>4, <3>1, <3>3 DEF Inv, CommandsInOrder
    <3>4. CASE obs'.executed[i] = c
      BY <3>1, <3>2, <3>4
    <3>5. QED
      BY <1>4, <3>3, <3>4
  <2>7. QED
    BY <2>1, <2>2, <2>3, <2>4, <2>5, <2>6 DEF CommandsInOrder
<1>8. Intact'
  <2>1. SUFFICES ASSUME AllWhole PROVE AllWhole'
    BY <1>1 DEF Inv, Intact
  <2>2. \A d : Faithful(d) => Faithful(d)'
    BY <1>1 DEF Faithful
  <2>3. \A m : Runs(m, obs.executed) => Runs(m, obs'.executed)
    BY <1>4 DEF Runs
  <2>4. ASSUME NEW m, Runs(m, obs.posted)
        PROVE  Runs(m, obs'.executed) \/ Runs(m, obs'.posted)
    <3>1. PICK j \in DOMAIN obs.posted : obs.posted[j].of = m
      BY <2>4 DEF Runs
    <3>2. CASE j = 1
      BY <1>3, <1>4, <3>1, <3>2 DEF Runs
    <3>3. CASE j - 1 \in DOMAIN obs'.posted
      <4>1. j \in Nat
        BY <3>1, Types
      <4>2. obs'.posted[j - 1] = obs.posted[(j - 1) + 1] /\ (j - 1) + 1 = j
        BY <1>3, <3>3, <4>1
      <4>3. QED
        BY <3>1, <3>3, <4>2 DEF Runs
    <3>4. QED
      BY <1>3, <3>2, <3>3
  <2>5. \A j \in DOMAIN obs'.executed : Faithful(obs'.executed[j])
    BY <1>3, <1>4, <2>1 DEF AllWhole
  <2>6. \A j \in DOMAIN obs'.posted : Faithful(obs'.posted[j])
    BY <1>3, <2>1 DEF AllWhole
  <2>7. QED
    BY <1>1, <2>1, <2>2, <2>3, <2>4, <2>5, <2>6 DEF AllWhole
<1>9. ExecutedAsSent'
  <2>1. CASE client.garbled
    BY <1>1, <2>1 DEF ExecutedAsSent
  <2>2. CASE ~client.garbled
    BY <1>1, <1>5, <1>7, <1>8, <2>2, AccountedForNext DEF Intact
  <2>3. QED
    BY <2>1, <2>2
<1>10. QED
  BY <1>5, <1>6, <1>7, <1>8, <1>9 DEF Inv, Intact

\* t and u are what is cut from s after its n bytes and what is left.
Parts(s, n, t, u) ==
    /\ Ahead(t, u)
    /\ \A a \in DOMAIN t : a \in DOMAIN s /\ t[a] = s[a]
    /\ \A a \in DOMAIN u : \E b \in DOMAIN s : n < b /\ u[a] = s[b]
    /\ \A b \in DOMAIN s : \/ b <= n /\ b \in DOMAIN t
                           \/ n < b /\ \E a \in DOMAIN u : u[a] = s[b]

LEMMA Cut ==
  ASSUME NEW sent, NEW s \in Seq(Bytes), Ordered(s), Known(s, sent),
         NEW n \in 0..Len(s)
  PROVE  LET t == SubSeq(s, 1, n)
             u == SubSeq(s, n + 1, Len(s))
         IN  /\ t \in Seq(Bytes) /\ Ordered(t) /\ Known(t, sent)
             /\ u \in Seq(Bytes) /\ Ordered(u) /\ Known(u, sent)
             /\ Parts(s, n, t, u)
<1> DEFINE t == SubSeq(s, 1, n)
           u == SubSeq(s, n + 1, Len(s))
<1>1. /\ 1 \in 1..(Len(s) + 1) /\ n \in (1 - 1)..Len(s)
      /\ n + 1 \in 1..(Len(s) + 1) /\ Len(s) \in ((n + 1) - 1)..Len(s)
      /\ n \in Nat /\ Len(s) \in Nat /\ DOMAIN s = 1..Len(s) /\ n <= Len(s)
  OBVIOUS
<1>2. /\ t \in Seq(Bytes) /\ Ordered(t) /\ Known(t, sent)
      /\ u \in Seq(Bytes) /\ Ordered(u) /\ Known(u, sent)
  BY <1>1, Part, PartOrdered, PartKnown
<1>3. /\ DOMAIN t = 1..n
      /\ \A a \in 1..n : t[a] = s[a] /\ a \in DOMAIN s
  <2>1. DOMAIN t = 1..(n - 1 + 1) /\ \A a \in 1..(n - 1 + 1) : t[a] = s[1 + a - 1]
    BY <1>1, Part
  <2>2. \A a \in 1..n : 1 + a - 1 = a /\ a \in DOMAIN s
    BY <1>1
  <2>3. n - 1 + 1 = n
    BY <1>1
  <2>4. QED
    BY <2>1, <2>2, <2>3
<1>4. /\ DOMAIN u = 1..(Len(s) - n)
      /\ \A a \in 1..(Len(s) - n) : u[a] = s[n + a] /\ n + a \in DOMAIN s
  <2>1. \A a \in 1..(Len(s) - (n + 1) + 1) : u[a] = s[(n + 1) + a - 1]
                                            /\ (n + 1) + a - 1 \in DOMAIN s
    BY <1>1, Part
  <2>2. DOMAIN u = 1..(Len(s) - (n + 1) + 1)
    BY <1>1, Part
  <2>3. Len(s) - (n + 1) + 1 = Len(s) - n
    BY <1>1
  <2>4. \A a \in 1..(Len(s) - n) : (n + 1) + a - 1 = n + a
    BY <1>1
  <2>5. QED
    BY <2>1, <2>2, <2>3, <2>4
<1> HIDE DEF t, u
<1>5. \A a \in DOMAIN u : \E b \in DOMAIN s : n < b /\ u[a] = s[b]
  <2>1. ASSUME NEW a \in DOMAIN u
        PROVE  n + a \in DOMAIN s /\ n < n + a /\ u[a] = s[n + a]
    BY <1>1, <1>4
  <2>2. QED
    BY <2>1
<1>6. \A b \in DOMAIN s : \/ b <= n /\ b \in DOMAIN t
                          \/ n < b /\ \E a \in DOMAIN u : u[a] = s[b]
  <2>1. SUFFICES ASSUME NEW b \in DOMAIN s, ~(b <= n)
                 PROVE  n < b /\ \E a \in DOMAIN u : u[a] = s[b]
    BY <1>1, <1>3
  <2>2. b - n \in 1..(Len(s) - n) /\ n + (b - n) = b /\ n < b
    BY <1>1, <2>1
  <2>3. u[b - n] = s[b] /\ b - n \in DOMAIN u
    BY <1>4, <2>2
  <2>4. QED
    BY <2>2, <2>3
<1>7. Ahead(t, u)
  <2>1. ASSUME NEW a \in DOMAIN t, NEW b \in DOMAIN u
        PROVE  Before(t[a], u[b])
    <3>1. PICK c \in DOMAIN s : n < c /\ u[b] = s[c]
      BY <1>5
    <3>2. a \in DOMAIN s /\ t[a] = s[a] /\ a < c
      BY <1>1, <1>3, <3>1
    <3>3. QED
      BY <3>1, <3>2 DEF Ordered
  <2>2. QED
    BY <2>1 DEF Ahead
<1>8. QED
  BY <1>2, <1>3, <1>5, <1>6, <1>7 DEF t, u, Parts

\* A read moves the first bytes of the wire to the main thread.
LEMMA ReadStep ==
  ASSUME Inv, client.main # "exited", SocketReadyRead
  PROVE  Inv'
<1>1. PICK k \in DOMAIN wire :
        /\ client' = [client EXCEPT
                        !.main    = IF k < 2 THEN "loop" ELSE "parse",
                        !.data    = IF k < 2 THEN <<>> ELSE SubSeq(wire, 1, k),
                        !.garbled = client.garbled \/ ~IsLast(wire[k])]
        /\ wire' = SubSeq(wire, k + 1, Len(wire))
  BY DEF SocketReadyRead
<1>2. server' = server /\ obs' = obs /\ client.main = "loop"
  BY DEF SocketReadyRead
<1> DEFINE t == SubSeq(wire, 1, k)
           u == SubSeq(wire, k + 1, Len(wire))
<1>3. /\ client'.data = (IF k < 2 THEN <<>> ELSE t)
      /\ client'.main = (IF k < 2 THEN "loop" ELSE "parse")
      /\ client'.garbled = (client.garbled \/ ~IsLast(wire[k]))
      /\ wire' = u
  BY <1>1, Types DEF ClientType
<1>4. /\ client.data = <<>> /\ Ordered(wire) /\ Known(wire, server.sent)
      /\ k \in 0..Len(wire) /\ k \in Nat /\ k > 0
  BY <1>2, Types DEF Inv, BytesInOrder
<1>5. /\ t \in Seq(Bytes) /\ Ordered(t) /\ Known(t, server.sent)
      /\ u \in Seq(Bytes) /\ Ordered(u) /\ Known(u, server.sent)
      /\ Ahead(t, u)
      /\ \A a \in DOMAIN t : a \in DOMAIN wire /\ t[a] = wire[a]
      /\ \A a \in DOMAIN u : \E b \in DOMAIN wire : k < b /\ u[a] = wire[b]
      /\ \A b \in DOMAIN wire : \/ b <= k /\ b \in DOMAIN t
                                \/ k < b /\ \E a \in DOMAIN u : u[a] = wire[b]
  <2>1. wire \in Seq(Bytes)
    BY Types
  <2>2. /\ t \in Seq(Bytes) /\ Ordered(t) /\ Known(t, server.sent)
        /\ u \in Seq(Bytes) /\ Ordered(u) /\ Known(u, server.sent)
        /\ Parts(wire, k, t, u)
    BY <1>4, <2>1, Cut
  <2> HIDE DEF t, u
  <2>3. QED
    BY <2>2 DEF Parts
<1> HIDE DEF t, u
<1>6. TypeOK'
  <2>1. client' \in ClientType
    <3>1. client'.data \in Seq(Bytes)
      BY <1>3, <1>5
    <3>2. QED
      BY <1>1, <1>3, <3>1, Types DEF ClientType
  <2>2. QED
    BY <1>2, <1>3, <1>5, <2>1, Types DEF TypeOK
<1>7. BytesInOrder'
  <2>1. Ordered(<<>>) /\ Known(<<>>, server.sent) /\ Ahead(<<>>, u)
    BY DEF Ordered, Known, Ahead
  <2>2. QED
    BY <1>2, <1>3, <1>5, <2>1 DEF BytesInOrder
<1>8. CommandsInOrder'
  <2>1. ASSUME NEW c, Past(c, wire)
        PROVE  Past(c, client'.data) /\ Past(c, u)
    <3>1. Past(c, t)
      BY <1>5, <2>1 DEF Past
    <3>2. Past(c, <<>>)
      BY DEF Past
    <3>3. Past(c, u)
      BY <1>5, <2>1 DEF Past
    <3>4. QED
      BY <1>3, <3>1, <3>2, <3>3
  <2>2. \A c : Read(c) => Read(c)'
    BY <1>2, <1>3, <2>1 DEF Read
  <2>3. QED
    BY <1>2, <2>2 DEF Inv, CommandsInOrder
<1>9. Intact'
  <2>1. SUFFICES ASSUME AllWhole, IsLast(wire[k]) PROVE AllWhole'
    BY <1>2, <1>3 DEF Inv, Intact
  <2>2. Whole(wire, server.sent)
    BY <2>1 DEF AllWhole
  <2>3. wire[k][2] = Size(server.sent, wire[k][1]) /\ wire[k][2] \in Nat /\ wire[k][2] >= 3
    <3>1. wire[k][1] \in DOMAIN server.sent
      BY <1>4 DEF Known
    <3>2. server.sent[wire[k][1]] \in AllEvents
      BY <3>1, Types
    <3>3. PayloadSize[server.sent[wire[k][1]]] \in Nat
      BY <3>2, RecordingClientAssumption
    <3>4. QED
      BY <2>1, <3>3 DEF IsLast, Size
  <2>4. Whole(t, server.sent) /\ Whole(u, server.sent)
    BY <1>4, <2>2, <2>3, Types, CutWhole DEF t, u
  <2>5. ~(k < 2)
    <3>1. 1 \in 1..Size(server.sent, wire[k][1])
      BY <2>3
    <3>2. k - wire[k][2] + 1 \in DOMAIN wire
      BY <2>2, <3>1 DEF Whole
    <3>3. k - wire[k][2] + 1 >= 1
      BY <3>2, Types
    <3>4. QED
      BY <1>4, <2>3, <3>3
  <2>6. \A m : Begins(m, wire) => Begins(m, t) \/ Begins(m, u)
    BY <1>5 DEF Begins
  <2>7. \A m : ~Begins(m, client.data)
    BY <1>4 DEF Begins
  <2>8. \A c : Faithful(c) => Faithful(c)'
    BY <1>2 DEF Faithful
  <2>9. QED
    BY <1>2, <1>3, <2>1, <2>4, <2>5, <2>6, <2>7, <2>8 DEF AllWhole
<1>10. ExecutedAsSent'
  <2>1. ~client'.garbled => ~client.garbled
    BY <1>3
  <2>2. QED
    BY <1>2, <2>1 DEF Inv, ExecutedAsSent
<1>11. QED
  BY <1>6, <1>7, <1>8, <1>9, <1>10 DEF Inv, Intact

\* Where the parser gets to.
LEMMA Parsed ==
  ASSUME Inv, NEW event \in EventRead(client.data),
         NEW end \in PayloadEnd(client.data, event)
  PROVE  /\ event \in AllEvents
         /\ end \in 0..Len(client.data) /\ end \in Nat
         /\ Len(client.data) >= 3 => 3 \in DOMAIN client.data /\ 3 <= end
<1> DEFINE data == client.data
<1>1. /\ data \in Seq(Bytes) /\ Len(data) \in Nat /\ DOMAIN data = 1..Len(data)
      /\ Known(data, server.sent)
  BY Types DEF Inv, BytesInOrder
<1> HIDE DEF data
<1>2. event \in AllEvents
  <2>1. CASE Len(data) < 3
    BY <2>1, RecordingClientAssumption DEF EventRead, data
  <2>2. CASE ~(Len(data) < 3)
    <3>1. server.sent[data[3][1]] \in AllEvents
      <4>1. 3 \in DOMAIN data
        BY <1>1, <2>2
      <4>2. data[3][1] \in DOMAIN server.sent
        BY <1>1, <4>1 DEF Known
      <4>3. QED
        BY <4>2, Types
    <3>2. QED
      BY <2>2, <3>1 DEF EventRead, data
  <2>3. QED
    BY <2>1, <2>2
<1>3. PayloadSize[event] \in Nat
  BY <1>2, RecordingClientAssumption
<1>4. \/ Len(data) < 3 /\ end = Len(data)
      \/ ~(Len(data) < 3) /\ (end = 3 \/ end = Len(data))
      \/ /\ ~(Len(data) < 3) /\ PayloadSize[event] + 3 < Len(data)
         /\ end = PayloadSize[event] + 3
  BY DEF PayloadEnd, data
<1>5. QED
  BY <1>1, <1>2, <1>3, <1>4 DEF data

\* A turn of the parser posts the command it has read, if it knows one.
LEMMA ParseStep ==
  ASSUME Inv, client.main # "exited", ParseMessage
  PROVE  Inv'
<1> DEFINE data == client.data
           sent == server.sent
<1>1. PICK event \in EventRead(data) : \E end \in PayloadEnd(data, event) :
        LET rest    == SubSeq(data, end + 1, Len(data))
            whole   == IsWhole(data, end)
            command == [event |-> event, of |-> IF whole THEN data[3][1] ELSE 0]
        IN  /\ obs' = IF event = Unknown THEN obs
                      ELSE [obs EXCEPT !.posted = Append(obs.posted, command)]
            /\ client' = [client EXCEPT
                            !.main = IF rest = <<>> THEN "loop" ELSE "parse",
                            !.data = rest,
                            !.garbled = client.garbled \/ ~whole]
  BY DEF ParseMessage
<1>2. PICK end \in PayloadEnd(data, event) :
        LET rest    == SubSeq(data, end + 1, Len(data))
            whole   == IsWhole(data, end)
            command == [event |-> event, of |-> IF whole THEN data[3][1] ELSE 0]
        IN  /\ obs' = IF event = Unknown THEN obs
                      ELSE [obs EXCEPT !.posted = Append(obs.posted, command)]
            /\ client' = [client EXCEPT
                            !.main = IF rest = <<>> THEN "loop" ELSE "parse",
                            !.data = rest,
                            !.garbled = client.garbled \/ ~whole]
  BY <1>1
<1> DEFINE rest    == SubSeq(data, end + 1, Len(data))
           whole   == IsWhole(data, end)
<1>3. server' = server /\ wire' = wire /\ client.main = "parse"
  BY DEF ParseMessage
<1>4. /\ client'.data = rest
      /\ client'.garbled = (client.garbled \/ ~whole)
      /\ client'.main = (IF rest = <<>> THEN "loop" ELSE "parse")
  BY <1>2, Types DEF ClientType
<1>5. /\ event \in AllEvents /\ end \in 0..Len(data) /\ end \in Nat
      /\ Len(data) >= 3 => 3 \in DOMAIN data /\ 3 <= end
  BY Parsed
<1>6. /\ data \in Seq(Bytes) /\ Ordered(data) /\ Known(data, sent)
      /\ Ahead(data, wire) /\ sent \in Seq(AllEvents) /\ wire \in Seq(Bytes)
  BY Types DEF Inv, BytesInOrder
<1>7. /\ rest \in Seq(Bytes) /\ Ordered(rest) /\ Known(rest, sent)
      /\ Parts(data, end, SubSeq(data, 1, end), rest)
  BY <1>5, <1>6, Cut
<1>8. /\ whole \in BOOLEAN
      /\ whole => /\ Len(data) >= 3 /\ 3 \in DOMAIN data /\ 3 <= end
                  /\ data[3][2] = 3 /\ data[3][1] \in DOMAIN sent
                  /\ data[3][1] \in 1..Len(sent) /\ data[3][1] \in 1..MaxMessages
  <2>1. whole => Len(data) >= 3 /\ data[3][2] = 3
    BY DEF IsWhole
  <2>2. whole => 3 \in DOMAIN data /\ 3 <= end
    BY <1>5, <2>1
  <2>3. whole => data[3][1] \in DOMAIN sent /\ data[3][1] \in 1..MaxMessages
    BY <1>6, <2>2, ByteTypes DEF Known
  <2>4. whole \in BOOLEAN
    BY DEF IsWhole, IsLast
  <2>5. QED
    BY <1>6, <2>1, <2>2, <2>3, <2>4
<1>9. PICK command :
         command = [event |-> event, of |-> IF whole THEN data[3][1] ELSE 0]
  OBVIOUS
<1>10. /\ command.event = event
       /\ whole => command.of = data[3][1]
       /\ ~whole => command.of = 0
       /\ event # Unknown => command \in Commands
  <2>1. command.event = event /\ command.of = (IF whole THEN data[3][1] ELSE 0)
    BY <1>9
  <2>2. command.of \in 0..MaxMessages
    BY <1>8, <2>1, RecordingClientAssumption
  <2>3. QED
    BY <1>5, <1>9, <2>1, <2>2 DEF Commands
<1>11. /\ obs'.executed = obs.executed
       /\ obs'.posted = (IF event = Unknown THEN obs.posted
                         ELSE Append(obs.posted, command))
  BY <1>2, <1>9, Types DEF ObsType
<1> HIDE DEF rest, whole
<1>12. /\ obs'.posted \in Seq(Commands)
       /\ \A j \in DOMAIN obs.posted : /\ j \in DOMAIN obs'.posted
                                       /\ obs'.posted[j] = obs.posted[j]
       /\ event # Unknown => \E j \in DOMAIN obs'.posted : obs'.posted[j] = command
       /\ \A j \in DOMAIN obs'.posted :
            \/ j \in DOMAIN obs.posted
            \/ /\ event # Unknown /\ obs'.posted[j] = command
               /\ \A i \in DOMAIN obs'.posted : ~(j < i)
  <2>1. CASE event = Unknown
    BY <1>11, <2>1, Types
  <2>2. CASE event # Unknown
    <3> DEFINE n == Len(obs.posted)
    <3>1. n \in Nat /\ DOMAIN obs.posted = 1..n
      BY Types
    <3>2. /\ Append(obs.posted, command) \in Seq(Commands)
          /\ Len(Append(obs.posted, command)) = n + 1
          /\ \A j \in 1..n : Append(obs.posted, command)[j] = obs.posted[j]
          /\ Append(obs.posted, command)[n + 1] = command
      BY <1>10, <2>2, Types, AppendProperties
    <3>3. DOMAIN Append(obs.posted, command) = 1..(n + 1)
      BY <3>2
    <3> HIDE DEF n
    <3>4. QED
      BY <1>11, <2>2, <3>1, <3>2, <3>3
  <2>3. QED
    BY <2>1, <2>2
<1>13. TypeOK'
  <2>1. client' \in ClientType
    BY <1>2, <1>4, <1>7, <1>8, Types DEF ClientType, rest, whole
  <2>2. obs' \in ObsType
    BY <1>2, <1>11, <1>12, Types DEF ObsType
  <2>3. QED
    BY <1>3, <2>1, <2>2, Types DEF TypeOK
<1>14. BytesInOrder'
  <2>1. Ahead(rest, wire)
    BY <1>6, <1>7 DEF Ahead, Parts
  <2>2. client'.main # "parse" => client'.data = <<>>
    BY <1>4
  <2>3. QED
    BY <1>3, <1>4, <1>6, <1>7, <2>1, <2>2 DEF Inv, BytesInOrder
<1>15. CommandsInOrder'
  <2>1. ASSUME NEW c, Past(c, data)
        PROVE  Past(c, rest)
    BY <1>7, <2>1 DEF Past, Parts
  <2>2. \A c : Read(c) => Read(c)'
    BY <1>3, <1>4, <2>1 DEF Read
  <2>3. ASSUME whole
        PROVE  Past(command, rest) /\ Past(command, wire)
    <3>1. command.of = data[3][1] /\ data[3][2] = 3 /\ 3 \in DOMAIN data /\ 3 <= end
      BY <1>8, <1>10, <2>3
    <3>2. ASSUME NEW a \in DOMAIN rest
          PROVE  Before(data[3], rest[a])
      <4>1. PICK b \in DOMAIN data : end < b /\ rest[a] = data[b]
        BY <1>7 DEF Parts
      <4>2. 3 < b
        BY <1>5, <1>6, <3>1, <4>1
      <4>3. QED
        BY <1>6, <3>1, <4>1, <4>2 DEF Ordered
    <3>3. \A a \in DOMAIN wire : Before(data[3], wire[a])
      BY <1>6, <3>1 DEF Ahead
    <3>4. QED
      BY <3>1, <3>2, <3>3 DEF Past, Before
  <2>4. Read(command)'
    <3>1. CASE whole
      <4>1. command.of \in 0..Len(sent)
        BY <1>6, <1>8, <1>10, <3>1
      <4>2. QED
        BY <1>3, <1>4, <2>3, <3>1, <4>1 DEF Read
    <3>2. CASE ~whole
      <4>1. command.of = 0 /\ 0 \in 0..Len(sent)
        BY <1>6, <1>10, <3>2
      <4>2. QED
        BY <1>3, <1>4, <4>1 DEF Read, Past
    <3>3. QED
      BY <3>1, <3>2
  <2>5. ASSUME NEW c \in Commands, Read(c)
        PROVE  Sooner(c, command)
    <3>1. CASE whole
      <4>1. command.of = data[3][1] /\ data[3][2] = 3 /\ 3 \in DOMAIN data
        BY <1>8, <1>10, <3>1
      <4>2. c.of > 0 => Before(<<c.of, 3>>, data[3])
        BY <2>5, <4>1 DEF Read, Past
      <4>3. QED
        BY <4>1, <4>2 DEF Sooner, Before
    <3>2. CASE ~whole
      BY <1>10, <3>2 DEF Sooner
    <3>3. QED
      BY <3>1, <3>2
  <2>6. (\A j \in DOMAIN obs.posted : Read(obs.posted[j]))'
    BY <1>12, <2>2, <2>4 DEF Inv, CommandsInOrder
  <2>7. ASSUME NEW i \in DOMAIN obs'.posted, NEW j \in DOMAIN obs'.posted, i < j
        PROVE  Sooner(obs'.posted[i], obs'.posted[j])
    <3>1. i \in DOMAIN obs.posted /\ obs'.posted[i] = obs.posted[i]
      BY <1>12, <2>7
    <3>2. obs.posted[i] \in Commands /\ Read(obs.posted[i])
      BY <3>1, Types DEF Inv, CommandsInOrder
    <3>3. CASE j \in DOMAIN obs.posted
      BY <1>12, <2>7, <3>1, <3>3 DEF Inv, CommandsInOrder
    <3>4. CASE obs'.posted[j] = command
      BY <2>5, <3>1, <3>2, <3>4
    <3>5. QED
      BY <1>12, <3>3, <3>4
  <2>8. ASSUME NEW i \in DOMAIN obs.executed, NEW j \in DOMAIN obs'.posted
        PROVE  Sooner(obs.executed[i], obs'.posted[j])
    <3>1. obs.executed[i] \in Commands /\ Read(obs.executed[i])
      BY Types DEF Inv, CommandsInOrder
    <3>2. CASE j \in DOMAIN obs.posted
      BY <1>12, <3>2 DEF Inv, CommandsInOrder
    <3>3. CASE obs'.posted[j] = command
      BY <2>5, <3>1, <3>3
    <3>4. QED
      BY <1>12, <3>2, <3>3
  <2>9. QED
    BY <1>11, <2>2, <2>6, <2>7, <2>8 DEF Inv, CommandsInOrder
<1>16. Intact'
  <2>1. SUFFICES ASSUME AllWhole, whole PROVE AllWhole'
    BY <1>3, <1>4 DEF Inv, Intact
  <2> DEFINE m == data[3][1]
  <2>2. /\ m \in DOMAIN sent /\ data[3][2] = 3 /\ 3 \in DOMAIN data
        /\ Len(data) >= 3 /\ end \in DOMAIN data /\ Len(data) \in Nat
        /\ IsLast(data[end]) /\ Whole(data, sent)
    <3>1. end \in DOMAIN data
      BY <1>5, <1>6, <1>8, <2>1
    <3>2. IsLast(data[end])
      BY <2>1 DEF whole, IsWhole
    <3>3. QED
      BY <1>6, <1>8, <2>1, <3>1, <3>2 DEF AllWhole
  <2>3. Whole(rest, sent) /\ data[end][2] = Size(sent, data[end][1])
    <3>1. data[end][2] = Size(sent, data[end][1])
      BY <2>2 DEF IsLast, Size
    <3>2. QED
      BY <1>6, <2>2, <3>1, CutWhole DEF rest
  <2>4. Size(sent, m) \in Nat /\ Size(sent, m) >= 3
    <3>1. sent[m] \in AllEvents
      BY <1>6, <2>2
    <3>2. QED
      BY <3>1, RecordingClientAssumption DEF Size
  <2>5. \A k \in 1..Size(sent, m) : k \in DOMAIN data /\ data[k] = <<m, k>>
    <3>1. ASSUME NEW k \in 1..Size(sent, m)
          PROVE  k \in DOMAIN data /\ data[k] = <<m, k>>
      <4>1. 3 - data[3][2] + k \in DOMAIN data /\ data[3 - data[3][2] + k] = <<m, k>>
        BY <2>2 DEF Whole
      <4>2. 3 - data[3][2] + k = k
        BY <2>2, <2>4
      <4>3. QED
        BY <4>1, <4>2
    <3>2. QED
      BY <3>1
  <2>6. event = sent[m]
    BY <2>2 DEF EventRead
  <2>7. end = Size(sent, m)
    <3>1. Size(sent, m) <= Len(data)
      BY <1>6, <2>4, <2>5
    <3>2. CASE event = Unknown
      <4>1. end = 3
        BY <2>2, <3>2 DEF PayloadEnd
      <4>2. QED
        BY <2>3, <4>1, <2>2
    <3>3. CASE event # Unknown
      <4>1. PayloadSize[event] + 3 = Size(sent, m)
        BY <2>4, <2>6, <1>5, RecordingClientAssumption DEF Size
      <4>2. end = (IF PayloadSize[event] + 3 < Len(data) THEN PayloadSize[event] + 3
                   ELSE Len(data))
        BY <2>2, <3>3 DEF PayloadEnd
      <4>3. QED
        BY <2>2, <2>4, <3>1, <4>1, <4>2
    <3>4. QED
      BY <3>2, <3>3
  <2>8. ASSUME NEW x, Begins(x, data)
        PROVE  Begins(x, rest) \/ x = m
    <3>1. PICK a \in DOMAIN data : data[a] = <<x, 1>>
      BY <2>8 DEF Begins
    <3>2. CASE a <= end
      <4>1. a \in 1..Size(sent, m)
        BY <1>6, <2>4, <2>7, <3>1, <3>2
      <4>2. QED
        BY <2>5, <3>1, <4>1
    <3>3. CASE \E b \in DOMAIN rest : rest[b] = data[a]
      BY <3>1, <3>3 DEF Begins
    <3>4. QED
      BY <1>7, <3>2, <3>3 DEF Parts
  <2>9. \A c : Faithful(c) => Faithful(c)'
    BY <1>3 DEF Faithful
  <2>10. Faithful(command)'
    BY <1>3, <1>10, <2>1, <2>2, <2>6 DEF Faithful
  <2>11. (\A j \in DOMAIN obs.posted : Faithful(obs.posted[j]))'
    BY <1>12, <2>1, <2>9, <2>10 DEF AllWhole
  <2>12. \A x : Runs(x, obs.posted) => Runs(x, obs'.posted)
    BY <1>12 DEF Runs
  <2>13. event # Unknown => Runs(m, obs'.posted)
    BY <1>10, <1>12, <2>1 DEF Runs
  <2>14. ASSUME NEW x \in DOMAIN sent, sent[x] # Unknown
         PROVE  \/ Runs(x, obs.executed) \/ Runs(x, obs'.posted)
                \/ Begins(x, rest) \/ Begins(x, wire)
    <3>1. \/ Runs(x, obs.executed) \/ Runs(x, obs.posted)
          \/ Begins(x, data) \/ Begins(x, wire)
      BY <2>1, <2>14 DEF AllWhole
    <3>2. QED
      BY <2>6, <2>8, <2>12, <2>13, <2>14, <3>1
  <2>15. QED
    BY <1>3, <1>4, <1>11, <2>1, <2>3, <2>9, <2>11, <2>14 DEF AllWhole
<1>17. ExecutedAsSent'
  <2>1. ~client'.garbled => ~client.garbled
    BY <1>4
  <2>2. QED
    BY <1>3, <1>11, <2>1 DEF Inv, ExecutedAsSent
<1>18. QED
  BY <1>13, <1>14, <1>15, <1>16, <1>17 DEF Inv, Intact

LEMMA InvNext == Inv /\ [Next]_vars => Inv'
<1> SUFFICES ASSUME Inv, [Next]_vars PROVE Inv'
  OBVIOUS
<1>1. CASE UNCHANGED vars
  <2>1. BytesInOrder' /\ TypeOK'
    BY <1>1 DEF vars, Inv, BytesInOrder, TypeOK
  <2>2. CommandsInOrder'
    BY <1>1 DEF vars, Inv, CommandsInOrder, Read
  <2>3. Intact' /\ ExecutedAsSent'
    BY <1>1 DEF vars, Inv, Intact, AllWhole, Faithful, ExecutedAsSent
  <2>4. QED
    BY <2>1, <2>2, <2>3 DEF Inv, Intact
<1>2. CASE Next
  <2>1. client.main # "exited"
    BY <1>2 DEF Next
  <2>2. ASSUME NEW event \in AllEvents, SendCommand(event) PROVE Inv'
    BY <2>1, <2>2, SendCommandStep
  <2>3. CASE Close \/ SocketConnected
    BY <2>1, <2>3, SimpleSteps
  <2>4. CASE Main
    BY <2>1, <2>4, SimpleSteps, ReadStep, ParseStep, WaitedStep DEF Main
  <2>5. CASE ObsThread
    BY <2>1, <2>5, SimpleSteps, ExecuteStep DEF ObsThread
  <2>6. QED
    BY <1>2, <2>2, <2>3, <2>4, <2>5 DEF Next
<1>3. QED
  BY <1>1, <1>2

LEMMA Invariance == Spec => []Inv
<1>1. QED
  BY InvInit, InvNext, PTL DEF Spec

(***************************************************************************)
(* The results.                                                            *)
(***************************************************************************)
\* Every variable keeps its type: a read never indexes the server's messages
\* outside those it sent.
THEOREM TypeCorrect == Spec => []TypeOK
<1>1. Inv => TypeOK
  BY DEF Inv
<1>2. QED
  BY <1>1, Invariance, PTL

\* However the stream is cut, a message that is parsed whole is run at most
\* once, and in its turn.
THEOREM RunAtMostOnce == Spec => []NeverTwice
<1>1. Inv => NeverTwice
  BY DEF Inv, CommandsInOrder, Sooner, NeverTwice
<1>2. QED
  BY <1>1, Invariance, PTL

\* Whatever the sizes of the payloads and however many messages a read returns,
\* as long as none is cut the commands are run as they were sent.
THEOREM RunAsSent == Spec => []ExecutedAsSent
<1>1. Inv => ExecutedAsSent
  BY DEF Inv
<1>2. QED
  BY <1>1, Invariance, PTL
=============================================================================
