-------------------------- MODULE StreamQueueProofs --------------------------
(***************************************************************************)
(* Proofs about StreamQueue, for every set of kinds, thresholds and        *)
(* bounds.  First the types, the order in which packets leave, and the     *)
(* posts of send_sem.  They rest on what the loop of drop_frames computes, *)
(* which is proved of its recursive function with the theorems of          *)
(* Induction, and on an invariant in three parts: TypeOK, Control and      *)
(* Ordered.  Then the frames that are dropped: what is never dropped, that *)
(* what is dropped is counted, that what is sent can be decoded and that   *)
(* what may be dropped does not pile up.                                   *)
(***************************************************************************)
EXTENDS StreamQueue, Induction, SequenceTheorems, FiniteSetTheorems

\* The loop of drop_frames, unrolled: f[n] is what it kept of n packets.
Loop(f, s, K) ==
    /\ f[0] = <<>>
    /\ \A n \in 1..Len(s) : f[n] = IF s[n] \in K THEN Append(f[n - 1], s[n])
                                   ELSE f[n - 1]
    /\ Filter(s, K) = f[Len(s)]

\* Filter is well defined.
LEMMA FilterDef ==
  ASSUME NEW S, NEW s \in Seq(S), NEW K
  PROVE  \E f \in [0..Len(s) -> Seq(S)] : Loop(f, s, K)
<1> DEFINE N == Len(s)
           Rec(f) == [n \in 0..Len(s) |->
                        IF n = 0 THEN <<>>
                        ELSE IF s[n] \in K THEN Append(f[n - 1], s[n])
                        ELSE f[n - 1]]
           kept == CHOOSE f : f = Rec(f)
<1>1. N \in Nat /\ \A n \in 1..N : s[n] \in S
  BY LenProperties, ElementOfSeq
<1>2. PICK step : step = [n \in 1..N |-> [r \in Seq(S) |->
                            IF s[n] \in K THEN Append(r, s[n]) ELSE r]]
  OBVIOUS
<1>3. step \in Steps(N, Seq(S))
  <2>1. \A n \in 1..N : \A r \in Seq(S) : Append(r, s[n]) \in Seq(S)
    BY <1>1, AppendProperties
  <2>2. QED
    BY <1>2, <2>1 DEF Steps
<1>4. PICK f : Iterates(f, N, Seq(S), <<>>, step)
  <2>1. <<>> \in Seq(S)
    OBVIOUS
  <2> HIDE DEF N, Rec, kept
  <2>2. QED
    BY <1>1, <1>3, <2>1, Recursion
<1>5. f \in [0..N -> Seq(S)] /\ f[0] = <<>>
  BY <1>4 DEF Iterates
<1>6. \A n \in 1..N : f[n] = IF s[n] \in K THEN Append(f[n - 1], s[n]) ELSE f[n - 1]
  <2>1. \A n \in 1..N : f[n - 1] \in Seq(S)
    BY <1>1, <1>5
  <2>2. \A n \in 1..N : f[n] = step[n][f[n - 1]]
    BY <1>4 DEF Iterates
  <2>3. QED
    BY <1>2, <2>1, <2>2
<1>7. f = Rec(f)
  <2>1. \A n \in 0..N : n # 0 => n \in 1..N
    BY <1>1
  <2>2. QED
    BY <1>5, <1>6, <2>1
<1>8. kept = Rec(kept)
  <2> HIDE DEF Rec
  <2> QED BY <1>7
<1>9. kept = f
  <2> DEFINE same == {n \in 0..N : kept[n] = f[n]}
  <2>1. kept = [n \in 0..N |-> kept[n]] /\ f = [n \in 0..N |-> f[n]]
    <3> HIDE DEF kept
    <3> QED BY <1>5, <1>8
  <2>2. 0 \in same
    <3> HIDE DEF kept
    <3> QED BY <1>1, <1>5, <1>8
  <2>3. ASSUME NEW n \in 1..N, n - 1 \in same PROVE n \in same
    <3> HIDE DEF kept
    <3>1. n \in 0..N /\ n # 0
      BY <1>1
    <3>2. kept[n] = IF s[n] \in K THEN Append(kept[n - 1], s[n]) ELSE kept[n - 1]
      BY <1>8, <3>1
    <3>3. QED
      BY <1>6, <2>3, <3>1, <3>2
  <2>4. 0..N \subseteq same
    <3> HIDE DEF same, N
    <3> QED BY <1>1, <2>2, <2>3, SetInduction
  <2>5. QED
    <3> HIDE DEF kept
    <3> QED BY <2>1, <2>4
<1>10. Filter(s, K) = kept[N]
  BY DEF Filter
<1>11. QED
  <2> HIDE DEF kept, Rec
  <2> QED
  BY <1>5, <1>6, <1>9, <1>10 DEF Loop

\* e places the members of r among the first n of s, in their order.
Places(e, r, s, n) ==
    /\ e \in [1..Len(r) -> 1..n]
    /\ \A a \in 1..Len(r) : r[a] = s[e[a]] /\ a <= e[a]
    /\ \A a, b \in 1..Len(r) : a < b => e[a] < e[b]

\* r has the members of S that are in K and among the first n of s.
Chosen(r, s, n, K, S) ==
    \A i \in S : (\E a \in 1..Len(r) : r[a] = i) <=> i \in K /\ \E b \in 1..n : s[b] = i

\* The loop keeps what is in K, each in its place.
LEMMA LoopKeeps ==
  ASSUME NEW S, NEW s \in Seq(S), NEW K, NEW f \in [0..Len(s) -> Seq(S)],
         Loop(f, s, K), NEW n \in 0..Len(s)
  PROVE  (\E e : Places(e, f[n], s, n)) /\ Chosen(f[n], s, n, K, S)
<1> DEFINE N == Len(s)
           good == {m \in 0..N : /\ \E e : Places(e, f[m], s, m)
                                /\ Chosen(f[m], s, m, K, S)}
<1>1. N \in Nat /\ (\A m \in 1..N : s[m] \in S) /\ f[0] = <<>>
  BY LenProperties, ElementOfSeq DEF Loop
<1>2. 0 \in good
  <2>1. Places(<<>>, f[0], s, 0)
    BY <1>1 DEF Places
  <2>2. Chosen(f[0], s, 0, K, S)
    BY <1>1 DEF Chosen
  <2>3. QED
    BY <1>1, <2>1, <2>2
<1>3. ASSUME NEW m \in 1..N, m - 1 \in good PROVE m \in good
  <2> DEFINE r == f[m - 1]
  <2>1. m \in 0..N /\ m - 1 \in 0..N /\ r \in Seq(S) /\ s[m] \in S /\ Len(r) \in Nat
    BY <1>1
  <2>2. PICK e : Places(e, r, s, m - 1)
    BY <1>3
  <2>3. Chosen(r, s, m - 1, K, S)
    BY <1>3
  <2>4. CASE s[m] \notin K
    <3>1. f[m] = r
      BY <2>4 DEF Loop
    <3>2. Places(e, f[m], s, m)
      BY <2>1, <2>2, <3>1 DEF Places
    <3>3. Chosen(f[m], s, m, K, S)
      <4>1. 1..m = 1..(m - 1) \cup {m}
        BY <2>1
      <4>2. QED
        BY <2>1, <2>3, <2>4, <3>1, <4>1 DEF Chosen
    <3>4. QED
      BY <2>1, <3>2, <3>3
  <2>5. CASE s[m] \in K
    <3>1. f[m] = Append(r, s[m])
      BY <2>5 DEF Loop
    <3> HIDE DEF r
    <3>2. Len(f[m]) = Len(r) + 1 /\ f[m][Len(r) + 1] = s[m]
            /\ \A a \in 1..Len(r) : f[m][a] = r[a]
      BY <2>1, <3>1
    <3>3. PICK g : g = [a \in 1..(Len(r) + 1) |-> IF a = Len(r) + 1 THEN m ELSE e[a]]
      OBVIOUS
    <3>4. Len(r) <= m - 1
      <4>1. Len(r) > 0 => Len(r) <= e[Len(r)] /\ e[Len(r)] \in 1..(m - 1)
        BY <2>1, <2>2 DEF Places
      <4>2. QED
        BY <2>1, <4>1
    <3>5. Places(g, f[m], s, m)
      <4>1. \A a \in 1..Len(r) : e[a] \in 1..(m - 1) /\ e[a] < m /\ g[a] = e[a]
        BY <2>1, <2>2, <3>3 DEF Places
      <4>2. g[Len(r) + 1] = m
        BY <2>1, <3>3
      <4>3. \A a \in 1..(Len(r) + 1) : a = Len(r) + 1 \/ a \in 1..Len(r)
        BY <2>1
      <4>4. g \in [1..(Len(r) + 1) -> 1..m]
        <5>1. \A a \in 1..(Len(r) + 1) : g[a] \in 1..m
          <6>1. 1..(m - 1) \subseteq 1..m /\ m \in 1..m
            BY <2>1
          <6>2. QED
            BY <4>1, <4>2, <4>3, <6>1
        <5>2. QED
          BY <3>3, <5>1
      <4>5. \A a \in 1..(Len(r) + 1) : f[m][a] = s[g[a]] /\ a <= g[a]
        <5>1. \A a \in 1..Len(r) : r[a] = s[e[a]] /\ a <= e[a]
          BY <2>2 DEF Places
        <5>2. \A a \in 1..Len(r) : f[m][a] = s[g[a]] /\ a <= g[a]
          <6>1. \A a \in 1..Len(r) : f[m][a] = r[a] /\ g[a] = e[a]
            BY <3>2, <4>1
          <6>2. QED
            BY <5>1, <6>1
        <5>3. Len(r) + 1 <= m
          BY <2>1, <3>4
        <5>4. QED
          BY <3>2, <4>2, <4>3, <5>2, <5>3
      <4>6. \A a, b \in 1..(Len(r) + 1) : a < b => g[a] < g[b]
        <5> SUFFICES ASSUME NEW a \in 1..(Len(r) + 1), NEW b \in 1..(Len(r) + 1), a < b
                     PROVE  g[a] < g[b]
          OBVIOUS
        <5>1. a \in 1..Len(r) /\ (b = Len(r) + 1 \/ b \in 1..Len(r))
          <6>1. Len(r) \in Nat /\ a \in Nat /\ b \in Nat /\ a >= 1 /\ b <= Len(r) + 1
            BY <2>1
          <6>2. QED
            BY <6>1
        <5>2. b \in 1..Len(r) => e[a] < e[b]
          BY <2>2, <5>1 DEF Places
        <5>3. QED
          BY <4>1, <4>2, <5>1, <5>2
      <4>7. QED
        BY <3>2, <4>4, <4>5, <4>6 DEF Places
    <3>6. Chosen(f[m], s, m, K, S)
      <4> SUFFICES ASSUME NEW i \in S
                   PROVE  (\E a \in 1..Len(f[m]) : f[m][a] = i)
                            <=> i \in K /\ \E b \in 1..m : s[b] = i
        BY DEF Chosen
      <4>1. (\E a \in 1..Len(r) : r[a] = i) <=> i \in K /\ \E b \in 1..(m - 1) : s[b] = i
        BY <2>3 DEF Chosen
      <4>2. (\E a \in 1..Len(f[m]) : f[m][a] = i)
              <=> i = s[m] \/ \E a \in 1..Len(r) : r[a] = i
        <5>1. 1..Len(f[m]) = 1..Len(r) \cup {Len(r) + 1} /\ Len(r) + 1 \in 1..Len(f[m])
          BY <2>1, <3>2
        <5>2. QED
          BY <3>2, <5>1
      <4>3. (\E b \in 1..m : s[b] = i) <=> i = s[m] \/ \E b \in 1..(m - 1) : s[b] = i
        <5>1. 1..m = 1..(m - 1) \cup {m} /\ m \in 1..m
          BY <2>1
        <5>2. QED
          BY <5>1
      <4>4. QED
        BY <2>5, <4>1, <4>2, <4>3
    <3>7. QED
      BY <2>1, <3>5, <3>6
  <2>6. QED
    BY <2>4, <2>5
<1>4. 0..N \subseteq good
  <2> HIDE DEF good, N
  <2> QED BY <1>1, <1>2, <1>3, SetInduction
<1>5. QED
  BY <1>4

\* What Filter returns: a sequence of the members of s that are in K, each
\* no later than it was, in their order.
LEMMA FilterKeeps ==
  ASSUME NEW S, NEW s \in Seq(S), NEW K
  PROVE  /\ Filter(s, K) \in Seq(S)
         /\ Len(Filter(s, K)) <= Len(s)
         /\ ToSet(Filter(s, K)) = ToSet(s) \cap K
         /\ \E e : Places(e, Filter(s, K), s, Len(s))
<1> DEFINE N == Len(s)
           r == Filter(s, K)
<1>1. PICK f \in [0..N -> Seq(S)] : Loop(f, s, K)
  BY FilterDef
<1>2. N \in Nat /\ N \in 0..N /\ r = f[N] /\ r \in Seq(S) /\ Len(r) \in Nat
  BY <1>1 DEF Loop
<1>3. (\E e : Places(e, r, s, N)) /\ Chosen(r, s, N, K, S)
  <2> HIDE DEF r
  <2>1. (\E e : Places(e, f[N], s, N)) /\ Chosen(f[N], s, N, K, S)
    BY <1>1, <1>2, LoopKeeps
  <2>2. QED
    BY <1>2, <2>1
<1>4. ToSet(r) = ToSet(s) \cap K
  <2>1. \A a \in 1..Len(r) : r[a] \in S
    BY <1>2, ElementOfSeq
  <2>2. \A b \in 1..N : s[b] \in S
    BY ElementOfSeq
  <2>3. DOMAIN r = 1..Len(r) /\ DOMAIN s = 1..N
    BY <1>2
  <2> HIDE DEF r, N
  <2>4. QED
    BY <1>3, <2>1, <2>2, <2>3 DEF ToSet, Chosen
<1>5. Len(r) <= N
  <2>1. PICK e : Places(e, r, s, N)
    BY <1>3
  <2>2. Len(r) > 0 => Len(r) <= e[Len(r)] /\ e[Len(r)] \in 1..N
    BY <1>2, <2>1 DEF Places
  <2>3. QED
    BY <1>2, <2>2
<1>6. QED
  BY <1>2, <1>3, <1>4, <1>5
-----------------------------------------------------------------------------
(***************************************************************************)
(* The inductive invariant, in parts.                                      *)
(***************************************************************************)
\* What send_thread is about to send.
Outgoing == IF sender.pc = "send_packet" THEN {sender.packet} ELSE {}

\* The packets of the session that have not been dropped, and the last one
\* the callback has decided on.
Here == sent \cup Queued \cup Outgoing
Newest == IF producer.pc = "lock" THEN Len(produced) - 1 ELSE Len(produced)

\* How the threads' positions and the flags go together.
Control ==
    /\ sender.packet = Nobody <=> sender.pc # "send_packet"
    /\ producer.packet = Nobody <=> producer.pc = "idle"
    /\ producer.pc # "idle" => /\ conn.hooked
                               /\ producer.packet = Len(produced)
                               /\ conn.first <= Len(produced)
    /\ conn.first <= Len(produced) + 1
    /\ Len(produced) <= MaxPackets
    /\ conn.active <=> sender.pc # "dead"
    /\ sender.pc \in {"wait", "next_packet", "send_packet"} => ~conn.disconnected
    /\ queue.minPriority \in {0, 2, 3}

\* The packets of s were made in the order they have in s.
Rising(s) == \A a, b \in 1..Len(s) : a < b => s[a] < s[b]

\* What is in A was made before what is in B.
Before(A, B) == \A i \in A, j \in B : i < j

\* What was sent, what is being sent and what is queued, in this order, are
\* packets of the session in the order they were made.
Ordered ==
    /\ Rising(queue.packets)
    /\ Before(sent, Outgoing \cup Queued)
    /\ Before(Outgoing, Queued)
    /\ Here \subseteq conn.first..Newest

(***************************************************************************)
(* Queues of packets.                                                      *)
(***************************************************************************)
\* The first packet comes off.
LEMMA Taken ==
  ASSUME NEW s \in Seq(Packets), s # <<>>
  PROVE  /\ Head(s) \in Packets /\ Tail(s) \in Seq(Packets)
         /\ Len(s) \in Nat /\ Len(s) >= 1 /\ Len(Tail(s)) = Len(s) - 1
         /\ \A n \in 1..Len(Tail(s)) : Tail(s)[n] = s[n + 1]
         /\ ToSet(s) = {Head(s)} \cup ToSet(Tail(s))
         /\ Rising(s) => Rising(Tail(s)) /\ Before({Head(s)}, ToSet(Tail(s)))
<1>1. /\ Head(s) \in Packets /\ Tail(s) \in Seq(Packets)
      /\ Len(s) \in Nat /\ Len(s) >= 1 /\ Len(Tail(s)) = Len(s) - 1
      /\ \A n \in 1..Len(Tail(s)) : Tail(s)[n] = s[n + 1]
      /\ Head(s) = s[1]
  BY HeadTailProperties, LenProperties
<1>2. DOMAIN s = 1..Len(s) /\ DOMAIN Tail(s) = 1..Len(Tail(s))
  BY <1>1
<1>3. ToSet(s) = {Head(s)} \cup ToSet(Tail(s))
  <2>1. ASSUME NEW n \in 1..Len(s) PROVE s[n] \in {Head(s)} \cup ToSet(Tail(s))
    <3>1. n = 1 \/ (n - 1 \in 1..Len(Tail(s)) /\ s[n] = Tail(s)[n - 1])
      BY <1>1
    <3>2. QED
      BY <1>1, <1>2, <3>1 DEF ToSet
  <2>2. ASSUME NEW n \in 1..Len(Tail(s)) PROVE Tail(s)[n] \in ToSet(s)
    <3>1. n + 1 \in 1..Len(s)
      BY <1>1
    <3>2. QED
      BY <1>1, <1>2, <3>1 DEF ToSet
  <2>3. Head(s) \in ToSet(s)
    BY <1>1, <1>2 DEF ToSet
  <2>4. QED
    BY <1>2, <2>1, <2>2, <2>3 DEF ToSet
<1>4. ASSUME Rising(s) PROVE Rising(Tail(s)) /\ Before({Head(s)}, ToSet(Tail(s)))
  <2>1. \A n \in 1..Len(Tail(s)) : n + 1 \in 1..Len(s) /\ 1 \in 1..Len(s) /\ 1 < n + 1
    BY <1>1
  <2>2. \A n \in 1..Len(Tail(s)) : Head(s) < Tail(s)[n]
    BY <1>1, <1>4, <2>1 DEF Rising
  <2>3. \A a, b \in 1..Len(Tail(s)) : a < b => a + 1 < b + 1
    BY <1>1
  <2>4. \A a, b \in 1..Len(Tail(s)) : a < b => Tail(s)[a] < Tail(s)[b]
    BY <1>1, <1>4, <2>1, <2>3 DEF Rising
  <2>5. QED
    BY <1>2, <2>2, <2>4 DEF Rising, Before, ToSet
<1>5. QED
  BY <1>1, <1>3, <1>4

\* A packet goes to the end.
LEMMA Added ==
  ASSUME NEW s \in Seq(Packets), NEW i \in Packets
  PROVE  /\ Append(s, i) \in Seq(Packets)
         /\ Len(s) \in Nat /\ Len(Append(s, i)) = Len(s) + 1
         /\ \A n \in 1..Len(s) : Append(s, i)[n] = s[n]
         /\ Append(s, i)[Len(s) + 1] = i
         /\ ToSet(Append(s, i)) = ToSet(s) \cup {i}
         /\ Rising(s) /\ Before(ToSet(s), {i}) => Rising(Append(s, i))
<1> DEFINE r == Append(s, i)
<1>1. /\ r \in Seq(Packets) /\ Len(s) \in Nat /\ Len(r) = Len(s) + 1
      /\ \A n \in 1..Len(s) : r[n] = s[n]
      /\ r[Len(s) + 1] = i
  BY AppendProperties, LenProperties
<1>2. DOMAIN s = 1..Len(s) /\ DOMAIN r = 1..(Len(s) + 1)
  BY <1>1
<1>3. 1..(Len(s) + 1) = 1..Len(s) \cup {Len(s) + 1} /\ Len(s) + 1 \in 1..(Len(s) + 1)
  BY <1>1
<1>4. ToSet(r) = ToSet(s) \cup {i}
  <2> HIDE DEF r
  <2> QED BY <1>1, <1>2, <1>3 DEF ToSet
<1>5. ASSUME Rising(s), Before(ToSet(s), {i}) PROVE Rising(r)
  <2>1. \A n \in 1..Len(s) : s[n] < i
    BY <1>2, <1>5 DEF Before, ToSet
  <2> HIDE DEF r
  <2>2. ASSUME NEW a \in 1..Len(r), NEW b \in 1..Len(r), a < b PROVE r[a] < r[b]
    <3>1. a \in 1..Len(s) /\ (b = Len(s) + 1 \/ b \in 1..Len(s))
      BY <1>1, <2>2
    <3>2. b \in 1..Len(s) => s[a] < s[b]
      BY <1>5, <2>2, <3>1 DEF Rising
    <3>3. QED
      BY <1>1, <2>1, <3>1, <3>2
  <2>3. QED
    BY <2>2 DEF Rising
<1>6. QED
  BY <1>1, <1>4, <1>5

\* A queue in order has no packet twice.
LEMMA RisingSize ==
  ASSUME NEW s \in Seq(Packets), Rising(s)
  PROVE  IsFiniteSet(ToSet(s)) /\ Cardinality(ToSet(s)) = Len(s)
<1>1. Len(s) \in Nat /\ DOMAIN s = 1..Len(s) /\ s \in [1..Len(s) -> Packets]
  BY LenProperties
<1>2. ToSet(s) = {s[n] : n \in 1..Len(s)}
  BY <1>1 DEF ToSet
<1>3. \A a, b \in 1..Len(s) : s[a] = s[b] => a = b
  <2>1. \A a \in 1..Len(s) : s[a] \in Nat
    BY <1>1, ElementOfSeq DEF Packets
  <2>2. QED
    BY <1>1, <2>1 DEF Rising
<1>4. ExistsBijection(1..Len(s), ToSet(s))
  <2>1. s \in Bijection(1..Len(s), ToSet(s))
    <3>1. s \in [1..Len(s) -> ToSet(s)]
      BY <1>1, <1>2
    <3>2. \A t \in ToSet(s) : \E n \in 1..Len(s) : s[n] = t
      BY <1>2
    <3>3. QED
      BY <1>1, <1>3, <3>1, <3>2 DEF Bijection, Injection, Surjection, IsInjective
  <2>2. QED
    BY <2>1 DEF ExistsBijection
<1>5. IsFiniteSet(1..Len(s)) /\ Cardinality(1..Len(s)) = Len(s)
  BY <1>1, FS_Interval
<1>6. QED
  BY <1>4, <1>5, FS_Bijection

\* The order of the queue is kept by what is taken from it.
LEMMA PlacesRise ==
  ASSUME NEW s \in Seq(Packets), NEW r \in Seq(Packets), NEW e,
         Places(e, r, s, Len(s)), Rising(s)
  PROVE  Rising(r)
<1>1. \A a \in 1..Len(r) : r[a] = s[e[a]] /\ e[a] \in 1..Len(s)
  BY DEF Places
<1>2. QED
  BY <1>1 DEF Rising, Places
-----------------------------------------------------------------------------
(***************************************************************************)
(* Dropping frames.                                                        *)
(***************************************************************************)
\* The type of the queue: packets and the fields drop_frames changes.
QueueType ==
    [packets : Seq(Packets), minPriority : 0..3, lastDts : Nat, dropped : Nat]

\* r is q without some frames of low priority, which it counts.
Thinned(q, r) ==
    /\ r \in QueueType
    /\ r.lastDts = q.lastDts
    /\ r.minPriority \in {q.minPriority, 2, 3} /\ r.minPriority >= q.minPriority
    /\ Len(r.packets) + r.dropped = Len(q.packets) + q.dropped
    /\ ToSet(r.packets) \subseteq ToSet(q.packets)
    /\ \A i \in ToSet(q.packets) \ ToSet(r.packets) :
         ~Audio(i) /\ DropPriority(i) < r.minPriority
    /\ \E e : Places(e, r.packets, q.packets, Len(q.packets))

\* A priority is 0, 2 or 3: what minPriority may become (drop_priority).
LEMMA Priorities == \A i : DropPriority(i) \in {0, 2, 3}
BY DEF DropPriority

\* A check that drops nothing thins the queue.
LEMMA ThinnedSelf ==
  ASSUME NEW q \in QueueType
  PROVE  Thinned(q, q)
<1>1. /\ q.packets \in Seq(Packets) /\ q.minPriority \in Nat
      /\ Len(q.packets) \in Nat
  BY LenProperties DEF QueueType
<1>2. Places([a \in 1..Len(q.packets) |-> a], q.packets, q.packets, Len(q.packets))
  BY <1>1 DEF Places
<1>3. QED
  BY <1>1, <1>2 DEF Thinned

\* So do two drops, one after the other.
LEMMA ThinnedTwice ==
  ASSUME NEW q \in QueueType, NEW r, NEW u, Thinned(q, r), Thinned(r, u)
  PROVE  Thinned(q, u)
<1> DEFINE s == q.packets
           t == r.packets
           v == u.packets
<1>1. /\ s \in Seq(Packets) /\ t \in Seq(Packets) /\ v \in Seq(Packets)
      /\ Len(s) \in Nat /\ Len(t) \in Nat /\ Len(v) \in Nat
  BY LenProperties DEF QueueType, Thinned
<1>2. \E e : Places(e, v, s, Len(s))
  <2>1. PICK d : Places(d, t, s, Len(s))
    BY DEF Thinned
  <2>2. PICK e : Places(e, v, t, Len(t))
    BY DEF Thinned
  <2>3. PICK g : g = [a \in 1..Len(v) |-> d[e[a]]]
    OBVIOUS
  <2> HIDE DEF s, t, v
  <2>4. \A a \in 1..Len(v) : /\ e[a] \in 1..Len(t) /\ v[a] = t[e[a]] /\ a <= e[a]
                             /\ g[a] = d[e[a]]
    BY <2>2, <2>3 DEF Places
  <2>5. \A a \in 1..Len(t) : d[a] \in 1..Len(s) /\ t[a] = s[d[a]] /\ a <= d[a]
    BY <2>1 DEF Places
  <2>6. \A a \in 1..Len(v) : /\ g[a] \in 1..Len(s) /\ v[a] = s[g[a]] /\ a <= g[a]
    BY <1>1, <2>4, <2>5
  <2>7. \A a, b \in 1..Len(v) : a < b => g[a] < g[b]
    BY <2>1, <2>2, <2>4 DEF Places
  <2>8. g \in [1..Len(v) -> 1..Len(s)]
    BY <2>3, <2>6
  <2>9. Places(g, v, s, Len(s))
    BY <2>6, <2>7, <2>8 DEF Places
  <2>10. QED
    BY <2>9
<1>3. ASSUME NEW i \in ToSet(s) \ ToSet(v)
      PROVE  ~Audio(i) /\ DropPriority(i) < u.minPriority
  <2>1. r.minPriority \in 0..3 /\ u.minPriority \in 0..3 /\ r.minPriority <= u.minPriority
    BY DEF Thinned, QueueType
  <2>2. DropPriority(i) \in Nat
    BY Priorities
  <2>3. CASE i \in ToSet(t)
    BY <2>3 DEF Thinned
  <2>4. CASE i \notin ToSet(t)
    <3>1. ~Audio(i) /\ DropPriority(i) < r.minPriority
      BY <2>4 DEF Thinned
    <3>2. QED
      BY <2>1, <2>2, <3>1
  <2>5. QED
    BY <2>3, <2>4
<1>4. ToSet(v) \subseteq ToSet(s)
  BY DEF Thinned
<1>5. /\ q.minPriority \in 0..3 /\ r.minPriority \in 0..3 /\ u.minPriority \in 0..3
      /\ q.dropped \in Nat /\ r.dropped \in Nat /\ u.dropped \in Nat
  BY DEF Thinned, QueueType
<1>6. Len(v) + u.dropped = Len(s) + q.dropped
  BY DEF Thinned
<1>7. u.minPriority \in {q.minPriority, 2, 3} /\ u.minPriority >= q.minPriority
  BY <1>5 DEF Thinned
<1>8. u.lastDts = q.lastDts /\ u \in QueueType
  BY DEF Thinned
<1>9. QED
  BY <1>2, <1>3, <1>4, <1>6, <1>7, <1>8 DEF Thinned

\* drop_frames keeps audio and the frames of the priority, in order, and
\* counts the others.
LEMMA DropThins ==
  ASSUME NEW q \in QueueType, NEW p \in {2, 3}
  PROVE  /\ Thinned(q, DropFrames(q, p))
         /\ \A i \in ToSet(DropFrames(q, p).packets) : Audio(i) \/ DropPriority(i) >= p
         /\ DropFrames(q, p).minPriority >= p
<1> DEFINE r == DropFrames(q, p)
           s == q.packets
           rest == Filter(s, Kept(q, p))
<1>1. /\ s \in Seq(Packets) /\ q.minPriority \in 0..3 /\ Len(s) \in Nat
      /\ q.lastDts \in Nat /\ q.dropped \in Nat
  BY LenProperties DEF QueueType
<1>2. /\ rest \in Seq(Packets) /\ Len(rest) <= Len(s) /\ Len(rest) \in Nat
      /\ ToSet(rest) = ToSet(s) \cap Kept(q, p)
      /\ \E e : Places(e, rest, s, Len(s))
  <2> HIDE DEF s
  <2>1. PICK K : K = Kept(q, p)
    OBVIOUS
  <2>2. /\ Filter(s, K) \in Seq(Packets) /\ Len(Filter(s, K)) <= Len(s)
        /\ ToSet(Filter(s, K)) = ToSet(s) \cap K
        /\ \E e : Places(e, Filter(s, K), s, Len(s))
    BY <1>1, FilterKeeps
  <2>3. QED
    BY <2>1, <2>2, LenProperties
<1>3. /\ r.packets = rest /\ r.lastDts = q.lastDts
      /\ r.minPriority = IF q.minPriority < p THEN p ELSE q.minPriority
      /\ r.dropped = q.dropped + Len(s) - Len(rest)
  <2> HIDE DEF rest
  <2> QED BY DEF DropFrames, QueueType, rest
<1>4. r \in QueueType
  <2>1. q.dropped + Len(s) - Len(rest) \in Nat
    <3> HIDE DEF rest, s
    <3> QED BY <1>1, <1>2
  <2>2. r = [q EXCEPT !.packets = rest,
                      !.minPriority = IF @ < p THEN p ELSE @,
                      !.dropped = @ + Len(q.packets) - Len(rest)]
    BY DEF DropFrames
  <2> HIDE DEF rest, r
  <2>3. (IF q.minPriority < p THEN p ELSE q.minPriority) \in 0..3
    BY <1>1
  <2>4. QED
    BY <1>1, <1>2, <2>1, <2>2, <2>3 DEF QueueType
<1> HIDE DEF r, rest
<1>5. \A i \in ToSet(r.packets) : Audio(i) \/ DropPriority(i) >= p
  BY <1>2, <1>3 DEF Kept
<1>6. \A i \in ToSet(s) \ ToSet(r.packets) : ~Audio(i) /\ DropPriority(i) < r.minPriority
  <2>1. p <= r.minPriority /\ r.minPriority \in Nat
    BY <1>1, <1>3
  <2>2. \A i \in ToSet(s) \ ToSet(r.packets) : ~Audio(i) /\ ~(DropPriority(i) >= p)
    BY <1>2, <1>3 DEF Kept
  <2>3. QED
    BY <2>1, <2>2, Priorities
<1>7. Thinned(q, r)
  <2>1. Len(r.packets) + r.dropped = Len(s) + q.dropped
    BY <1>1, <1>2, <1>3
  <2>2. r.minPriority \in {q.minPriority, 2, 3} /\ r.minPriority >= q.minPriority
    BY <1>1, <1>3
  <2>3. QED
    BY <1>2, <1>3, <1>4, <1>6, <2>1, <2>2 DEF Thinned
<1>8. QED
  BY <1>1, <1>3, <1>5, <1>7 DEF r

\* check_to_drop_frames drops nothing or calls drop_frames.
LEMMA CheckThins ==
  ASSUME NEW q \in QueueType, NEW t, NEW p \in {2, 3}
  PROVE  Thinned(q, CheckToDropFrames(q, t, p))
<1>1. CheckToDropFrames(q, t, p) \in {q, DropFrames(q, p)}
  BY DEF CheckToDropFrames
<1>2. QED
  BY <1>1, ThinnedSelf, DropThins

\* Both checks together.
LEMMA CheckedThins ==
  ASSUME NEW q \in QueueType
  PROVE  Thinned(q, Checked(q))
<1> DEFINE r == CheckToDropFrames(q, BDrop, 2)
           u == CheckToDropFrames(r, PDrop, 3)
<1>1. Thinned(q, r)
  BY CheckThins
<1>2. r \in QueueType
  BY <1>1 DEF Thinned
<1>3. Thinned(r, u)
  <2> HIDE DEF r
  <2> QED BY <1>2, CheckThins
<1>4. Checked(q) = u
  BY DEF Checked
<1>5. QED
  <2> HIDE DEF r, u
  <2> QED BY <1>1, <1>3, <1>4, ThinnedTwice
-----------------------------------------------------------------------------
(***************************************************************************)
(* A step of the callback, by its outcome.                                 *)
(***************************************************************************)
\* The queue after the checks made for the packet in hand.
Considered == IF Audio(producer.packet) THEN queue ELSE Checked(queue)

\* add_video_packet drops the frame it was called with.
TurnedAway ==
    /\ ~conn.disconnected
    /\ ~Audio(producer.packet) /\ DropPriority(producer.packet) < Considered.minPriority
    /\ queue' = [Considered EXCEPT !.dropped = @ + 1]
    /\ producer' = [pc |-> "idle", packet |-> Nobody]

\* add_packet: the packet goes to the end of the queue.
TakenIn ==
    /\ ~conn.disconnected
    /\ Audio(producer.packet) \/ DropPriority(producer.packet) >= Considered.minPriority
    /\ queue'.packets = Append(Considered.packets, producer.packet)
    /\ queue'.minPriority = IF Audio(producer.packet) THEN Considered.minPriority ELSE 0
    /\ queue'.lastDts = IF Audio(producer.packet) THEN Considered.lastDts
                        ELSE Dts(producer.packet)
    /\ queue'.dropped = Considered.dropped
    /\ producer' = [pc |-> "post", packet |-> producer.packet]

\* A session has finitely many frames, so that dts_usec is a number.
LEMMA FramesFinite ==
  ASSUME TypeOK, NEW i \in Nat
  PROVE  IsFiniteSet(Frames(i)) /\ Dts(i) \in Nat
<1>1. conn.first \in Nat
  BY DEF TypeOK, ConnType
<1>2. IsFiniteSet(conn.first..i) /\ Frames(i) \subseteq conn.first..i
  BY <1>1, FS_Interval DEF Frames
<1>3. IsFiniteSet(Frames(i))
  BY <1>2, FS_Subset
<1>4. QED
  BY <1>3, FS_CardinalityType DEF Dts

\* The queue holds finitely many packets, all of the type.
LEMMA QueueTyped ==
  ASSUME TypeOK
  PROVE  /\ queue \in QueueType
         /\ queue.packets \in Seq(Packets) /\ Len(queue.packets) \in Nat
         /\ queue.minPriority \in 0..3 /\ queue.lastDts \in Nat /\ queue.dropped \in Nat
         /\ Queued \subseteq Packets
         /\ produced \in Seq(Kinds) /\ Len(produced) \in Nat
<1>1. queue \in QueueType /\ produced \in Seq(Kinds)
  BY DEF TypeOK, QueueType
<1>2. /\ queue.packets \in Seq(Packets)
      /\ queue.minPriority \in 0..3 /\ queue.lastDts \in Nat /\ queue.dropped \in Nat
  BY <1>1 DEF QueueType
<1>3. Len(queue.packets) \in Nat /\ Len(produced) \in Nat
  BY <1>1, <1>2, LenProperties
<1>4. Queued \subseteq Packets
  BY <1>2, ElementOfSeq, LenProperties DEF Queued, ToSet
<1>5. QED
  BY <1>1, <1>2, <1>3, <1>4

\* What AddPacket does: the connection is gone, or the checks are made and the
\* packet is turned away or taken in.
LEMMA AddPacketOutcome ==
  ASSUME TypeOK, Control, AddPacket
  PROVE  /\ producer.packet = Len(produced) /\ producer.packet \in Packets
         /\ Thinned(queue, Considered)
         /\ queue' \in QueueType
         /\ \/ /\ conn.disconnected /\ queue' = queue
               /\ producer' = [pc |-> "idle", packet |-> Nobody]
            \/ TurnedAway
            \/ TakenIn
<1> DEFINE i == producer.packet
           q == Considered
<1>1. i = Len(produced) /\ i \in Packets /\ i \in Nat
  <2>1. producer.pc = "lock" /\ i = Len(produced) /\ i \in Packets \cup {Nobody}
    BY DEF AddPacket, Control, TypeOK
  <2>2. i # Nobody
    BY <2>1 DEF Control
  <2>3. QED
    BY <2>1, <2>2 DEF Packets
<1>2. queue \in QueueType
  BY QueueTyped
<1>3. Thinned(queue, q) /\ q \in QueueType
  <2>1. Thinned(queue, queue) /\ Thinned(queue, Checked(queue))
    BY <1>2, ThinnedSelf, CheckedThins
  <2>2. q \in {queue, Checked(queue)}
    BY DEF Considered
  <2>3. QED
    BY <2>1, <2>2 DEF Thinned
<1>4. CASE conn.disconnected
  <2>1. queue' = queue /\ producer' = [pc |-> "idle", packet |-> Nobody]
    BY <1>4 DEF AddPacket
  <2>2. QED
    BY <1>1, <1>2, <1>3, <1>4, <2>1
<1>5. CASE ~conn.disconnected /\ ~(Audio(i) \/ DropPriority(i) >= q.minPriority)
  <2>1. queue' = [q EXCEPT !.dropped = @ + 1]
        /\ producer' = [pc |-> "idle", packet |-> Nobody]
    BY <1>5 DEF AddPacket, Considered
  <2>2. DropPriority(i) < q.minPriority
    BY <1>3, <1>5, Priorities DEF QueueType
  <2> HIDE DEF q
  <2>3. queue' \in QueueType
    BY <1>3, <2>1 DEF QueueType
  <2>4. TurnedAway
    BY <1>5, <2>1, <2>2 DEF TurnedAway, q
  <2>5. QED
    BY <1>1, <1>3, <2>3, <2>4 DEF q
<1>6. CASE ~conn.disconnected /\ (Audio(i) \/ DropPriority(i) >= q.minPriority)
  <2>1. /\ queue' = [q EXCEPT !.packets = Append(@, i),
                              !.minPriority = IF Audio(i) THEN @ ELSE 0,
                              !.lastDts = IF Audio(i) THEN @ ELSE Dts(i)]
        /\ producer' = [producer EXCEPT !.pc = "post"]
    BY <1>6 DEF AddPacket, Considered
  <2>2. producer' = [pc |-> "post", packet |-> i]
    BY <2>1 DEF TypeOK
  <2> HIDE DEF q
  <2>3. Dts(i) \in Nat /\ Append(q.packets, i) \in Seq(Packets)
    BY <1>1, <1>3, FramesFinite, Added DEF QueueType
  <2>4. /\ queue'.packets = Append(q.packets, i)
        /\ queue'.minPriority = IF Audio(i) THEN q.minPriority ELSE 0
        /\ queue'.lastDts = IF Audio(i) THEN q.lastDts ELSE Dts(i)
        /\ queue'.dropped = q.dropped
    BY <1>3, <2>1 DEF QueueType
  <2>5. queue' \in QueueType
    <3>1. PICK p : p = IF Audio(i) THEN q.minPriority ELSE 0
      OBVIOUS
    <3>2. PICK d : d = IF Audio(i) THEN q.lastDts ELSE Dts(i)
      OBVIOUS
    <3>3. p \in 0..3 /\ d \in Nat
      BY <1>3, <2>3, <3>1, <3>2 DEF QueueType
    <3>4. queue' = [q EXCEPT !.packets = Append(q.packets, i), !.minPriority = p, !.lastDts = d]
      BY <1>3, <2>1, <3>1, <3>2 DEF QueueType
    <3>5. QED
      BY <1>3, <2>3, <3>3, <3>4 DEF QueueType
  <2>6. TakenIn
    BY <1>6, <2>2, <2>4 DEF TakenIn, q
  <2>7. QED
    BY <1>1, <1>3, <2>5, <2>6 DEF q
<1>7. QED
  BY <1>4, <1>5, <1>6

-----------------------------------------------------------------------------
(***************************************************************************)
(* Types.                                                                  *)
(***************************************************************************)
\* Types and control at the start.
LEMMA TypeInit == Init => TypeOK /\ Control
<1> SUFFICES ASSUME Init PROVE TypeOK /\ Control
  OBVIOUS
<1>1. produced = <<>> /\ Len(produced) = 0 /\ <<>> \in Seq(Packets) /\ <<>> \in Seq(Kinds)
  BY DEF Init
<1>2. conn \in ConnType
  BY StreamAssumption DEF Init, ConnType
<1>3. TypeOK
  BY <1>1, <1>2 DEF Init, TypeOK, SenderLabels
<1>4. Control
  BY <1>1, StreamAssumption DEF Init, Control
<1>5. QED
  BY <1>3, <1>4

\* Every step of the callback, of send_thread and of libobs keeps the types.
LEMMA TypeStep == TypeOK /\ Control /\ [Next]_vars => TypeOK'
<1> SUFFICES ASSUME TypeOK, Control, [Next]_vars PROVE TypeOK'
  OBVIOUS
<1> USE StreamAssumption
<1>1. ASSUME NEW kind \in Kinds, Produce(kind) PROVE TypeOK'
  <2>1. Append(produced, kind) \in Seq(Kinds)
    BY QueueTyped, AppendProperties
  <2>2. Len(produced) + 1 \in Packets
    BY <1>1, QueueTyped DEF Produce, Packets
  <2>3. producer' \in [pc : {"idle", "lock", "post"}, packet : Packets \cup {Nobody}]
    BY <1>1, <2>2 DEF Produce, TypeOK
  <2>4. QED
    BY <1>1, <2>1, <2>3 DEF Produce, TypeOK
<1>2. CASE AddPacket
  <2>1. queue' \in QueueType /\ producer.packet \in Packets
    BY <1>2, AddPacketOutcome
  <2>2. producer' \in [pc : {"idle", "lock", "post"}, packet : Packets \cup {Nobody}]
    BY <1>2, <2>1, AddPacketOutcome DEF TurnedAway, TakenIn
  <2>3. QED
    BY <1>2, <2>1, <2>2 DEF AddPacket, TypeOK, QueueType
<1>3. CASE Post
  BY <1>3 DEF Post, TypeOK
<1>4. CASE SendWait
  <2>1. sem' \in Nat
    BY <1>4 DEF SendWait, TypeOK
  <2>2. sender' \in [pc : SenderLabels, packet : Packets \cup {Nobody}]
    BY <1>4 DEF SendWait, TypeOK, SenderLabels
  <2>3. QED
    BY <1>4, <2>1, <2>2 DEF SendWait, Sending, TypeOK
<1>5. CASE GetNextPacket
  <2>1. CASE queue.packets = <<>>
    BY <1>5, <2>1 DEF GetNextPacket, Sending, TypeOK, SenderLabels
  <2>2. CASE queue.packets # <<>>
    <3>1. Head(queue.packets) \in Packets /\ Tail(queue.packets) \in Seq(Packets)
      BY <2>2, QueueTyped, Taken
    <3>2. queue' \in QueueType
      <4>1. queue' = [queue EXCEPT !.packets = Tail(queue.packets)]
        BY <1>5, <2>2 DEF GetNextPacket
      <4>2. QED
        BY <3>1, <4>1, QueueTyped DEF QueueType
    <3>3. QED
      BY <1>5, <2>2, <3>1, <3>2 DEF GetNextPacket, Sending, TypeOK, SenderLabels, QueueType
  <2>3. QED
    BY <2>1, <2>2
<1>6. CASE CanShutdownStream
  BY <1>6 DEF CanShutdownStream, Sending, TypeOK, SenderLabels
<1>7. CASE SendPacket
  <2>1. sender.packet \in Packets
    BY <1>7 DEF SendPacket, Control, TypeOK
  <2>2. QED
    BY <1>7, <2>1 DEF SendPacket, Sending, TypeOK, SenderLabels
<1>8. CASE SendFails
  BY <1>8 DEF SendFails, Sending, TypeOK, SenderLabels, ConnType
<1>9. CASE Close
  BY <1>9 DEF Close, Sending, TypeOK, SenderLabels, ConnType
<1>10. CASE FreePackets
  <2>1. queue' \in QueueType
    <3>1. queue' = [queue EXCEPT !.packets = <<>>] /\ <<>> \in Seq(Packets)
      BY <1>10 DEF FreePackets
    <3>2. QED
      BY <3>1, QueueTyped DEF QueueType
  <2>2. QED
    BY <1>10, <2>1 DEF FreePackets, Sending, TypeOK, SenderLabels, QueueType
<1>11. CASE Reset
  BY <1>11 DEF Reset, Sending, TypeOK, SenderLabels, ConnType
<1>12. ASSUME NEW force \in BOOLEAN, Stop(force) PROVE TypeOK'
  <2>1. Len(produced) + 1 \in Nat
    BY QueueTyped
  <2>2. conn' \in ConnType
    BY <1>12, <2>1 DEF Stop, TypeOK, ConnType
  <2>3. QED
    BY <1>12, <2>2 DEF Stop, TypeOK
<1>13. CASE OpenSession
  <2>1. queue' \in QueueType
    <3>1. /\ queue' = [queue EXCEPT !.packets = <<>>, !.minPriority = 0, !.dropped = 0]
          /\ <<>> \in Seq(Packets)
      BY <1>13 DEF OpenSession
    <3>2. queue \in QueueType /\ 0 \in 0..3 /\ 0 \in Nat
      BY QueueTyped
    <3>3. QED
      BY <3>1, <3>2 DEF QueueType
  <2>2. conn' \in ConnType
    <3>1. Len(produced) + 1 \in Nat \ {0} /\ conn.sessions + 1 \in 0..MaxSessions
      BY <1>13, QueueTyped DEF OpenSession, TypeOK, ConnType
    <3>2. QED
      BY <1>13, <3>1 DEF OpenSession, TypeOK, ConnType
  <2>3. QED
    BY <1>13, <2>1, <2>2 DEF OpenSession, TypeOK, SenderLabels, QueueType
<1>14. CASE Unhook
  BY <1>14 DEF Unhook, TypeOK, ConnType
<1>15. CASE UNCHANGED vars
  BY <1>15 DEF vars, TypeOK
<1>16. QED
  BY <1>1, <1>2, <1>3, <1>4, <1>5, <1>6, <1>7, <1>8, <1>9, <1>10, <1>11, <1>12,
     <1>13, <1>14, <1>15 DEF Next, ProducerStep, SenderStep

\* Every step keeps the flags in agreement with where the threads are.
LEMMA ControlStep == TypeOK /\ Control /\ [Next]_vars => Control'
<1> SUFFICES ASSUME TypeOK, Control, [Next]_vars PROVE Control'
  OBVIOUS
<1>0. /\ Len(produced) \in Nat /\ produced \in Seq(Kinds)
      /\ conn.first \in Nat /\ Nobody \notin Nat /\ MaxPackets \in Nat
      /\ sender.packet \in Packets \cup {Nobody} /\ sender.pc \in SenderLabels
  BY QueueTyped, StreamAssumption DEF TypeOK, ConnType
<1>1. ASSUME NEW kind \in Kinds, Produce(kind) PROVE Control'
  <2>1. Len(produced') = Len(produced) + 1
    BY <1>0, <1>1, AppendProperties DEF Produce
  <2>2. Len(produced) + 1 <= MaxPackets
    BY <1>0, <1>1 DEF Produce
  <2>3. producer.pc = "idle" /\ producer.packet = Nobody /\ conn.hooked
    BY <1>1 DEF Produce, Control
  <2>4. producer' \in {producer, [pc |-> "lock", packet |-> Len(produced) + 1]}
    BY <1>1 DEF Produce
  <2>5. conn' = conn /\ sender' = sender /\ queue' = queue
    BY <1>1 DEF Produce
  <2>6. QED
    BY <1>0, <2>1, <2>2, <2>3, <2>4, <2>5 DEF Control
<1>2. CASE AddPacket
  <2>1. producer.pc = "lock" /\ conn' = conn /\ sender' = sender /\ produced' = produced
    BY <1>2 DEF AddPacket
  <2>2. Considered.minPriority \in {0, 2, 3}
    BY <1>2, AddPacketOutcome DEF Thinned, Control
  <2>3. queue'.minPriority \in {0, 2, 3}
    <3>1. Considered \in QueueType
      BY <1>2, AddPacketOutcome DEF Thinned
    <3>2. TurnedAway => queue'.minPriority = Considered.minPriority
      BY <3>1 DEF TurnedAway, QueueType
    <3>3. TakenIn => queue'.minPriority \in {Considered.minPriority, 0}
      BY DEF TakenIn
    <3>4. QED
      BY <1>2, <2>2, <3>2, <3>3, AddPacketOutcome DEF Control
  <2>4. \/ producer' = [pc |-> "idle", packet |-> Nobody]
        \/ producer' = [pc |-> "post", packet |-> producer.packet]
    BY <1>2, AddPacketOutcome DEF TurnedAway, TakenIn
  <2>5. producer.packet # Nobody
    BY <2>1 DEF Control
  <2>6. QED
    BY <2>1, <2>3, <2>4, <2>5 DEF Control
<1>3. CASE Post
  BY <1>3 DEF Post, Control
<1>4. CASE SendWait
  BY <1>4 DEF SendWait, Sending, Control, TypeOK
<1>5. CASE GetNextPacket
  <2>1. CASE queue.packets = <<>>
    BY <1>5, <2>1 DEF GetNextPacket, Sending, Control, TypeOK
  <2>2. CASE queue.packets # <<>>
    <3>1. Head(queue.packets) \in Packets /\ queue'.minPriority = queue.minPriority
      BY <1>5, <2>2, QueueTyped, Taken DEF GetNextPacket, QueueType
    <3>2. Head(queue.packets) # Nobody
      BY <1>0, <3>1 DEF Packets
    <3>3. QED
      BY <1>5, <2>2, <3>1, <3>2 DEF GetNextPacket, Sending, Control
  <2>3. QED
    BY <2>1, <2>2
<1>6. CASE CanShutdownStream
  BY <1>6 DEF CanShutdownStream, Sending, Control
<1>7. CASE SendPacket
  BY <1>7 DEF SendPacket, Sending, Control
<1>8. CASE SendFails
  BY <1>8 DEF SendFails, Sending, Control, TypeOK, ConnType
<1>9. CASE Close
  BY <1>9 DEF Close, Sending, Control, TypeOK, ConnType
<1>10. CASE FreePackets
  <2>1. queue'.minPriority = queue.minPriority
    BY <1>10, QueueTyped DEF FreePackets, QueueType
  <2>2. QED
    BY <1>10, <2>1 DEF FreePackets, Sending, Control, TypeOK
<1>11. CASE Reset
  BY <1>11 DEF Reset, Sending, Control, TypeOK, ConnType
<1>12. ASSUME NEW force \in BOOLEAN, Stop(force) PROVE Control'
  BY <1>12 DEF Stop, Control, TypeOK, ConnType
<1>13. CASE OpenSession
  <2>1. queue'.minPriority = 0
    BY <1>13, QueueTyped DEF OpenSession, QueueType
  <2>2. /\ conn'.active /\ ~conn'.disconnected /\ conn'.hooked
        /\ conn'.first = Len(produced) + 1
    BY <1>13 DEF OpenSession, TypeOK, ConnType
  <2>3. producer.pc = "idle" /\ producer.packet = Nobody /\ producer' = producer
        /\ produced' = produced
    BY <1>13 DEF OpenSession, Control, TypeOK
  <2>4. sender'.pc = "wait" /\ sender'.packet = Nobody
    BY <1>13 DEF OpenSession, Control, TypeOK
  <2>5. QED
    BY <1>0, <2>1, <2>2, <2>3, <2>4 DEF Control
<1>14. CASE Unhook
  BY <1>14 DEF Unhook, Control, TypeOK, ConnType
<1>15. CASE UNCHANGED vars
  BY <1>15 DEF vars, Control
<1>16. QED
  BY <1>1, <1>2, <1>3, <1>4, <1>5, <1>6, <1>7, <1>8, <1>9, <1>10, <1>11, <1>12,
     <1>13, <1>14, <1>15 DEF Next, ProducerStep, SenderStep

-----------------------------------------------------------------------------
(***************************************************************************)
(* Order.                                                                  *)
(***************************************************************************)
\* The queue after init_connect and free_packets.
LEMMA EmptyQueue == ToSet(<<>>) = {} /\ Rising(<<>>) /\ Len(<<>>) = 0
BY DEF ToSet, Rising

\* Order of three sets, in a window.
Line(a, b, c, first, last) ==
    /\ Before(a, b \cup c) /\ Before(b, c)
    /\ (a \cup b \cup c) \subseteq first..last

\* Every step keeps what was sent, is in hand and is queued in order.
LEMMA OrderedStep == TypeOK /\ Control /\ Ordered /\ [Next]_vars => Ordered'
<1> SUFFICES ASSUME TypeOK, Control, Ordered, [Next]_vars PROVE Ordered'
  OBVIOUS
<1>0. /\ Len(produced) \in Nat /\ produced \in Seq(Kinds)
      /\ conn.first \in Nat /\ conn.first >= 1 /\ Nobody \notin Nat
      /\ Rising(queue.packets) /\ queue.packets \in Seq(Packets)
      /\ Line(sent, Outgoing, Queued, conn.first, Newest)
      /\ Newest \in {Len(produced), Len(produced) - 1}
  BY QueueTyped, StreamAssumption DEF TypeOK, ConnType, Ordered, Line, Here, Newest
<1>1. ASSUME NEW kind \in Kinds, Produce(kind) PROVE Ordered'
  <2>1. /\ Len(produced') = Len(produced) + 1 /\ producer.pc = "idle"
        /\ conn' = conn /\ sender' = sender /\ queue' = queue /\ sent' = sent
    BY <1>0, <1>1, AppendProperties DEF Produce
  <2>2. Newest = Len(produced) /\ Newest' \in {Len(produced), Len(produced) + 1}
    BY <1>0, <2>1 DEF Newest
  <2>3. Here' = Here /\ Outgoing' = Outgoing /\ Queued' = Queued
    BY <2>1 DEF Here, Outgoing, Queued
  <2>4. conn.first..Newest \subseteq conn.first..Newest'
    BY <1>0, <2>2
  <2>5. QED
    BY <2>1, <2>3, <2>4 DEF Ordered
<1>2. CASE AddPacket
  <2> DEFINE i == producer.packet
  <2>1. /\ producer.pc = "lock" /\ conn' = conn /\ sender' = sender
        /\ produced' = produced /\ sent' = sent
    BY <1>2 DEF AddPacket
  <2>2. i = Len(produced) /\ Newest = i - 1 /\ i \in Packets /\ conn.first <= i
    BY <1>2, <2>1, AddPacketOutcome DEF Newest, Control
  <2>3. producer'.pc \in {"idle", "post"}
    BY <1>2, AddPacketOutcome DEF TurnedAway, TakenIn
  <2>4. Newest' = i /\ Outgoing' = Outgoing
    BY <2>1, <2>2, <2>3 DEF Newest, Outgoing
  <2>5. PICK q : q = Considered
    OBVIOUS
  <2>6. /\ q.packets \in Seq(Packets) /\ Rising(q.packets)
        /\ ToSet(q.packets) \subseteq Queued
    <3>1. Thinned(queue, q)
      BY <1>2, <2>5, AddPacketOutcome
    <3>2. q.packets \in Seq(Packets) /\ ToSet(q.packets) \subseteq Queued
      BY <3>1 DEF Thinned, QueueType, Queued
    <3>3. PICK e : Places(e, q.packets, queue.packets, Len(queue.packets))
      BY <3>1 DEF Thinned
    <3>4. QED
      BY <1>0, <3>2, <3>3, PlacesRise
  <2>7. Rising(queue'.packets) /\ Queued' \subseteq Queued \cup {i}
    <3>1. CASE queue' = queue
      BY <1>0, <3>1 DEF Queued
    <3>2. CASE queue'.packets = q.packets
      BY <2>6, <3>2 DEF Queued
    <3>3. CASE queue'.packets = Append(q.packets, i)
      <4>1. Before(ToSet(q.packets), {i})
        BY <1>0, <2>2, <2>6 DEF Before, Line
      <4>2. QED
        BY <2>2, <2>6, <3>3, <4>1, Added DEF Queued
    <3>4. q \in QueueType
      BY <1>2, <2>5, AddPacketOutcome DEF Thinned
    <3>5. TurnedAway => queue'.packets = q.packets
      BY <2>5, <3>4 DEF TurnedAway, QueueType
    <3>6. TakenIn => queue'.packets = Append(q.packets, i)
      BY <2>5 DEF TakenIn
    <3>7. QED
      BY <1>2, <3>1, <3>2, <3>3, <3>5, <3>6, AddPacketOutcome
  <2>8. Here \subseteq conn.first..(i - 1)
    BY <2>2 DEF Ordered
  <2>9. Before(sent, Outgoing \cup Queued') /\ Before(Outgoing, Queued')
    <3>1. \A h \in sent \cup Outgoing : h < i
      BY <1>0, <2>2, <2>8 DEF Here
    <3>2. QED
      BY <2>7, <3>1 DEF Before, Ordered
  <2>10. (sent \cup Queued' \cup Outgoing) \subseteq conn.first..i
    <3>1. conn.first..(i - 1) \subseteq conn.first..i /\ i \in conn.first..i
      BY <1>0, <2>2
    <3>2. QED
      BY <2>7, <2>8, <3>1 DEF Here
  <2>11. QED
    BY <2>1, <2>4, <2>7, <2>9, <2>10 DEF Ordered, Here
<1>3. CASE Post
  BY <1>3 DEF Post, Ordered, Here, Newest, Outgoing, Queued
<1>4. CASE SendWait
  BY <1>4 DEF SendWait, Sending, Ordered, Here, Newest, Outgoing, Queued, TypeOK
<1>5. CASE GetNextPacket
  <2>1. CASE queue.packets = <<>>
    BY <1>5, <2>1 DEF GetNextPacket, Sending, Ordered, Here, Newest, Outgoing, Queued, TypeOK
  <2>2. CASE queue.packets # <<>>
    <3>1. PICK h : h = Head(queue.packets)
      OBVIOUS
    <3>2. PICK t : t = Tail(queue.packets)
      OBVIOUS
    <3>3. /\ Rising(t) /\ Before({h}, ToSet(t)) /\ Queued = {h} \cup ToSet(t)
      BY <1>0, <2>2, <3>1, <3>2, Taken DEF Queued
    <3>4. /\ sender' = [pc |-> "send_packet", packet |-> h] /\ queue'.packets = t
          /\ sender.pc = "next_packet" /\ UNCHANGED <<conn, sent, produced, producer>>
      BY <1>5, <2>2, <3>1, <3>2, QueueTyped DEF GetNextPacket, Sending, QueueType
    <3>5. Outgoing = {} /\ Outgoing' = {h} /\ Queued' = ToSet(t) /\ Newest' = Newest
      BY <3>4 DEF Outgoing, Queued, Newest
    <3>6. Here' = Here
      BY <3>3, <3>4, <3>5 DEF Here
    <3>7. QED
      BY <3>3, <3>4, <3>5, <3>6 DEF Ordered, Before
  <2>3. QED
    BY <2>1, <2>2
<1>6. CASE CanShutdownStream
  BY <1>6 DEF CanShutdownStream, Sending, Ordered, Here, Newest, Outgoing, Queued, Before
<1>7. CASE SendPacket
  <2>1. /\ UNCHANGED <<queue, conn, produced, producer>>
        /\ sent' = sent \cup Outgoing /\ Outgoing' = {} /\ Queued' = Queued /\ Newest' = Newest
    BY <1>7 DEF SendPacket, Sending, Outgoing, Queued, Newest
  <2>2. Here' = Here
    BY <2>1 DEF Here
  <2>3. QED
    BY <2>1, <2>2 DEF Ordered, Before
<1>8. CASE SendFails
  <2>1. /\ UNCHANGED <<queue, sent, produced, producer>> /\ conn'.first = conn.first
        /\ Outgoing' = {} /\ Queued' = Queued /\ Newest' = Newest
    BY <1>8 DEF SendFails, Sending, Outgoing, Queued, Newest, TypeOK, ConnType
  <2>2. QED
    BY <2>1 DEF Ordered, Before, Here
<1>9. CASE Close \/ Reset \/ Unhook
  <2>1. /\ UNCHANGED <<queue, sent, produced, producer>> /\ conn'.first = conn.first
        /\ Outgoing' = Outgoing /\ Queued' = Queued /\ Newest' = Newest
    BY <1>9 DEF Close, Reset, Unhook, Sending, Outgoing, Queued, Newest, TypeOK, ConnType
  <2>2. QED
    BY <2>1 DEF Ordered, Before, Here
<1>10. CASE FreePackets
  <2>1. /\ UNCHANGED <<conn, sent, produced, producer>> /\ queue'.packets = <<>>
        /\ Outgoing' = Outgoing /\ Newest' = Newest
    BY <1>10, QueueTyped DEF FreePackets, Sending, Outgoing, Newest, TypeOK, QueueType
  <2>2. Queued' = {}
    BY <2>1, EmptyQueue DEF Queued
  <2>3. QED
    BY <2>1, <2>2, EmptyQueue DEF Ordered, Before, Here
<1>11. ASSUME NEW force \in BOOLEAN, Stop(force) PROVE Ordered'
  <2>1. /\ UNCHANGED <<queue, sent, produced, producer, sender>> /\ conn'.first = conn.first
        /\ Outgoing' = Outgoing /\ Queued' = Queued /\ Newest' = Newest
    BY <1>11 DEF Stop, Outgoing, Queued, Newest, TypeOK, ConnType
  <2>2. QED
    BY <2>1 DEF Ordered, Before, Here
<1>12. CASE OpenSession
  <2>1. queue'.packets = <<>> /\ sent' = {}
    BY <1>12, QueueTyped DEF OpenSession, QueueType
  <2>2. sender'.pc = "wait"
    BY <1>12 DEF OpenSession, TypeOK
  <2>3. Outgoing' = {} /\ Queued' = {}
    BY <2>1, <2>2, EmptyQueue DEF Outgoing, Queued
  <2>4. Here' = {}
    BY <2>1, <2>3 DEF Here
  <2>5. QED
    BY <2>1, <2>3, <2>4, EmptyQueue DEF Ordered, Before
<1>13. CASE UNCHANGED vars
  BY <1>13 DEF vars, Ordered, Here, Newest, Outgoing, Queued
<1>14. QED
  BY <1>1, <1>2, <1>3, <1>4, <1>5, <1>6, <1>7, <1>8, <1>9, <1>10, <1>11, <1>12,
     <1>13 DEF Next, ProducerStep, SenderStep

\* At the start nothing was made.
LEMMA OrderedInit == Init => Ordered
<1> SUFFICES ASSUME Init PROVE Ordered
  OBVIOUS
<1>1. queue.packets = <<>> /\ sent = {} /\ sender.pc = "dead"
  BY DEF Init
<1>2. Outgoing = {} /\ Queued = {}
  BY <1>1, EmptyQueue DEF Outgoing, Queued
<1>3. QED
  BY <1>1, <1>2, EmptyQueue DEF Ordered, Before, Here

\* What the proofs of all the properties rest on.
QueueInv == TypeOK /\ Control /\ Ordered

\* Types, control and order hold together.
LEMMA QueueInvariant == Spec => []QueueInv
<1>1. Init => QueueInv
  BY TypeInit, OrderedInit DEF QueueInv
<1>2. QueueInv /\ [Next]_vars => QueueInv'
  BY TypeStep, ControlStep, OrderedStep DEF QueueInv
<1>3. QED
  BY <1>1, <1>2, PTL DEF Spec

\* Types.
THEOREM TypesHold == Spec => []TypeOK
<1>1. QueueInv => TypeOK
  BY DEF QueueInv
<1>2. QED
  BY <1>1, QueueInvariant, PTL

\* The packets leave in the order they came, none of them twice.
THEOREM LeaveInOrder == Spec => []InOrder
<1>1. ASSUME QueueInv PROVE InOrder
  <2> DEFINE i == sender.packet
             s == queue.packets
             line == IF i = Nobody \/ i \in sent THEN s ELSE <<i>> \o s
  <2>1. /\ s \in Seq(Packets) /\ Len(s) \in Nat /\ Rising(s)
        /\ Before(sent, Outgoing \cup Queued) /\ Before(Outgoing, Queued)
        /\ sent \subseteq Packets
    BY <1>1, QueueTyped DEF QueueInv, Ordered, TypeOK
  <2>2. CASE i = Nobody \/ i \in sent
    <3>1. line = s
      BY <2>2
    <3>2. \A a, b \in 1..Len(line) : a < b => line[a] < line[b]
      BY <2>1, <3>1 DEF Rising
    <3>3. \A a \in sent, b \in ToSet(line) : a < b
      BY <2>1, <3>1 DEF Before, Queued
    <3> HIDE DEF line
    <3>4. QED
      BY <3>2, <3>3 DEF InOrder, IsSorted, line
  <2>3. CASE ~(i = Nobody \/ i \in sent)
    <3>1. i \in Packets /\ Outgoing = {i}
      BY <1>1, <2>3 DEF QueueInv, TypeOK, Control, Outgoing
    <3>2. /\ line = <<i>> \o s /\ <<i>> \in Seq(Packets) /\ Len(<<i>>) = 1
          /\ <<i>>[1] = i
      BY <2>3, <3>1
    <3> HIDE DEF line
    <3>3. /\ Len(line) = Len(s) + 1 /\ line[1] = i /\ line \in Seq(Packets)
          /\ \A a \in 2..(Len(s) + 1) : line[a] = s[a - 1]
      BY <2>1, <3>2, ConcatProperties
    <3>4. \A a \in 1..Len(s) : s[a] \in Queued
      BY <2>1 DEF Queued, ToSet
    <3>5. \A a \in 1..Len(line) : a = 1 \/ (a - 1 \in 1..Len(s) /\ line[a] = s[a - 1])
      BY <2>1, <3>3
    <3>6. ASSUME NEW a \in 1..Len(line), NEW b \in 1..Len(line), a < b
          PROVE  line[a] < line[b]
      <4>1. b # 1 /\ b - 1 \in 1..Len(s) /\ line[b] = s[b - 1]
        BY <2>1, <3>3, <3>5, <3>6
      <4>2. CASE a = 1
        BY <2>1, <3>1, <3>3, <3>4, <4>1, <4>2 DEF Before
      <4>3. CASE a # 1
        <5>1. a - 1 \in 1..Len(s) /\ line[a] = s[a - 1] /\ a - 1 < b - 1
          BY <2>1, <3>3, <3>5, <3>6, <4>3
        <5>2. QED
          BY <2>1, <4>1, <5>1 DEF Rising
      <4>4. QED
        BY <4>2, <4>3
    <3>7. ASSUME NEW a \in sent, NEW b \in ToSet(line) PROVE a < b
      <4>1. PICK n \in 1..Len(line) : b = line[n]
        BY <2>1, <3>3, <3>7 DEF ToSet
      <4>2. b \in Outgoing \cup Queued
        BY <3>1, <3>3, <3>4, <3>5, <4>1
      <4>3. QED
        BY <2>1, <4>2 DEF Before
    <3>8. QED
      BY <3>6, <3>7 DEF InOrder, IsSorted, line
  <2>4. QED
    BY <2>2, <2>3
<1>2. QED
  BY <1>1, QueueInvariant, PTL

\* Nothing of an earlier session is sent in a later one.
THEOREM NothingOld == Spec => []OnlyThisSession
<1>1. QueueInv => OnlyThisSession
  <2> SUFFICES ASSUME QueueInv, sender.pc = "send_packet" PROVE sender.packet \in Session
    BY DEF OnlyThisSession
  <2>1. sender.packet \in Here /\ Here \subseteq conn.first..Newest
    BY DEF QueueInv, Ordered, Here, Outgoing
  <2>2. conn.first \in Nat /\ Len(produced) \in Nat
    BY QueueTyped DEF QueueInv, TypeOK, ConnType
  <2>3. conn.first..Newest \subseteq conn.first..Len(produced)
    BY <2>2 DEF Newest
  <2>4. QED
    BY <2>1, <2>3 DEF Session
<1>2. QED
  BY <1>1, QueueInvariant, PTL

-----------------------------------------------------------------------------
(***************************************************************************)
(* Posts.                                                                  *)
(***************************************************************************)
\* Every step keeps a post for each queued packet: a packet is added before
\* its post, and dropping frames only leaves posts over.
LEMMA PostsStep == TypeOK /\ Control /\ PostsCoverQueue /\ [Next]_vars => PostsCoverQueue'
<1> SUFFICES ASSUME TypeOK, Control, PostsCoverQueue, [Next]_vars, Running'
             PROVE  Len(queue'.packets) <= sem' + (IF sender'.pc = "next_packet" THEN 1 ELSE 0)
                                                + (IF producer'.pc = "post" THEN 1 ELSE 0)
  BY DEF PostsCoverQueue
<1>0. sem \in Nat /\ Len(queue.packets) \in Nat /\ queue \in QueueType
      /\ queue.packets \in Seq(Packets)
  BY QueueTyped DEF TypeOK
<1>1. ASSUME NEW kind \in Kinds, Produce(kind)
      PROVE  UNCHANGED <<queue, sem, sender, conn>> /\ producer.pc = "idle"
  BY <1>1 DEF Produce
<1>2. CASE AddPacket
  <2>1. UNCHANGED <<sem, sender, conn>> /\ producer.pc = "lock"
    BY <1>2 DEF AddPacket
  <2>2. /\ Considered \in QueueType /\ Len(Considered.packets) \in Nat
        /\ Len(Considered.packets) <= Len(queue.packets)
    <3>1. Thinned(queue, Considered) /\ Considered \in QueueType
      BY <1>2, AddPacketOutcome DEF Thinned
    <3>2. Considered.packets \in Seq(Packets)
      BY <3>1 DEF QueueType
    <3>3. PICK e : Places(e, Considered.packets, queue.packets, Len(queue.packets))
      BY <3>1 DEF Thinned
    <3>4. Len(Considered.packets) \in Nat
      BY <3>2, LenProperties
    <3>5. Len(Considered.packets) > 0 =>
            /\ Len(Considered.packets) <= e[Len(Considered.packets)]
            /\ e[Len(Considered.packets)] \in 1..Len(queue.packets)
      BY <3>3, <3>4 DEF Places
    <3>6. QED
      BY <1>0, <3>1, <3>4, <3>5
  <2>3. Running /\ Len(queue.packets) <= sem + (IF sender.pc = "next_packet" THEN 1 ELSE 0)
    BY <1>0, <2>1 DEF Running, PostsCoverQueue
  <2>4. \/ Len(queue'.packets) \in {Len(queue.packets), Len(Considered.packets)}
        \/ /\ Len(queue'.packets) = Len(Considered.packets) + 1
           /\ producer'.pc = "post"
    <3>1. TurnedAway => queue'.packets = Considered.packets
      BY <2>2 DEF TurnedAway, QueueType
    <3>2. TakenIn => /\ Len(queue'.packets) = Len(Considered.packets) + 1
                     /\ producer'.pc = "post"
      <4>1. Considered.packets \in Seq(Packets) /\ producer.packet \in Packets
        BY <1>2, <2>2, AddPacketOutcome DEF QueueType
      <4>2. QED
        BY <4>1, Added DEF TakenIn
    <3>3. QED
      BY <1>2, <3>1, <3>2, AddPacketOutcome
  <2>5. QED
    BY <1>0, <2>1, <2>2, <2>3, <2>4
<1>3. CASE Post
  BY <1>0, <1>3 DEF Post, Running, PostsCoverQueue
<1>4. CASE SendWait
  <2>1. /\ sender.pc = "wait" /\ sem > 0 /\ sem' = sem - 1
        /\ UNCHANGED <<queue, conn, producer>>
        /\ sender'.pc \in {"close", "next_packet"}
    BY <1>4 DEF SendWait, Sending, TypeOK
  <2>2. Running /\ sender'.pc = "next_packet"
    BY <2>1 DEF Running
  <2>3. QED
    BY <1>0, <2>1, <2>2 DEF PostsCoverQueue
<1>5. CASE GetNextPacket
  <2>1. /\ sender.pc = "next_packet" /\ UNCHANGED <<sem, conn, producer>>
        /\ sender'.pc \in {"wait", "send_packet"}
    BY <1>5 DEF GetNextPacket, Sending, TypeOK
  <2>2. Running /\ Len(queue.packets) <= sem + 1 + (IF producer.pc = "post" THEN 1 ELSE 0)
    BY <2>1 DEF Running, PostsCoverQueue
  <2>3. CASE queue.packets = <<>>
    BY <1>0, <1>5, <2>1, <2>3, EmptyQueue DEF GetNextPacket
  <2>4. CASE queue.packets # <<>>
    <3>1. Len(queue'.packets) = Len(queue.packets) - 1
      BY <1>0, <1>5, <2>4, Taken DEF GetNextPacket, QueueType
    <3>2. QED
      BY <1>0, <2>1, <2>2, <3>1
  <2>5. QED
    BY <2>3, <2>4
<1>6. CASE CanShutdownStream
  BY <1>6 DEF CanShutdownStream, Running
<1>7. CASE SendPacket
  BY <1>7 DEF SendPacket, Sending, Running, PostsCoverQueue
<1>8. CASE SendFails
  BY <1>8 DEF SendFails, Running
<1>9. CASE Close \/ FreePackets \/ Reset
  <2>1. sender'.pc \in {"free_packets", "reset", "dead"}
    BY <1>9 DEF Close, FreePackets, Reset, TypeOK
  <2>2. QED
    BY <2>1 DEF Running
<1>10. ASSUME NEW force \in BOOLEAN, Stop(force)
       PROVE  /\ UNCHANGED <<queue, sender, producer>> /\ sem' \in {sem, sem + 1}
              /\ conn'.disconnected = conn.disconnected
  BY <1>10 DEF Stop, TypeOK, ConnType
<1>11. CASE OpenSession
  <2>1. queue'.packets = <<>> /\ sem' = 0
    BY <1>0, <1>11 DEF OpenSession, QueueType
  <2>2. QED
    BY <2>1, EmptyQueue
<1>12. CASE Unhook
  BY <1>12 DEF Unhook, Running, PostsCoverQueue, TypeOK, ConnType
<1>13. CASE UNCHANGED vars
  BY <1>13 DEF vars, Running, PostsCoverQueue
<1>14. CASE \E kind \in Kinds : Produce(kind)
  <2>1. PICK kind \in Kinds : Produce(kind)
    BY <1>14
  <2>2. UNCHANGED <<queue, sem, sender, conn>> /\ producer.pc = "idle"
    BY <1>1, <2>1
  <2>3. Len(queue.packets) <= sem + (IF sender.pc = "next_packet" THEN 1 ELSE 0)
    BY <1>0, <2>2 DEF Running, PostsCoverQueue
  <2>4. QED
    BY <1>0, <2>2, <2>3
<1>15. CASE \E force \in BOOLEAN : Stop(force)
  <2>1. /\ UNCHANGED <<queue, sender, producer>> /\ sem' \in {sem, sem + 1}
        /\ conn'.disconnected = conn.disconnected
    BY <1>10, <1>15
  <2>2. Len(queue.packets) <= sem + (IF sender.pc = "next_packet" THEN 1 ELSE 0)
                                  + (IF producer.pc = "post" THEN 1 ELSE 0)
    BY <2>1 DEF Running, PostsCoverQueue
  <2>3. QED
    BY <1>0, <2>1, <2>2
<1>16. QED
  BY <1>2, <1>3, <1>4, <1>5, <1>6, <1>7, <1>8, <1>9, <1>11, <1>12, <1>13, <1>14,
     <1>15 DEF Next, ProducerStep, SenderStep

\* No packet waits without a post that will wake send_thread for it.
THEOREM PostsCover == Spec => []PostsCoverQueue
<1>1. Init => PostsCoverQueue
  BY DEF Init, PostsCoverQueue, Running
<1>2. QueueInv /\ PostsCoverQueue /\ [Next]_vars => PostsCoverQueue'
  BY PostsStep DEF QueueInv
<1>3. QED
  BY <1>1, <1>2, QueueInvariant, PTL DEF Spec

-----------------------------------------------------------------------------
\* Packets dropped.  The parts of the invariant added here say which packets of
\* the session are still here: sent, in send_thread's hand or queued.

\* A packet that was added has not been dropped while its post is due.
PostIsHere == Running /\ producer.pc = "post" => producer.packet \in Here

\* Audio and keyframes that were decided on are still here.
AllHere ==
    Running => \A i \in conn.first..Newest : Kind(i) \in {"audio", "key"} => i \in Here

\* Each packet decided on is here or counted as dropped.
Counted == Running => Cardinality(Here) + queue.dropped = Newest - conn.first + 1

\* The reference frames since the last keyframe, up to packet n.
Reference(n) ==
    {j \in conn.first..n : /\ Kind(j) \in {"key", "i", "p"}
                           /\ \A k \in (j + 1)..n : Kind(k) # "key"}

\* While frames are dropped down to the keyframes, no others are queued.
Narrow ==
    queue.minPriority = 3 => \A i \in Queued : Kind(i) \notin {"p", "b"}

\* None of the frames is an "i".
Steady(frames) == \A j \in frames : Kind(j) # "i"

\* What a frame that has not been dropped needs has not been dropped, and
\* while frames are not being dropped down to the keyframes neither has what
\* the next frame needs: in a group of pictures without an "i".
Complete ==
    Running =>
        /\ \A i \in Here : Steady(Needs(i)) => Needs(i) \subseteq Here
        /\ queue.minPriority < 3 /\ Steady(Reference(Newest))
             => Reference(Newest) \subseteq Here

\* A frame comes between two "b" of a session.
Alternating ==
    \A i, j \in Session :
        i < j /\ Kind(i) = "b" /\ Kind(j) = "b" =>
            \E k \in Session : i < k /\ k < j /\ Kind(k) \notin {"audio", "b"}

\* Some packet of a sequence would be dropped by drop_frames.
Loose(s) == \E i \in ToSet(s) : Kind(i) \in {"p", "b"}

\* While the callback adds frames to others that would be dropped,
\* last_dts_usec is the time of the last frame but for "b" frames turned away.
LastFrame ==
    Loose(queue.packets) /\ ~conn.disconnected /\ (conn.active \/ producer.pc = "lock") =>
        \E i \in conn.first..Newest :
            /\ queue.lastDts = Dts(i)
            /\ \A j \in (i + 1)..Newest :
                 Audio(j) \/ (Kind(j) = "b" /\ queue.minPriority = 2)

-----------------------------------------------------------------------------
(***************************************************************************)
(* What a step does to the packets that are here, while the stream runs.   *)
(***************************************************************************)
\* A session opens.
Opens == Here' = {} /\ conn'.first = Len(produced) + 1 /\ queue'.dropped = 0
            /\ queue'.minPriority = 0 /\ Queued' = {} /\ producer'.pc = "idle"
            /\ produced' = produced

\* Nothing is added or dropped.
Quiet ==
    /\ Running /\ Here' = Here
    /\ conn'.first = conn.first /\ produced' = produced /\ Newest' = Newest
    /\ queue'.minPriority = queue.minPriority /\ queue'.dropped = queue.dropped
    /\ producer' = producer \/ producer'.pc = "idle"

\* A packet is made.
Makes(kind) ==
    /\ Running /\ Here' = Here
    /\ conn' = conn /\ queue' = queue /\ Newest' = Newest
    /\ Newest = Len(produced) /\ Len(produced') = Len(produced) + 1
    /\ produced' = Append(produced, kind)
    /\ producer'.pc = "lock"

\* The callback adds its packet or turns it away, and may drop others.
Adds ==
    /\ Running /\ conn' = conn /\ produced' = produced
    /\ Newest = Len(produced) - 1 /\ Newest' = Len(produced)
    /\ producer.packet = Len(produced)
    /\ sent' = sent /\ Outgoing' = Outgoing
    /\ Thinned(queue, Considered)
    /\ \/ /\ TurnedAway /\ Queued' = ToSet(Considered.packets)
          /\ queue'.minPriority = Considered.minPriority
          /\ queue'.dropped = Considered.dropped + 1
       \/ TakenIn /\ Queued' = ToSet(Considered.packets) \cup {producer.packet}

\* A packet keeps its kind: `produced' only grows.
LEMMA KindsKept ==
  ASSUME TypeOK, NEW kind
  PROVE  /\ Len(Append(produced, kind)) = Len(produced) + 1
         /\ \A j \in 1..Len(produced) : Append(produced, kind)[j] = produced[j]
         /\ Append(produced, kind)[Len(produced) + 1] = kind
<1>1. produced \in Seq(Kinds \cup {kind}) /\ kind \in Kinds \cup {kind}
  BY QueueTyped
<1>2. QED
  BY <1>1, AppendProperties

\* Every step does one of four things to the packets that are here.
LEMMA HereStep ==
  ASSUME QueueInv, [Next]_vars, Running'
  PROVE  Opens \/ Quiet \/ Adds \/ \E kind \in Kinds : Makes(kind)
<1>0. /\ TypeOK /\ Control /\ queue \in QueueType /\ queue.packets \in Seq(Packets)
      /\ Len(produced) \in Nat
  BY QueueTyped DEF QueueInv
<1>1. ASSUME NEW kind \in Kinds, Produce(kind) PROVE Makes(kind)
  <2>1. UNCHANGED <<conn, queue, sender, sent>> /\ producer.pc = "idle"
    BY <1>1 DEF Produce
  <2>2. Running /\ ~conn.disconnected /\ conn.active
    BY <1>0, <2>1 DEF Running, Control
  <2>3. producer'.pc = "lock" /\ produced' = Append(produced, kind)
    BY <1>1, <2>2 DEF Produce
  <2>4. Len(produced') = Len(produced) + 1
    BY <1>0, <2>3, KindsKept
  <2>5. Newest = Len(produced) /\ Newest' = Len(produced)
    BY <1>0, <2>1, <2>3, <2>4 DEF Newest
  <2>6. Here' = Here
    BY <2>1 DEF Here, Queued, Outgoing
  <2>7. QED
    BY <2>1, <2>2, <2>3, <2>4, <2>5, <2>6 DEF Makes
<1>2. CASE AddPacket
  <2>1. /\ UNCHANGED <<conn, sender, sent, produced>> /\ producer.pc = "lock"
    BY <1>2 DEF AddPacket
  <2>2. Running /\ ~conn.disconnected /\ Outgoing' = Outgoing
    BY <2>1 DEF Running, Outgoing
  <2>3. /\ producer.packet = Len(produced) /\ producer.packet \in Packets
        /\ Thinned(queue, Considered) /\ (TurnedAway \/ TakenIn)
    BY <1>0, <1>2, <2>2, AddPacketOutcome
  <2>4. producer'.pc \in {"idle", "post"}
    BY <2>3 DEF TurnedAway, TakenIn
  <2>5. Newest = Len(produced) - 1 /\ Newest' = Len(produced)
    BY <2>1, <2>4 DEF Newest
  <2>6. Considered \in QueueType /\ Considered.packets \in Seq(Packets)
    BY <2>3 DEF Thinned, QueueType
  <2>7. ASSUME TurnedAway
        PROVE  /\ Queued' = ToSet(Considered.packets)
               /\ queue'.minPriority = Considered.minPriority
               /\ queue'.dropped = Considered.dropped + 1
    BY <2>6, <2>7 DEF TurnedAway, QueueType, Queued
  <2>8. ASSUME TakenIn PROVE Queued' = ToSet(Considered.packets) \cup {producer.packet}
    BY <2>3, <2>6, <2>8, Added DEF TakenIn, Queued
  <2>9. Adds
    BY <2>1, <2>2, <2>3, <2>5, <2>7, <2>8 DEF Adds
  <2>10. QED
    BY <2>9
<1>3. CASE Post
  <2>1. /\ UNCHANGED <<produced, queue, conn, sender, sent>> /\ producer'.pc = "idle"
        /\ producer.pc = "post"
    BY <1>3 DEF Post
  <2>2. QED
    BY <2>1 DEF Quiet, Running, Here, Queued, Outgoing, Newest
<1>4. CASE SendWait
  <2>1. /\ UNCHANGED <<produced, queue, conn, producer, sent>> /\ sender.pc = "wait"
        /\ sender'.pc \in {"close", "next_packet"}
    BY <1>0, <1>4 DEF SendWait, Sending, TypeOK
  <2>2. Outgoing = {} /\ Outgoing' = {}
    BY <2>1 DEF Outgoing
  <2>3. QED
    BY <2>1, <2>2 DEF Quiet, Running, Here, Queued, Newest
<1>5. CASE GetNextPacket
  <2>1. /\ UNCHANGED <<produced, conn, producer, sent>> /\ sender.pc = "next_packet"
        /\ Newest' = Newest /\ Running /\ Outgoing = {}
    BY <1>0, <1>5 DEF GetNextPacket, Sending, TypeOK, Running, Newest, Outgoing
  <2>2. CASE queue.packets = <<>>
    <3>1. queue' = queue /\ sender'.pc = "wait"
      BY <1>0, <1>5, <2>2 DEF GetNextPacket, TypeOK
    <3>2. QED
      BY <2>1, <3>1 DEF Quiet, Here, Queued, Outgoing
  <2>3. CASE queue.packets # <<>>
    <3>1. /\ sender' = [pc |-> "send_packet", packet |-> Head(queue.packets)]
          /\ queue' = [queue EXCEPT !.packets = Tail(@)]
      BY <1>5, <2>3 DEF GetNextPacket
    <3>2. /\ Outgoing' = {Head(queue.packets)} /\ Queued' = ToSet(Tail(queue.packets))
          /\ queue'.minPriority = queue.minPriority /\ queue'.dropped = queue.dropped
      BY <1>0, <3>1 DEF Outgoing, Queued, QueueType
    <3>3. Here' = Here
      BY <1>0, <2>1, <2>3, <3>2, Taken DEF Here, Queued
    <3>4. QED
      BY <2>1, <3>2, <3>3 DEF Quiet
  <2>4. QED
    BY <2>2, <2>3
<1>6. CASE CanShutdownStream \/ SendFails \/ Close \/ FreePackets \/ Reset
  <2>1. sender'.pc \in {"close", "free_packets", "reset", "dead"}
    BY <1>0, <1>6 DEF CanShutdownStream, SendFails, Close, FreePackets, Reset, TypeOK
  <2>2. QED
    BY <2>1 DEF Running
<1>7. CASE SendPacket
  <2>1. /\ UNCHANGED <<produced, queue, conn, producer>> /\ sender.pc = "send_packet"
        /\ sender'.pc = "wait" /\ sent' = sent \cup {sender.packet}
    BY <1>7 DEF SendPacket, Sending
  <2>2. Here' = Here
    BY <2>1 DEF Here, Queued, Outgoing
  <2>3. QED
    BY <2>1, <2>2 DEF Quiet, Running, Newest
<1>8. CASE (\E force \in BOOLEAN : Stop(force)) \/ Unhook
  <2>1. /\ UNCHANGED <<produced, queue, producer, sender, sent>>
        /\ conn'.first = conn.first /\ conn'.disconnected = conn.disconnected
    BY <1>0, <1>8 DEF Stop, Unhook, TypeOK, ConnType
  <2>2. QED
    BY <2>1 DEF Quiet, Running, Here, Queued, Outgoing, Newest
<1>9. CASE OpenSession
  <2>1. /\ queue'.packets = <<>> /\ queue'.dropped = 0 /\ queue'.minPriority = 0
        /\ sent' = {} /\ conn'.first = Len(produced) + 1
    BY <1>0, <1>9 DEF OpenSession, QueueType, TypeOK, ConnType
  <2>2. sender'.pc = "wait" /\ producer.pc = "idle" /\ producer' = producer
        /\ produced' = produced
    BY <1>0, <1>9 DEF OpenSession, TypeOK, Control
  <2>3. Queued' = {} /\ Outgoing' = {}
    BY <2>1, <2>2, EmptyQueue DEF Queued, Outgoing
  <2>4. QED
    BY <2>1, <2>2, <2>3 DEF Opens, Here
<1>10. CASE UNCHANGED vars
  BY <1>10 DEF vars, Quiet, Running, Here, Queued, Outgoing, Newest
<1>11. QED
  BY <1>1, <1>2, <1>3, <1>4, <1>5, <1>6, <1>7, <1>8, <1>9, <1>10
     DEF Next, ProducerStep, SenderStep

\* The numbers the window is made of.
LEMMA Window ==
  ASSUME QueueInv
  PROVE  /\ TypeOK /\ Control
         /\ Len(produced) \in Nat /\ produced \in Seq(Kinds)
         /\ conn.first \in Nat /\ conn.first >= 1 /\ conn.first <= Len(produced) + 1
         /\ Newest \in Int /\ Newest <= Len(produced) /\ Newest >= Len(produced) - 1
         /\ Newest >= conn.first - 1
         /\ Here \subseteq conn.first..Newest
         /\ \A i \in conn.first..Newest : i \in 1..Len(produced) /\ i \in Nat
<1>1. /\ TypeOK /\ Control /\ Len(produced) \in Nat /\ produced \in Seq(Kinds)
      /\ conn.first \in Nat /\ conn.first >= 1 /\ conn.first <= Len(produced) + 1
  BY QueueTyped DEF QueueInv, TypeOK, ConnType, Control
<1>2. producer.pc = "lock" => conn.first <= Len(produced)
  BY <1>1 DEF Control
<1>3. /\ Newest \in Int /\ Newest <= Len(produced) /\ Newest >= Len(produced) - 1
      /\ Newest >= conn.first - 1
  BY <1>1, <1>2 DEF Newest
<1>4. Here \subseteq conn.first..Newest
  BY DEF QueueInv, Ordered
<1>5. QED
  BY <1>1, <1>3, <1>4

-----------------------------------------------------------------------------
(***************************************************************************)
(* Audio and keyframes.                                                    *)
(***************************************************************************)
\* No step loses audio or a keyframe: drop_frames and add_video_packet spare
\* them.
LEMMA AllHereStep == QueueInv /\ AllHere /\ [Next]_vars => AllHere'
<1> SUFFICES ASSUME QueueInv, AllHere, [Next]_vars, Running',
                    NEW i \in (conn.first..Newest)', (Kind(i) \in {"audio", "key"})'
             PROVE  i \in Here'
  BY DEF AllHere
<1>0. QueueInv'
  BY TypeStep, ControlStep, OrderedStep DEF QueueInv
<1>1. CASE Opens
  <2>1. Newest' = Len(produced)
    BY <1>1 DEF Opens, Newest
  <2>2. QED
    BY <1>1, <2>1, Window DEF Opens
<1>2. CASE Quiet
  BY <1>2 DEF Quiet, AllHere, Kind
<1>3. ASSUME NEW kind \in Kinds, Makes(kind) PROVE i \in Here'
  <2>1. i \in conn.first..Newest /\ i \in 1..Len(produced)
    BY <1>3, Window DEF Makes
  <2>2. produced'[i] = produced[i]
    BY <1>3, <2>1, Window, KindsKept DEF Makes
  <2>3. QED
    BY <1>3, <2>1, <2>2 DEF Makes, AllHere, Kind
<1>4. CASE Adds
  <2>1. Kind(i) \in {"audio", "key"}
    BY <1>4 DEF Adds, Kind
  <2>2. CASE i = Len(produced)
    <3>1. i = producer.packet
      BY <1>4, <2>2 DEF Adds
    <3>2. Considered.minPriority \in 0..3
      BY <1>4 DEF Adds, Thinned, QueueType
    <3>3. ~Audio(i) => DropPriority(i) = 3
      BY <2>1 DEF Audio, DropPriority
    <3>4. ~TurnedAway
      BY <3>1, <3>2, <3>3 DEF TurnedAway
    <3>5. QED
      BY <1>4, <3>1, <3>4 DEF Adds, Here
  <2>3. CASE i # Len(produced)
    <3>1. i \in conn.first..Newest
      BY <1>4, <2>3, Window DEF Adds
    <3>2. i \in Here
      BY <1>4, <2>1, <3>1 DEF Adds, AllHere
    <3>3. CASE i \in Queued
      <4>1. Considered.minPriority \in 0..3
        BY <1>4 DEF Adds, Thinned, QueueType
      <4>2. ~Audio(i) => DropPriority(i) = 3
        BY <2>1 DEF Audio, DropPriority
      <4>3. i \in ToSet(Considered.packets)
        BY <1>4, <3>3, <4>1, <4>2 DEF Adds, Thinned, Queued
      <4>4. QED
        BY <1>4, <4>3 DEF Adds, Here
    <3>4. CASE i \in sent \cup Outgoing
      BY <1>4, <3>4 DEF Adds, Here
    <3>5. QED
      BY <3>2, <3>3, <3>4 DEF Here
  <2>4. QED
    BY <2>2, <2>3
<1>5. QED
  BY <1>1, <1>2, <1>3, <1>4, HereStep

\* Audio and keyframes stay, of every behaviour.
LEMMA AllHereInvariant == Spec => []AllHere
<1>1. Init => AllHere
  BY DEF Init, AllHere, Running
<1>2. QueueInv /\ AllHere /\ [Next]_vars => AllHere'
  BY AllHereStep
<1>3. QED
  BY <1>1, <1>2, QueueInvariant, PTL DEF Spec

\* Audio and keyframes are never dropped while the connection lasts.
THEOREM KeyframesStay == Spec => []NeverDropped
<1>1. QueueInv /\ AllHere => NeverDropped
  <2> SUFFICES ASSUME QueueInv, AllHere, Running, NEW i \in Session,
                      Kind(i) \in {"audio", "key"}
               PROVE  i \in sent \cup Queued \cup InHand
    BY DEF NeverDropped
  <2>1. CASE i \in conn.first..Newest
    <3>1. i \in Here
      BY <2>1 DEF AllHere
    <3>2. Outgoing \subseteq InHand
      BY Window DEF Outgoing, InHand, Control
    <3>3. QED
      BY <3>1, <3>2 DEF Here
  <2>2. CASE i \notin conn.first..Newest
    <3>1. producer.pc = "lock" /\ i = Len(produced)
      BY <2>2, Window DEF Session, Newest
    <3>2. producer.packet = i /\ producer.packet # Nobody
      BY <3>1, Window DEF Control
    <3>3. QED
      BY <3>2 DEF InHand
  <2>3. QED
    BY <2>1, <2>2
<1>2. QED
  BY <1>1, QueueInvariant, AllHereInvariant, PTL

\* A stream that is stopped without force has sent all audio and keyframes
\* made before the stop.
THEOREM StopSendsAll == Spec => StopFlushes
<1> DEFINE Flushed == sender.pc = "send_packet" /\ sender'.pc = "close" /\ ~conn'.disconnected
                        => \A i \in Session : i < conn.stopAt /\ Kind(i) \in {"audio", "key"}
                                                 => i \in sent
<1>1. QueueInv /\ AllHere /\ [Next]_vars => [Flushed]_vars
  <2> SUFFICES ASSUME QueueInv, AllHere, [Next]_vars,
                      sender.pc = "send_packet", sender'.pc = "close", ~conn'.disconnected,
                      NEW i \in Session, i < conn.stopAt, Kind(i) \in {"audio", "key"}
               PROVE  i \in sent
    OBVIOUS
  <2>0. /\ TypeOK /\ Control /\ sender.packet \in Packets /\ Outgoing = {sender.packet}
        /\ conn.stopAt \in Nat
    BY Window DEF Control, TypeOK, ConnType, Outgoing
  <2>1. CanShutdownStream \/ SendFails
    <3>1. sender' # sender
      OBVIOUS
    <3>2. \A kind \in Kinds : ~Produce(kind)
      BY <3>1 DEF Produce
    <3>3. ~AddPacket /\ ~Post /\ ~Unhook /\ ~UNCHANGED vars
      BY <3>1 DEF AddPacket, Post, Unhook, vars
    <3>4. \A force \in BOOLEAN : ~Stop(force)
      BY <3>1 DEF Stop
    <3>5. ~SendWait /\ ~GetNextPacket /\ ~Close /\ ~FreePackets /\ ~Reset /\ ~OpenSession
      BY DEF SendWait, GetNextPacket, Close, FreePackets, Reset, OpenSession
    <3>6. ~SendPacket
      BY DEF SendPacket
    <3>7. QED
      BY <3>2, <3>3, <3>4, <3>5, <3>6 DEF Next, ProducerStep, SenderStep
  <2>2. ~SendFails
    BY <2>0 DEF SendFails, TypeOK, ConnType
  <2>3. sender.packet >= conn.stopAt
    BY <2>1, <2>2 DEF CanShutdownStream
  <2>4. Running
    BY <2>0 DEF Running, Control
  <2>5. sender.packet \in conn.first..Newest
    BY <2>0, Window DEF Here
  <2>6. i \in conn.first..Newest /\ i < sender.packet
    BY <2>0, <2>3, <2>5, Window DEF Session, Packets
  <2>7. i \in Here
    BY <2>4, <2>6 DEF AllHere
  <2>8. \A j \in Queued : sender.packet < j
    BY <2>0 DEF QueueInv, Ordered, Before
  <2>9. i \notin Queued
    <3>1. i \in Nat /\ sender.packet \in Nat
      BY <2>0, <2>6, Window DEF Packets
    <3>2. QED
      BY <2>6, <2>8, <3>1
  <2>10. i # sender.packet
    BY <2>0, <2>6, Window DEF Packets
  <2>11. QED
    BY <2>0, <2>7, <2>9, <2>10 DEF Here
<1>2. QED
  BY <1>1, QueueInvariant, AllHereInvariant, PTL DEF Spec, StopFlushes

-----------------------------------------------------------------------------
(***************************************************************************)
(* Every packet is accounted for.                                          *)
(***************************************************************************)
\* The sizes of what is here: the queue has no packet twice, and none that
\* was sent or is being sent.
Sized ==
    /\ IsFiniteSet(Here) /\ Cardinality(Here) \in Nat
    /\ Cardinality(sent \cup Outgoing) \in Nat
    /\ Cardinality(Here) = Cardinality(sent \cup Outgoing) + Len(queue.packets)
    /\ Len(queue.packets) \in Nat /\ queue.dropped \in Nat
    /\ Newest \in Int /\ conn.first \in Int

\* The sizes follow from the order.
LEMMA HereSized == QueueInv => Sized
<1> SUFFICES ASSUME QueueInv PROVE Sized
  OBVIOUS
<1>1. IsFiniteSet(conn.first..Newest) /\ Here \subseteq conn.first..Newest
  <2>1. conn.first \in Int /\ Newest \in Int
    BY Window
  <2>2. QED
    BY <2>1, Window, FS_Interval
<1>2. IsFiniteSet(Here) /\ sent \cup Outgoing \subseteq Here /\ Queued \subseteq Here
      /\ sent \subseteq Here /\ Outgoing \subseteq Here
  BY <1>1, FS_Subset DEF Here
<1>3. IsFiniteSet(sent \cup Outgoing) /\ IsFiniteSet(Queued)
      /\ IsFiniteSet(sent) /\ IsFiniteSet(Outgoing)
  BY <1>2, FS_Subset
<1>4. (sent \cup Outgoing) \cap Queued = {}
  <2>1. \A i \in sent \cup Outgoing : i \in Nat /\ \A j \in Queued : i < j
    BY <1>2, Window DEF QueueInv, Ordered, Before
  <2>2. QED
    BY <2>1
<1>5. Cardinality(Queued) = Len(queue.packets)
  BY QueueTyped, RisingSize DEF QueueInv, Ordered, Queued
<1>6. Here = (sent \cup Outgoing) \cup Queued
  BY DEF Here
<1>7. Cardinality({}) = 0
  BY FS_EmptySet
<1>8. /\ Cardinality(sent \cup Outgoing) \in Nat /\ Cardinality(Queued) \in Nat
  BY <1>3, FS_CardinalityType
<1>9. Cardinality(Here) = Cardinality(sent \cup Outgoing) + Cardinality(Queued)
  <2>1. Cardinality(Here) = Cardinality(sent \cup Outgoing) + Cardinality(Queued)
                              - Cardinality((sent \cup Outgoing) \cap Queued)
    BY <1>3, <1>6, FS_Union
  <2>2. Cardinality((sent \cup Outgoing) \cap Queued) = 0
    BY <1>4, <1>7
  <2>3. QED
    BY <1>8, <2>1, <2>2
<1>10. Cardinality(Here) \in Nat
  BY <1>2, FS_CardinalityType
<1>11. QED
  BY <1>2, <1>5, <1>8, <1>9, <1>10, QueueTyped, Window DEF Sized

\* Every step counts what it drops.
LEMMA CountedStep == QueueInv /\ Counted /\ [Next]_vars => Counted'
<1> SUFFICES ASSUME QueueInv, Counted, [Next]_vars, Running'
             PROVE  Cardinality(Here') + queue'.dropped = Newest' - conn'.first + 1
  BY DEF Counted
<1>0. Sized /\ Sized'
  <2>1. QueueInv'
    BY TypeStep, ControlStep, OrderedStep DEF QueueInv
  <2>2. QED
    BY <2>1, HereSized, PTL
<1>1. CASE Opens
  <2>1. Newest' = Len(produced) /\ Cardinality({}) = 0
    BY <1>1, FS_EmptySet DEF Opens, Newest
  <2>2. QED
    BY <1>1, <2>1, Window DEF Opens
<1>2. CASE Quiet
  BY <1>2 DEF Quiet, Counted
<1>3. ASSUME NEW kind \in Kinds, Makes(kind)
      PROVE  Cardinality(Here') + queue'.dropped = Newest' - conn'.first + 1
  BY <1>3 DEF Makes, Counted
<1>4. CASE Adds
  <2> DEFINE q == Considered
  <2>1. /\ Cardinality(Here) + queue.dropped = Newest - conn.first + 1
        /\ Newest' = Newest + 1 /\ conn'.first = conn.first
    BY <1>4, Window DEF Adds, Counted
  <2>2. /\ Cardinality(Here) = Cardinality(sent \cup Outgoing) + Len(queue.packets)
        /\ Cardinality(sent \cup Outgoing) \in Nat /\ Len(queue.packets) \in Nat
        /\ queue.dropped \in Nat
    BY <1>0 DEF Sized
  <2>3. Cardinality(Here') = Cardinality(sent' \cup Outgoing') + Len(queue'.packets)
    BY <1>0 DEF Sized
  <2>4. Cardinality(sent' \cup Outgoing') = Cardinality(sent \cup Outgoing)
    BY <1>4 DEF Adds
  <2>5. /\ Len(q.packets) + q.dropped = Len(queue.packets) + queue.dropped
        /\ q.packets \in Seq(Packets) /\ q.dropped \in Nat /\ q \in QueueType
        /\ Len(q.packets) \in Nat
    BY <1>4, LenProperties DEF Adds, Thinned, QueueType
  <2>6. Len(queue'.packets) + queue'.dropped = Len(q.packets) + q.dropped + 1
    <3>1. CASE TurnedAway
      <4>1. queue'.packets = q.packets /\ queue'.dropped = q.dropped + 1
        BY <2>5, <3>1 DEF TurnedAway, QueueType
      <4>2. QED
        <5> HIDE DEF q
        <5> QED BY <2>5, <4>1
    <3>2. CASE TakenIn
      <4>1. producer.packet \in Packets
        <5>1. Len(produced) \in 1..MaxPackets
          BY <1>4, Window, StreamAssumption DEF Adds, Control
        <5>2. QED
          BY <1>4, <5>1 DEF Adds, Packets
      <4>2. queue'.packets = Append(q.packets, producer.packet) /\ queue'.dropped = q.dropped
        BY <3>2 DEF TakenIn
      <4>3. Len(queue'.packets) = Len(q.packets) + 1
        <5> HIDE DEF q
        <5> QED BY <2>5, <4>1, <4>2, Added
      <4>4. QED
        <5> HIDE DEF q
        <5> QED BY <2>5, <4>2, <4>3
    <3>3. QED
      BY <1>4, <3>1, <3>2 DEF Adds
  <2>7. QED
    <3>1. Len(queue'.packets) \in Nat /\ queue'.dropped \in Nat
      BY <1>0 DEF Sized
    <3>2. Newest \in Int /\ conn.first \in Int
      BY Window
    <3>3. Len(queue'.packets) + queue'.dropped = Len(queue.packets) + queue.dropped + 1
      <4> HIDE DEF q
      <4> QED BY <2>5, <2>6
    <3>4. Cardinality(Here') = Cardinality(sent \cup Outgoing) + Len(queue'.packets)
      BY <2>3, <2>4
    <3>5. Cardinality(Here') + queue'.dropped
            = Cardinality(sent \cup Outgoing) + (Len(queue'.packets) + queue'.dropped)
      BY <2>2, <3>1, <3>4
    <3>6. @ = Cardinality(sent \cup Outgoing) + (Len(queue.packets) + queue.dropped + 1)
      BY <3>3
    <3>7. @ = Cardinality(Here) + queue.dropped + 1
      BY <2>2
    <3>8. @ = (Newest - conn.first + 1) + 1
      BY <2>1
    <3>9. @ = Newest' - conn'.first + 1
      BY <2>1, <3>2
    <3>10. QED
      BY <3>5, <3>6, <3>7, <3>8, <3>9
<1>5. QED
  BY <1>1, <1>2, <1>3, <1>4, HereStep

\* The packet just added is kept or sent until its post.
LEMMA PostIsHereStep == QueueInv /\ PostIsHere /\ [Next]_vars => PostIsHere'
<1> SUFFICES ASSUME QueueInv, PostIsHere, [Next]_vars, Running', producer'.pc = "post"
             PROVE  producer'.packet \in Here'
  BY DEF PostIsHere
<1>1. CASE Opens
  BY <1>1 DEF Opens
<1>2. CASE Quiet
  BY <1>2 DEF Quiet, PostIsHere
<1>3. ASSUME NEW kind \in Kinds, Makes(kind) PROVE producer'.packet \in Here'
  BY <1>3 DEF Makes
<1>4. CASE Adds
  BY <1>4 DEF Adds, TurnedAway, TakenIn, Here
<1>5. QED
  BY <1>1, <1>2, <1>3, <1>4, HereStep

\* Both hold of every behaviour.
LEMMA CountedInvariant == Spec => [](Counted /\ PostIsHere)
<1>1. Init => Counted /\ PostIsHere
  BY DEF Init, Counted, PostIsHere, Running
<1>2. QueueInv /\ Counted /\ PostIsHere /\ [Next]_vars => (Counted /\ PostIsHere)'
  BY CountedStep, PostIsHereStep
<1>3. QED
  BY <1>1, <1>2, QueueInvariant, PTL DEF Spec

\* Each packet is sent, queued, in somebody's hands or counted as dropped.
THEOREM DroppedAreCounted == Spec => []DroppedIsCounted
<1>1. QueueInv /\ Counted /\ PostIsHere => DroppedIsCounted
  <2> SUFFICES ASSUME QueueInv, Counted, PostIsHere, Running
               PROVE  Cardinality(sent \cup Queued \cup InHand) + queue.dropped
                        = Cardinality(Session)
    BY DEF DroppedIsCounted
  <2>0. /\ IsFiniteSet(Here) /\ Cardinality(Here) \in Nat /\ queue.dropped \in Nat
        /\ Cardinality(Here) + queue.dropped = Newest - conn.first + 1
    BY HereSized DEF Counted, Sized
  <2>1. Cardinality(Session) = Len(produced) - conn.first + 1
    <3>1. CASE conn.first <= Len(produced)
      <4>1. conn.first \in Int /\ Len(produced) \in Int
        BY Window
      <4>2. Cardinality(conn.first..Len(produced)) = Len(produced) - conn.first + 1
        BY <3>1, <4>1, FS_Interval
      <4>3. QED
        BY <4>2 DEF Session
    <3>2. CASE conn.first > Len(produced)
      <4>1. Session = {} /\ conn.first = Len(produced) + 1
        BY <3>2, Window DEF Session
      <4>2. QED
        BY <4>1, Window, FS_EmptySet
    <3>3. QED
      BY <3>1, <3>2, Window
  <2>2. InHand = Outgoing \cup (IF producer.pc = "idle" THEN {} ELSE {Len(produced)})
    <3>1. Len(produced) # Nobody
      BY Window, StreamAssumption
    <3>2. QED
      BY <3>1, Window DEF InHand, Outgoing, Control
  <2>3. CASE producer.pc = "lock"
    <3>1. Cardinality(sent \cup Queued \cup InHand) = Cardinality(Here \cup {Len(produced)})
      <4>1. sent \cup Queued \cup InHand = Here \cup {Len(produced)}
        BY <2>2, <2>3 DEF Here
      <4>2. QED
        BY <4>1
    <3>2. Newest = Len(produced) - 1
      BY <2>3 DEF Newest
    <3>3. Len(produced) \notin Here
      BY <3>2, Window
    <3>4. Cardinality(Here \cup {Len(produced)}) = Cardinality(Here) + 1
      BY <2>0, <3>3, FS_AddElement
    <3>5. Len(produced) \in Int /\ conn.first \in Int
      BY Window
    <3>6. Cardinality(sent \cup Queued \cup InHand) + queue.dropped
            = (Cardinality(Here) + 1) + queue.dropped
      BY <3>1, <3>4
    <3>7. @ = (Newest - conn.first + 1) + 1
      BY <2>0
    <3>8. @ = Cardinality(Session)
      BY <2>1, <3>2, <3>5
    <3>9. QED
      BY <3>6, <3>7, <3>8
  <2>4. CASE producer.pc # "lock"
    <3>1. producer.pc = "post" => Len(produced) \in Here
      BY Window DEF PostIsHere, Control
    <3>2. sent \cup Queued \cup InHand = Here
      BY <2>2, <2>4, <3>1, Window DEF Here, TypeOK
    <3>3. Newest = Len(produced)
      BY <2>4 DEF Newest
    <3>4. QED
      BY <2>0, <2>1, <3>2, <3>3
  <2>5. QED
    BY <2>3, <2>4
<1>2. QED
  BY <1>1, QueueInvariant, CountedInvariant, PTL

-----------------------------------------------------------------------------
(***************************************************************************)
(* Decodable.  Drop priorities do not tell keyframes from other intra       *)
(* frames: an "i" is kept where the frames before it are dropped, although *)
(* what follows it may still need them.  Elsewhere nothing is kept that    *)
(* needs what is dropped.                                                  *)
(***************************************************************************)
\* What drop priorities tell of a packet.
LEMMA KindsAre ==
  ASSUME QueueInv, NEW i \in 1..Len(produced)
  PROVE  /\ Kind(i) \in KindSet
         /\ DropPriority(i) = 3 <=> Kind(i) \in {"key", "i"}
         /\ DropPriority(i) = 2 <=> Kind(i) = "p"
         /\ Audio(i) <=> Kind(i) = "audio"
<1>1. produced[i] \in Kinds
  BY Window, ElementOfSeq
<1>2. Kind(i) \in KindSet
  BY <1>1, StreamAssumption DEF Kind
<1>3. QED
  BY <1>2 DEF DropPriority, Audio, KindSet

\* What is queued was made.
LEMMA QueuedMade ==
  ASSUME QueueInv
  PROVE  Queued \subseteq 1..Len(produced)
BY Window DEF Here

\* Where the checks of AddPacket ask for keyframes, no others are left.
LEMMA CheckedNarrow ==
  ASSUME QueueInv, Narrow
  PROVE  Considered.minPriority = 3 => ~Loose(Considered.packets)
<1> DEFINE Only(q) == q.minPriority = 3 => ~Loose(q.packets)
           Made(q) == q \in QueueType /\ ToSet(q.packets) \subseteq 1..Len(produced)
<1>1. ASSUME NEW q, Made(q), Only(q), NEW t, NEW p \in {2, 3}
      PROVE  Only(CheckToDropFrames(q, t, p)) /\ Made(CheckToDropFrames(q, t, p))
  <2>1. CASE CheckToDropFrames(q, t, p) = q
    BY <1>1, <2>1
  <2>2. CASE CheckToDropFrames(q, t, p) # q
    <3>1. PICK r : r = DropFrames(q, p)
      OBVIOUS
    <3>2. CheckToDropFrames(q, t, p) = r
      BY <2>2, <3>1 DEF CheckToDropFrames
    <3>3. /\ Thinned(q, r) /\ ToSet(r.packets) \subseteq ToSet(q.packets)
          /\ \A i \in ToSet(r.packets) : Audio(i) \/ DropPriority(i) >= p
      BY <1>1, <3>1, DropThins DEF Thinned
    <3>4. Made(r)
      BY <1>1, <3>3 DEF Thinned
    <3>5. Only(r)
      <4>1. CASE p = 3
        <5>1. \A i \in ToSet(r.packets) : Audio(i) \/ DropPriority(i) = 3
          BY <3>3, <4>1, Priorities
        <5>2. QED
          BY <3>4, <5>1, KindsAre DEF Loose
      <4>2. CASE p = 2
        <5>1. r.minPriority = IF q.minPriority < 2 THEN 2 ELSE q.minPriority
          BY <1>1, <3>1, <4>2 DEF DropFrames, QueueType
        <5>2. r.minPriority = 3 => q.minPriority = 3
          BY <5>1
        <5>3. QED
          BY <1>1, <3>3, <5>2 DEF Loose
      <4>3. QED
        BY <4>1, <4>2
    <3>6. QED
      BY <3>2, <3>4, <3>5
  <2>3. QED
    BY <2>1, <2>2
<1>2. Made(queue) /\ Only(queue)
  BY QueuedMade, QueueTyped, Window DEF Narrow, Queued, Loose
<1>3. Only(Checked(queue))
  <2>1. PICK r : r = CheckToDropFrames(queue, BDrop, 2)
    OBVIOUS
  <2> HIDE DEF Only, Made
  <2>2. Only(r) /\ Made(r)
    BY <1>1, <1>2, <2>1
  <2>3. Only(CheckToDropFrames(r, PDrop, 3))
    BY <1>1, <2>2
  <2>4. QED
    BY <2>1, <2>3 DEF Checked
<1>4. QED
  BY <1>2, <1>3 DEF Considered

\* What a step does to the queue, whoever runs.
LEMMA QueueStep ==
  ASSUME QueueInv, [Next]_vars
  PROVE  \/ queue' = queue /\ produced' = produced /\ conn'.first = conn.first
         \/ /\ queue'.packets = <<>>
            /\ produced' = produced
         \/ /\ GetNextPacket /\ queue.packets # <<>>
            /\ queue' = [queue EXCEPT !.packets = Tail(queue.packets)]
            /\ UNCHANGED <<produced, conn, producer>>
         \/ \E kind \in Kinds : Produce(kind)
         \/ AddPacket
<1>0. TypeOK
  BY Window
<1>1. CASE Post \/ SendWait \/ CanShutdownStream \/ SendPacket \/ UNCHANGED vars
  BY <1>1 DEF Post, SendWait, CanShutdownStream, SendPacket, Sending, vars
<1>2. CASE SendFails \/ Close \/ Reset \/ Unhook \/ \E force \in BOOLEAN : Stop(force)
  BY <1>0, <1>2 DEF SendFails, Close, Reset, Unhook, Stop, Sending, TypeOK, ConnType
<1>3. CASE GetNextPacket
  BY <1>3 DEF GetNextPacket, Sending
<1>4. CASE FreePackets \/ OpenSession
  BY <1>0, <1>4, QueueTyped DEF FreePackets, OpenSession, Sending, QueueType
<1>5. QED
  BY <1>1, <1>2, <1>3, <1>4 DEF Next, ProducerStep, SenderStep

\* Every step keeps the queue narrow while frames are dropped down to the
\* keyframes.
LEMMA NarrowStep == QueueInv /\ Narrow /\ [Next]_vars => Narrow'
<1> SUFFICES ASSUME QueueInv, Narrow, [Next]_vars, queue'.minPriority = 3, NEW i \in Queued'
             PROVE  Kind(i)' \notin {"p", "b"}
  BY DEF Narrow
<1>0. queue \in QueueType /\ queue.packets \in Seq(Packets)
  BY QueueTyped, Window
<1>1. CASE queue' = queue /\ produced' = produced /\ conn'.first = conn.first
  BY <1>1 DEF Narrow, Queued, Kind
<1>2. CASE queue'.packets = <<>> /\ produced' = produced
  BY <1>2, EmptyQueue DEF Queued
<1>3. CASE /\ GetNextPacket /\ queue.packets # <<>>
           /\ queue' = [queue EXCEPT !.packets = Tail(queue.packets)]
           /\ UNCHANGED <<produced, conn, producer>>
  <2>1. queue'.packets = Tail(queue.packets) /\ queue'.minPriority = queue.minPriority
    BY <1>0, <1>3 DEF QueueType
  <2>2. i \in Queued
    BY <1>0, <1>3, <2>1, Taken DEF Queued
  <2>3. QED
    BY <1>3, <2>1, <2>2 DEF Narrow, Kind
<1>4. ASSUME NEW kind \in Kinds, Produce(kind) PROVE Kind(i)' \notin {"p", "b"}
  <2>1. queue' = queue /\ produced' = Append(produced, kind)
    BY <1>4 DEF Produce
  <2>2. i \in Queued /\ i \in 1..Len(produced)
    BY <2>1, QueuedMade DEF Queued
  <2>3. QED
    BY <2>1, <2>2, Window, KindsKept DEF Narrow, Kind
<1>5. CASE AddPacket
  <2>1. /\ producer.packet \in Packets /\ Considered \in QueueType
        /\ \/ queue' = queue \/ TurnedAway \/ TakenIn
    BY <1>5, Window, AddPacketOutcome DEF Thinned
  <2>2. produced' = produced
    BY <1>5 DEF AddPacket
  <2>3. CASE queue' = queue
    BY <2>2, <2>3 DEF Narrow, Queued, Kind
  <2>4. CASE TurnedAway
    <3>1. queue'.packets = Considered.packets /\ queue'.minPriority = Considered.minPriority
      BY <2>1, <2>4 DEF TurnedAway, QueueType
    <3>2. QED
      BY <2>2, <3>1, CheckedNarrow DEF Queued, Kind, Loose
  <2>5. CASE TakenIn
    <3>1. Audio(producer.packet) /\ Considered.minPriority = 3
      BY <2>5 DEF TakenIn
    <3>2. i \in ToSet(Considered.packets) \cup {producer.packet}
      <4>1. PICK s \in Seq(Packets) : s = Considered.packets
        BY <2>1 DEF QueueType
      <4>2. queue'.packets = Append(s, producer.packet)
        BY <2>5, <4>1 DEF TakenIn
      <4>3. ToSet(Append(s, producer.packet)) = ToSet(s) \cup {producer.packet}
        BY <2>1, Added
      <4>4. QED
        BY <4>1, <4>2, <4>3 DEF Queued
    <3>3. QED
      BY <2>2, <3>1, <3>2, CheckedNarrow DEF Kind, Audio, Loose
  <2>6. QED
    BY <2>1, <2>3, <2>4, <2>5
<1>6. QED
  BY <1>1, <1>2, <1>3, <1>4, <1>5, QueueStep

\* What a frame needs are the reference frames before it.
LEMMA NeedsAre ==
  \A i : /\ Needs(i) = IF Kind(i) \in {"audio", "key", "i"} THEN {} ELSE Reference(i - 1)
         /\ Needs(i) \subseteq conn.first..(i - 1)
BY DEF Needs, Reference

\* Every step keeps complete what is here: a drop of "p" frames takes with it
\* all that need them, and the next frame is turned away until a keyframe.
LEMMA CompleteStep == QueueInv /\ Narrow /\ Complete /\ [Next]_vars => Complete'
<1> DEFINE AllStay == \A i \in Here' : Steady(Needs(i))' => Needs(i)' \subseteq Here'
           NextStays == queue'.minPriority < 3 /\ Steady(Reference(Newest))'
                          => Reference(Newest)' \subseteq Here'
<1> SUFFICES ASSUME QueueInv, Narrow, Complete, [Next]_vars, Running'
             PROVE  AllStay /\ NextStays
  BY DEF Complete
<1>0. QueueInv'
  BY TypeStep, ControlStep, OrderedStep DEF QueueInv
<1>1. CASE Opens
  <2>1. Newest' = Len(produced) /\ Here' = {} /\ conn'.first = Len(produced) + 1
    BY <1>1 DEF Opens, Newest
  <2>2. Reference(Newest)' = {}
    BY <2>1, Window DEF Reference
  <2>3. QED
    BY <2>1, <2>2
<1>2. CASE Quiet
  <2>1. \A i : Needs(i)' = Needs(i) /\ Reference(i)' = Reference(i)
    BY <1>2 DEF Quiet, Needs, Reference, Kind
  <2>2. Reference(Newest)' = Reference(Newest)
    BY <1>2 DEF Quiet, Reference, Kind
  <2>3. \A i : Kind(i)' = Kind(i)
    BY <1>2 DEF Quiet, Kind
  <2>4. /\ \A i : Steady(Needs(i))' = Steady(Needs(i))
        /\ Steady(Reference(Newest))' = Steady(Reference(Newest))
    BY <2>1, <2>2, <2>3 DEF Steady
  <2>5. QED
    BY <1>2, <2>1, <2>2, <2>4 DEF Quiet, Complete
<1>3. ASSUME NEW kind \in Kinds, Makes(kind)
      PROVE  AllStay /\ NextStays
  <2>1. \A j \in 1..Len(produced) : Kind(j)' = Kind(j)
    BY <1>3, Window, KindsKept DEF Makes, Kind
  <2>2. Here' = Here /\ conn' = conn /\ queue' = queue /\ Newest' = Newest /\ Running
    BY <1>3 DEF Makes
  <2>3. ASSUME NEW n \in 0..Len(produced) PROVE Reference(n)' = Reference(n)
    <3>1. /\ \A j \in conn.first..n : Kind(j)' = Kind(j)
          /\ \A j \in conn.first..n : \A k \in (j + 1)..n : Kind(k)' = Kind(k)
      BY <2>1, Window
    <3>2. conn'.first..n = conn.first..n
      BY <2>2
    <3>3. QED
      BY <3>1, <3>2 DEF Reference
  <2>4. \A i \in Here : Needs(i)' = Needs(i)
    <3> SUFFICES ASSUME NEW i \in Here PROVE Needs(i)' = Needs(i)
      OBVIOUS
    <3>1. i \in 1..Len(produced) /\ i - 1 \in 0..Len(produced)
      BY Window
    <3>2. Reference(i - 1)' = Reference(i - 1) /\ Kind(i)' = Kind(i)
      BY <2>1, <2>3, <3>1
    <3>3. Needs(i)' = IF Kind(i)' \in {"audio", "key", "i"} THEN {} ELSE Reference(i - 1)'
      BY DEF Needs, Reference
    <3>4. QED
      BY <3>2, <3>3, NeedsAre
  <2>5. Reference(Newest)' = Reference(Newest)
    <3>1. Newest \in 0..Len(produced)
      BY Window
    <3>2. Reference(Newest)' = {j \in conn'.first..Newest' :
            /\ Kind(j)' \in {"key", "i", "p"}
            /\ \A k \in (j + 1)..Newest' : Kind(k)' # "key"}
      BY DEF Reference
    <3>3. \A j \in conn.first..Newest : /\ Kind(j)' = Kind(j)
                                        /\ \A k \in (j + 1)..Newest : Kind(k)' = Kind(k)
      BY <2>1, Window
    <3>4. QED
      BY <2>2, <3>2, <3>3 DEF Reference
  <2>6. \A R \in SUBSET (1..Len(produced)) : (\A j \in R : Kind(j)' # "i") = Steady(R)
    BY <2>1 DEF Steady
  <2>7. \A i \in Here : Steady(Needs(i))' = Steady(Needs(i))
    <3> SUFFICES ASSUME NEW i \in Here PROVE Steady(Needs(i))' = Steady(Needs(i))
      OBVIOUS
    <3>1. Needs(i) \subseteq 1..Len(produced)
      BY NeedsAre, Window
    <3>2. Steady(Needs(i))' = \A j \in Needs(i)' : Kind(j)' # "i"
      BY DEF Steady
    <3>3. QED
      BY <2>4, <2>6, <3>1, <3>2
  <2>8. Steady(Reference(Newest))' = Steady(Reference(Newest))
    <3>1. Reference(Newest) \subseteq 1..Len(produced)
      BY Window DEF Reference
    <3>2. Steady(Reference(Newest))' = \A j \in Reference(Newest)' : Kind(j)' # "i"
      BY DEF Steady
    <3>3. QED
      BY <2>5, <2>6, <3>1, <3>2
  <2>9. QED
    BY <2>2, <2>4, <2>5, <2>7, <2>8 DEF Complete
<1>4. CASE Adds
  <2> DEFINE i == producer.packet
             rest == ToSet(Considered.packets)
             stay == sent \cup Outgoing \cup rest
             min == Considered.minPriority
  <2>1. /\ i = Len(produced) /\ Newest = i - 1 /\ Newest' = i /\ Running
        /\ conn' = conn /\ produced' = produced /\ sent' = sent /\ Outgoing' = Outgoing
        /\ i \in 1..Len(produced)
        /\ rest \subseteq Queued
        /\ \A d \in Queued \ rest : ~Audio(d) /\ DropPriority(d) < min
        /\ min \in {0, 2, 3} /\ queue.minPriority \in 0..3 /\ min >= queue.minPriority
    <3>1. /\ i = Len(produced) /\ Newest = i - 1 /\ Newest' = i /\ Running
          /\ conn' = conn /\ produced' = produced /\ sent' = sent /\ Outgoing' = Outgoing
      BY <1>4 DEF Adds
    <3>2. i \in 1..Len(produced)
      BY <3>1, Window
    <3>3. /\ rest \subseteq Queued
          /\ \A d \in Queued \ rest : ~Audio(d) /\ DropPriority(d) < min
          /\ min \in {queue.minPriority, 2, 3} /\ min >= queue.minPriority
      BY <1>4 DEF Adds, Thinned, Queued
    <3>4. queue.minPriority \in {0, 2, 3}
      BY Window DEF Control
    <3>5. QED
      BY <3>1, <3>2, <3>3, <3>4
  <2>2. min = 3 => \A h \in rest : Needs(h) = {}
    <3>1. min = 3 => \A h \in rest : Kind(h) \notin {"p", "b"}
      BY CheckedNarrow DEF Loose
    <3>2. \A h \in rest : h \in 1..Len(produced)
      BY <2>1, QueuedMade
    <3>3. QED
      BY <3>1, <3>2, NeedsAre, KindsAre DEF KindSet
  <2>3. Here \subseteq 1..Len(produced) /\ Here = stay \cup Queued
    BY <2>1, Window DEF Here
  <2>4. \A h \in sent \cup Outgoing, d \in Queued : h < d
    BY DEF QueueInv, Ordered, Before
  <2>5. \A i1 : Needs(i1)' = Needs(i1) /\ Reference(i1)' = Reference(i1)
    BY <2>1 DEF Needs, Reference, Kind
  <2>6. /\ Reference(Newest)' = Reference(i)
        /\ Steady(Reference(Newest))' = Steady(Reference(i))
        /\ \A i1 : Steady(Needs(i1))' = Steady(Needs(i1))
    BY <2>1 DEF Reference, Kind, Steady, Needs
  <2> HIDE DEF rest, min
  <2>7. ASSUME NEW h \in stay, Steady(Needs(h)) PROVE Needs(h) \subseteq stay
    <3> SUFFICES ASSUME NEW j \in Needs(h), j \notin stay PROVE FALSE
      OBVIOUS
    <3>1. h \in Here /\ j \in Here
      BY <2>1, <2>3, <2>7 DEF Complete
    <3>2. j \in Queued \ rest /\ j \in 1..Len(produced) /\ h \in 1..Len(produced)
      BY <2>3, <3>1
    <3>3. DropPriority(j) < min
      BY <2>1, <3>2
    <3>4. Kind(j) \in {"key", "i", "p"}
      BY DEF Needs
    <3>5. DropPriority(j) \in {2, 3}
      BY <3>4 DEF DropPriority
    <3>6. min = 3
      BY <2>1, <3>3, <3>5
    <3>7. j < h
      BY <3>2, NeedsAre
    <3>8. h \notin sent \cup Outgoing
      BY <2>4, <3>2, <3>7
    <3>9. h \in rest
      BY <3>8
    <3>10. QED
      BY <2>2, <3>6, <3>9
  <2>8. min < 3 /\ Steady(Reference(i - 1)) => Reference(i - 1) \subseteq stay
    <3> SUFFICES ASSUME min < 3, Steady(Reference(i - 1)), NEW j \in Reference(i - 1)
                 PROVE  j \in stay
      OBVIOUS
    <3>1. j \in Here
      BY <2>1 DEF Complete
    <3>2. Kind(j) \in {"key", "i", "p"}
      BY DEF Reference
    <3>3. DropPriority(j) \in {2, 3}
      BY <3>2 DEF DropPriority
    <3>4. ~(DropPriority(j) < min)
      BY <2>1, <3>3
    <3>5. QED
      BY <2>1, <2>3, <3>1, <3>4
  <2>9. Reference(i) \subseteq Reference(i - 1) \cup {i}
    <3>1. \A j \in conn.first..i : j = i \/ (j \in conn.first..(i - 1)
                                            /\ (j + 1)..(i - 1) \subseteq (j + 1)..i)
      BY <2>1, Window
    <3>2. QED
      BY <3>1 DEF Reference
  <2>95. ASSUME Kind(i) # "key", Steady(Reference(i)) PROVE Steady(Reference(i - 1))
    <3>1. Reference(i - 1) \subseteq Reference(i)
      <4>1. \A j \in conn.first..(i - 1) :
               j \in conn.first..i /\ \A k \in (j + 1)..i : k = i \/ k \in (j + 1)..(i - 1)
        BY <2>1, Window
      <4>2. QED
        BY <2>95, <4>1 DEF Reference
    <3>2. QED
      BY <2>95, <3>1 DEF Steady
  <2>10. CASE TurnedAway
    <3>1. Here' = stay
      BY <1>4, <2>1, <2>10 DEF Adds, Here, rest, TakenIn, TurnedAway
    <3>2. ~Audio(i) /\ DropPriority(i) < min /\ queue'.minPriority = min
      BY <1>4, <2>10 DEF Adds, TurnedAway, TakenIn, min
    <3>3. min < 3 => i \notin Reference(i)
      <4>1. min < 3 => DropPriority(i) = 0
        BY <2>1, <3>2, Priorities
      <4>2. DropPriority(i) = 0 => Kind(i) \notin {"key", "i", "p"}
        BY DEF DropPriority
      <4>3. QED
        BY <4>1, <4>2 DEF Reference
    <3>4. min < 3 => Kind(i) # "key"
      BY <2>1, <3>2, KindsAre
    <3>5. AllStay
      BY <2>5, <2>6, <2>7, <3>1
    <3>6. NextStays
      BY <2>6, <2>8, <2>9, <2>95, <3>1, <3>2, <3>3, <3>4
    <3>7. QED
      BY <3>5, <3>6
  <2>11. CASE TakenIn
    <3>1. Here' = stay \cup {i}
      BY <1>4, <2>1, <2>11 DEF Adds, Here, rest, TakenIn, TurnedAway
    <3>2. /\ Audio(i) \/ DropPriority(i) >= min
          /\ queue'.minPriority = IF Audio(i) THEN min ELSE 0
      BY <2>11 DEF TakenIn, min
    <3>3. Kind(i) \in {"p", "b"} => min < 3
      BY <2>1, <3>2, KindsAre, Priorities
    <3>4. Steady(Needs(i)) => Needs(i) \subseteq stay
      <4>1. CASE Kind(i) \in {"p", "b"}
        BY <2>8, <3>3, <4>1, NeedsAre
      <4>2. CASE Kind(i) \notin {"p", "b"}
        BY <2>1, <4>2, NeedsAre, KindsAre DEF KindSet
      <4>3. QED
        BY <4>1, <4>2
    <3>5. Kind(i) = "key" => Reference(i) \subseteq {i}
      <4>1. \A j \in conn.first..i : j # i => i \in (j + 1)..i
        BY <2>1, Window
      <4>2. QED
        BY <4>1 DEF Reference
    <3>6. Kind(i) = "i" => ~Steady(Reference(i))
      <4>1. i \in conn.first..i /\ (i + 1)..i = {}
        BY <2>1, Window
      <4>2. QED
        BY <4>1 DEF Reference, Steady
    <3>7. queue'.minPriority < 3 /\ Steady(Reference(i)) => Reference(i) \subseteq stay \cup {i}
      <4> SUFFICES ASSUME queue'.minPriority < 3, Steady(Reference(i)), Kind(i) # "key"
                   PROVE  Reference(i) \subseteq stay \cup {i}
        BY <3>5
      <4>1. Steady(Reference(i - 1)) /\ Kind(i) # "i"
        BY <2>95, <3>6
      <4>2. min < 3
        BY <2>1, <3>2, <3>3, <4>1, KindsAre DEF KindSet
      <4>3. QED
        BY <2>8, <2>9, <4>1, <4>2
    <3>8. AllStay
      BY <2>5, <2>6, <2>7, <3>1, <3>4
    <3>9. NextStays
      BY <2>6, <3>1, <3>7
    <3>10. QED
      BY <3>8, <3>9
  <2>12. QED
    BY <1>4, <2>10, <2>11 DEF Adds
<1>5. QED
  BY <1>1, <1>2, <1>3, <1>4, HereStep

\* Both hold of every behaviour.
LEMMA CompleteInvariant == Spec => [](Narrow /\ Complete)
<1>1. Init => Narrow /\ Complete
  BY DEF Init, Narrow, Complete, Running
<1>2. QueueInv /\ Narrow /\ Complete /\ [Next]_vars => (Narrow /\ Complete)'
  BY NarrowStep, CompleteStep
<1>3. QED
  BY <1>1, <1>2, QueueInvariant, PTL DEF Spec

\* A frame is sent after what it needs: these are before it in the queue.
LEMMA DecodableStep ==
  QueueInv /\ Complete /\ Decodable /\ [Next]_vars => Decodable'
<1> SUFFICES ASSUME QueueInv, Complete, Decodable, [Next]_vars, NEW i \in sent'
             PROVE  Steady(Needs(i))' => Needs(i)' \subseteq sent'
  BY DEF Decodable, Steady
<1>0. TypeOK /\ Control
  BY Window
<1>1. CASE /\ UNCHANGED <<produced, sent>> /\ conn'.first = conn.first
  BY <1>1 DEF Decodable, Needs, Kind, Steady
<1>2. CASE SendPacket
  <2>1. /\ UNCHANGED <<produced, conn>> /\ sent' = sent \cup {sender.packet}
        /\ sender.pc = "send_packet" /\ Outgoing = {sender.packet}
    BY <1>2 DEF SendPacket, Sending, Outgoing
  <2>2. \A j : Needs(j)' = Needs(j) /\ Steady(Needs(j))' = Steady(Needs(j))
    BY <2>1 DEF Needs, Kind, Steady
  <2>3. CASE i \in sent
    BY <2>1, <2>2, <2>3 DEF Decodable, Steady
  <2>4. CASE i = sender.packet
    <3>1. Running
      BY <1>0, <2>1 DEF Running, Control
    <3>2. i \in Here /\ (Steady(Needs(i)) => Needs(i) \subseteq Here)
      BY <2>1, <2>4, <3>1 DEF Complete, Here
    <3>3. ASSUME Steady(Needs(i)), NEW j \in Needs(i) PROVE j \in sent
      <4>1. j \in Here /\ j < i /\ i \in Nat /\ j \in Nat
        BY <3>2, <3>3, NeedsAre, Window
      <4>2. \A k \in Queued : i < k
        BY <2>1, <2>4 DEF QueueInv, Ordered, Before
      <4>3. j \notin Queued /\ j # i
        BY <4>1, <4>2
      <4>4. QED
        BY <2>1, <2>4, <4>1, <4>3 DEF Here
    <3>4. QED
      BY <2>1, <2>2, <3>3
  <2>5. QED
    BY <2>1, <2>3, <2>4
<1>3. ASSUME NEW kind \in Kinds, Produce(kind) 
      PROVE  Steady(Needs(i))' => Needs(i)' \subseteq sent'
  <2>1. /\ sent' = sent /\ conn' = conn /\ produced' = Append(produced, kind)
    BY <1>3 DEF Produce
  <2>2. i \in 1..Len(produced)
    BY <2>1, Window DEF Here
  <2>3. \A j \in 1..Len(produced) : Kind(j)' = Kind(j)
    BY <2>1, Window, KindsKept DEF Kind
  <2>4. Needs(i)' = Needs(i)
    <3>1. \A j \in conn.first..(i - 1) : /\ Kind(j)' = Kind(j)
                                         /\ \A k \in (j + 1)..(i - 1) : Kind(k)' = Kind(k)
      BY <2>2, <2>3, Window
    <3>2. QED
      BY <2>1, <2>2, <2>3, <3>1 DEF Needs
  <2>5. Steady(Needs(i))' = Steady(Needs(i))
    <3>1. Needs(i) \subseteq 1..Len(produced)
      BY <2>2, NeedsAre, Window
    <3>2. QED
      BY <2>3, <2>4, <3>1 DEF Steady
  <2>6. QED
    BY <2>1, <2>4, <2>5 DEF Decodable, Steady
<1>4. CASE OpenSession
  BY <1>4 DEF OpenSession
<1>5. QED
  <2>1. CASE AddPacket \/ Post \/ SendWait \/ GetNextPacket \/ CanShutdownStream
               \/ FreePackets \/ UNCHANGED vars
    BY <1>1, <2>1 DEF AddPacket, Post, SendWait, GetNextPacket, CanShutdownStream,
       FreePackets, Sending, vars
  <2>2. CASE SendFails \/ Close \/ Reset \/ Unhook \/ \E force \in BOOLEAN : Stop(force)
    <3>1. UNCHANGED <<produced, sent>> /\ conn'.first = conn.first
      BY <1>0, <2>2 DEF SendFails, Close, Reset, Unhook, Stop, Sending, TypeOK, ConnType
    <3>2. QED
      BY <1>1, <3>1
  <2>3. QED
    BY <1>2, <1>3, <1>4, <2>1, <2>2 DEF Next, ProducerStep, SenderStep

\* Whatever is dropped, every frame sent can be decoded: the frames it was
\* made from were sent before it, unless one of them is an intra frame that
\* is no keyframe.
THEOREM SentDecodes == Spec => []Decodable
<1>1. Init => Decodable
  BY DEF Init, Decodable
<1>2. QueueInv /\ Narrow /\ Complete /\ Decodable /\ [Next]_vars => Decodable'
  BY DecodableStep
<1>3. QED
  BY <1>1, <1>2, QueueInvariant, CompleteInvariant, PTL DEF Spec

-----------------------------------------------------------------------------
(***************************************************************************)
(* The backlog.                                                            *)
(***************************************************************************)
\* No two "b" follow each other without another frame between them.
LEMMA AlternatingStep == QueueInv /\ Alternating /\ [Next]_vars => Alternating'
<1> SUFFICES ASSUME QueueInv, Alternating, [Next]_vars PROVE Alternating'
  OBVIOUS
<1>0. TypeOK
  BY Window
<1>1. CASE produced' = produced /\ conn'.first = conn.first
  BY <1>1 DEF Alternating, Session, Kind
<1>2. CASE produced' = produced /\ conn'.first = Len(produced) + 1
  <2>1. Session' = {}
    BY <1>2, Window DEF Session
  <2>2. QED
    BY <2>1 DEF Alternating
<1>3. ASSUME NEW kind \in Kinds, Produce(kind) PROVE Alternating'
  <2> DEFINE n == Len(produced)
  <2>1. /\ conn' = conn /\ produced' = Append(produced, kind)
        /\ Len(produced') = n + 1 /\ produced'[n + 1] = kind
        /\ \A j \in 1..n : Kind(j)' = Kind(j)
    BY <1>3, Window, KindsKept DEF Produce, Kind
  <2>2. Session' = Session \cup {n + 1} /\ Session \subseteq 1..n
    BY <2>1, Window DEF Session
  <2> SUFFICES ASSUME NEW i \in Session', NEW j \in Session', i < j,
                      Kind(i)' = "b", Kind(j)' = "b"
               PROVE  \E k \in Session' : i < k /\ k < j /\ Kind(k)' \notin {"audio", "b"}
    BY DEF Alternating
  <2>3. i \in Session
    BY <2>2, Window
  <2>4. CASE j \in Session
    <3>1. Kind(i) = "b" /\ Kind(j) = "b"
      BY <2>1, <2>2, <2>3, <2>4
    <3>2. PICK k \in Session : i < k /\ k < j /\ Kind(k) \notin {"audio", "b"}
      BY <2>3, <2>4, <3>1 DEF Alternating
    <3>3. QED
      BY <2>1, <2>2, <3>2
  <2>5. CASE j = n + 1
    <3>1. kind = "b"
      BY <2>1, <2>5 DEF Kind
    <3>2. i \in Frames(n)
      BY <2>1, <2>2, <2>3, Window DEF Frames, Audio, Session
    <3>3. PICK k \in Frames(n) : Kind(k) # "b" /\ \A m \in Frames(n) : m <= k
      BY <1>3, <3>1, <3>2 DEF Produce
    <3>4. k \in Session /\ Kind(k) \notin {"audio", "b"} /\ k < j
      BY <2>5, <3>3, Window DEF Frames, Session, Audio
    <3>5. i <= k /\ i # k
      BY <2>1, <2>2, <2>3, <3>2, <3>3
    <3>6. i \in Nat /\ k \in Nat
      BY <2>2, <2>3, <3>4
    <3>7. QED
      BY <2>1, <2>2, <3>4, <3>5, <3>6
  <2>6. QED
    BY <2>2, <2>4, <2>5
<1>4. QED
  <2>1. CASE OpenSession
    BY <1>0, <1>2, <2>1 DEF OpenSession, TypeOK, ConnType
  <2>2. CASE AddPacket \/ Post \/ SenderStep \/ Unhook \/ UNCHANGED vars
               \/ \E force \in BOOLEAN : Stop(force)
    <3>1. produced' = produced /\ conn'.first = conn.first
      BY <1>0, <2>2 DEF AddPacket, Post, SenderStep, SendWait, GetNextPacket,
         CanShutdownStream, SendPacket, SendFails, Close, FreePackets, Reset, Unhook,
         Stop, Sending, vars, TypeOK, ConnType
    <3>2. QED
      BY <1>1, <3>1
  <2>3. QED
    BY <1>3, <2>1, <2>2 DEF Next, ProducerStep

\* A new packet changes no time.
LEMMA ProduceTimes ==
  ASSUME QueueInv, NEW kind \in Kinds, Produce(kind), NEW n \in 1..Len(produced)
  PROVE  Kind(n)' = Kind(n) /\ Audio(n)' = Audio(n) /\ Dts(n)' = Dts(n)
<1>1. /\ conn' = conn
      /\ \A j \in 1..Len(produced) : Kind(j)' = Kind(j) /\ Audio(j)' = Audio(j)
  BY Window, KindsKept DEF Produce, Kind, Audio
<1>2. \A j \in conn.first..n : j \in 1..Len(produced)
  BY Window
<1>3. Frames(n)' = Frames(n)
  <2>1. Frames(n)' = {j \in conn'.first..n : ~Audio(j)'}
    BY DEF Frames
  <2>2. QED
    BY <1>1, <1>2, <2>1 DEF Frames
<1>4. QED
  BY <1>1, <1>3 DEF Dts

\* The callback decides on packets for a connection that is up.
Live == ~conn.disconnected /\ (conn.active \/ producer.pc = "lock")

\* Every step keeps last_dts_usec at the last frame that came.
LEMMA LastFrameStep == QueueInv /\ Narrow /\ LastFrame /\ [Next]_vars => LastFrame'
<1> SUFFICES ASSUME QueueInv, Narrow, LastFrame, [Next]_vars,
                    Loose(queue.packets)', Live'
             PROVE  \E i \in conn'.first..Newest' :
                       /\ queue'.lastDts = Dts(i)'
                       /\ \A j \in (i + 1)..Newest' :
                            Audio(j)' \/ (Kind(j)' = "b" /\ queue'.minPriority = 2)
  BY DEF LastFrame, Live
<1> DEFINE IsLast(i) == /\ queue.lastDts = Dts(i)
                        /\ \A j \in (i + 1)..Newest :
                             Audio(j) \/ (Kind(j) = "b" /\ queue.minPriority = 2)
<1>0. /\ TypeOK /\ Control /\ queue \in QueueType /\ queue.packets \in Seq(Packets)
      /\ Loose(queue.packets)'
      /\ (Loose(queue.packets) /\ Live => \E i \in conn.first..Newest : IsLast(i))
  BY QueueTyped, Window DEF LastFrame, Live
<1>1. ASSUME produced' = produced, conn'.first = conn.first, Newest' = Newest,
             queue'.lastDts = queue.lastDts, queue'.minPriority = queue.minPriority,
             Live, Loose(queue.packets)
      PROVE  \E i \in conn'.first..Newest' :
                       /\ queue'.lastDts = Dts(i)'
                       /\ \A j \in (i + 1)..Newest' :
                            Audio(j)' \/ (Kind(j)' = "b" /\ queue'.minPriority = 2)
  <2>1. \A i : Dts(i)' = Dts(i) /\ Audio(i)' = Audio(i) /\ Kind(i)' = Kind(i)
    BY <1>1 DEF Dts, Frames, Audio, Kind
  <2>2. PICK i \in conn.first..Newest : IsLast(i)
    BY <1>0, <1>1
  <2>3. QED
    BY <1>1, <2>1, <2>2
<1>2. CASE Post \/ SendWait \/ CanShutdownStream \/ SendPacket \/ UNCHANGED vars
           \/ Close \/ Reset \/ Unhook \/ \E force \in BOOLEAN : Stop(force)
  <2>1. /\ produced' = produced /\ conn'.first = conn.first /\ queue' = queue
        /\ conn'.disconnected = conn.disconnected
    BY <1>0, <1>2 DEF Post, SendWait, CanShutdownStream, SendPacket, vars, Close, Reset,
       Unhook, Stop, Sending, TypeOK, ConnType
  <2>2. Newest' = Newest /\ (producer'.pc = "lock" => producer.pc = "lock")
    <3>1. CASE Post
      BY <2>1, <3>1 DEF Post, Newest
    <3>2. CASE SendWait \/ CanShutdownStream \/ SendPacket \/ UNCHANGED vars
               \/ Close \/ Reset \/ Unhook \/ \E force \in BOOLEAN : Stop(force)
      <4>1. producer' = producer
        BY <3>2 DEF SendWait, CanShutdownStream, SendPacket, vars, Close, Reset,
           Unhook, Stop, Sending
      <4>2. QED
        BY <2>1, <4>1 DEF Newest
    <3>3. QED
      BY <1>2, <3>1, <3>2
  <2>3. Live
    <3>1. CASE Reset
      <4>1. conn.active
        BY <1>0, <3>1 DEF Reset, Control
      <4>2. QED
        BY <2>1, <4>1 DEF Live
    <3>2. CASE Post \/ SendWait \/ CanShutdownStream \/ SendPacket \/ UNCHANGED vars
               \/ Close \/ Unhook \/ \E force \in BOOLEAN : Stop(force)
      <4>1. conn'.active = conn.active
        BY <1>0, <3>2 DEF Post, SendWait, CanShutdownStream, SendPacket, vars, Close,
           Unhook, Stop, Sending, TypeOK, ConnType
      <4>2. QED
        BY <2>1, <2>2, <4>1 DEF Live
    <3>3. QED
      BY <1>2, <3>1, <3>2
  <2>4. Loose(queue.packets)
    BY <1>0, <2>1 DEF Loose, Kind
  <2>5. QED
    BY <1>1, <2>1, <2>2, <2>3, <2>4
<1>3. CASE SendFails
  BY <1>0, <1>3 DEF SendFails, Live, TypeOK, ConnType
<1>4. CASE GetNextPacket
  <2>1. CASE queue.packets = <<>>
    <3>1. queue' = queue
      BY <1>4, <2>1 DEF GetNextPacket
    <3>2. QED
      BY <1>0, <2>1, <3>1, EmptyQueue DEF Loose
  <2>2. CASE queue.packets # <<>>
    <3>1. /\ queue' = [queue EXCEPT !.packets = Tail(queue.packets)]
          /\ UNCHANGED <<produced, conn, producer>>
      BY <1>4, <2>2 DEF GetNextPacket, Sending
    <3>2. /\ queue'.packets = Tail(queue.packets) /\ queue'.lastDts = queue.lastDts
          /\ queue'.minPriority = queue.minPriority
      BY <1>0, <3>1 DEF QueueType
    <3>3. Loose(queue.packets)
      BY <1>0, <2>2, <3>1, <3>2, Taken DEF Loose, Kind
    <3>4. Live /\ Newest' = Newest
      BY <3>1 DEF Live, Newest
    <3>5. QED
      BY <1>1, <3>1, <3>2, <3>3, <3>4
  <2>3. QED
    BY <2>1, <2>2
<1>5. CASE FreePackets \/ OpenSession
  <2>1. queue'.packets = <<>>
    BY <1>0, <1>5 DEF FreePackets, OpenSession, QueueType
  <2>2. QED
    BY <1>0, <2>1, EmptyQueue DEF Loose
<1>6. ASSUME NEW kind \in Kinds, Produce(kind)
      PROVE  \E i \in conn'.first..Newest' :
                       /\ queue'.lastDts = Dts(i)'
                       /\ \A j \in (i + 1)..Newest' :
                            Audio(j)' \/ (Kind(j)' = "b" /\ queue'.minPriority = 2)
  <2>1. /\ conn' = conn /\ queue' = queue /\ producer.pc = "idle"
        /\ Len(produced') = Len(produced) + 1
    BY <1>6, Window, KindsKept DEF Produce
  <2>2. conn.active /\ ~conn.disconnected /\ producer'.pc = "lock"
    BY <1>6, <2>1 DEF Live, Produce
  <2>3. Newest' = Newest /\ Live
    BY <2>1, <2>2, Window DEF Newest, Live
  <2>4. Loose(queue.packets)
    <3>1. PICK i \in ToSet(queue'.packets) : Kind(i)' \in {"p", "b"}
      BY <1>0 DEF Loose
    <3>2. i \in Queued /\ i \in 1..Len(produced)
      BY <2>1, <3>1, QueuedMade DEF Queued
    <3>3. QED
      BY <1>6, <3>1, <3>2, ProduceTimes DEF Loose, Queued
  <2>5. PICK i \in conn.first..Newest : IsLast(i)
    BY <1>0, <2>3, <2>4
  <2>6. i \in 1..Len(produced) /\ \A j \in (i + 1)..Newest : j \in 1..Len(produced)
    BY Window
  <2>7. \A j \in 1..Len(produced) : Kind(j)' = Kind(j) /\ Audio(j)' = Audio(j) /\ Dts(j)' = Dts(j)
    BY <1>6, ProduceTimes
  <2>8. QED
    BY <2>1, <2>3, <2>5, <2>6, <2>7
<1>7. CASE AddPacket
  <2> DEFINE n == producer.packet
             q == Considered
  <2>1. /\ UNCHANGED <<conn, sender, sent, produced>> /\ producer.pc = "lock"
    BY <1>7 DEF AddPacket
  <2>2. ~conn.disconnected /\ Live
    BY <2>1 DEF Live
  <2>3. /\ n = Len(produced) /\ n \in Packets /\ Thinned(queue, q)
        /\ (TurnedAway \/ TakenIn) /\ q \in QueueType
    BY <1>0, <1>7, <2>2, AddPacketOutcome DEF Thinned
  <2>4. Newest = n - 1 /\ Newest' = n /\ n \in 1..Len(produced)
    <3>1. producer'.pc \in {"idle", "post"}
      BY <2>3 DEF TurnedAway, TakenIn
    <3>2. QED
      BY <2>1, <2>3, <3>1, Window DEF Newest, Packets
  <2>5. \A i : Dts(i)' = Dts(i) /\ Audio(i)' = Audio(i) /\ Kind(i)' = Kind(i)
    BY <2>1 DEF Dts, Frames, Audio, Kind
  <2>6. ASSUME Loose(q.packets)
        PROVE  /\ \E i \in conn.first..Newest : IsLast(i)
               /\ q.minPriority \in {0, 2} /\ q.lastDts = queue.lastDts
               /\ queue.minPriority = 2 => q.minPriority = 2
    <3>1. Loose(queue.packets)
      BY <2>3, <2>6 DEF Loose, Thinned
    <3>2. q.minPriority # 3
      BY <2>6, CheckedNarrow
    <3>3. q.minPriority \in {queue.minPriority, 2, 3} /\ q.minPriority >= queue.minPriority
      BY <2>3 DEF Thinned
    <3>4. queue.minPriority \in {0, 2, 3}
      BY <1>0 DEF Control
    <3>5. q.lastDts = queue.lastDts
      BY <2>3 DEF Thinned
    <3>6. QED
      BY <1>0, <2>2, <3>1, <3>2, <3>3, <3>4, <3>5
  <2>7. ASSUME Loose(q.packets), queue'.lastDts = q.lastDts,
               queue'.minPriority = q.minPriority,
               Audio(n) \/ (Kind(n) = "b" /\ q.minPriority = 2)
        PROVE  \E i \in conn'.first..Newest' :
                       /\ queue'.lastDts = Dts(i)'
                       /\ \A j \in (i + 1)..Newest' :
                            Audio(j)' \/ (Kind(j)' = "b" /\ queue'.minPriority = 2)
    <3>1. PICK i \in conn.first..Newest : IsLast(i)
      BY <2>6, <2>7
    <3>2. i \in conn'.first..Newest' /\ \A j \in (i + 1)..Newest' : j \in (i + 1)..Newest \/ j = n
      BY <2>1, <2>4, Window
    <3>3. /\ q.lastDts = queue.lastDts
          /\ queue.minPriority = 2 => q.minPriority = 2
      BY <2>6, <2>7
    <3>4. queue'.lastDts = Dts(i)'
      BY <2>5, <2>7, <3>1, <3>3
    <3>5. \A j \in (i + 1)..Newest' :
             Audio(j)' \/ (Kind(j)' = "b" /\ queue'.minPriority = 2)
      BY <2>5, <2>7, <3>1, <3>2, <3>3
    <3>6. QED
      BY <3>2, <3>4, <3>5
  <2>8. CASE TurnedAway
    <3>1. /\ queue'.packets = q.packets /\ queue'.lastDts = q.lastDts
          /\ queue'.minPriority = q.minPriority /\ ~Audio(n) /\ DropPriority(n) < q.minPriority
      BY <2>3, <2>8 DEF TurnedAway, QueueType
    <3>2. Loose(q.packets)
      BY <1>0, <2>5, <3>1 DEF Loose
    <3>3. q.minPriority \in {0, 2}
      BY <2>6, <3>2
    <3>4. q.minPriority = 2 /\ DropPriority(n) = 0
      BY <3>1, <3>3, Priorities
    <3>5. Kind(n) = "b"
      BY <2>4, <3>1, <3>4, KindsAre DEF KindSet
    <3>6. QED
      BY <2>7, <3>1, <3>2, <3>4, <3>5
  <2>9. CASE TakenIn /\ Audio(n)
    <3>1. queue'.lastDts = q.lastDts /\ queue'.minPriority = q.minPriority
      BY <2>9 DEF TakenIn
    <3>2. Loose(q.packets)
      <4>1. PICK i \in ToSet(queue'.packets) : Kind(i) \in {"p", "b"}
        BY <1>0, <2>5 DEF Loose
      <4>2. PICK s \in Seq(Packets) : s = q.packets
        BY <2>3 DEF QueueType
      <4>3. ToSet(Append(s, n)) = ToSet(s) \cup {n}
        BY <2>3, Added
      <4>4. queue'.packets = Append(s, n)
        BY <2>9, <4>2 DEF TakenIn
      <4>5. i \in ToSet(s)
        BY <2>9, <4>1, <4>3, <4>4 DEF Audio
      <4>6. QED
        BY <4>1, <4>2, <4>5 DEF Loose
    <3>3. QED
      BY <2>7, <2>9, <3>1, <3>2
  <2>10. CASE TakenIn /\ ~Audio(n)
    <3>1. queue'.lastDts = Dts(n)
      BY <2>10 DEF TakenIn
    <3>2. n \in conn'.first..Newest' /\ (n + 1)..Newest' = {}
      BY <2>1, <2>4, Window
    <3>3. QED
      BY <2>5, <3>1, <3>2
  <2>11. QED
    BY <2>3, <2>8, <2>9, <2>10
<1>8. QED
  BY <1>2, <1>3, <1>4, <1>5, <1>6, <1>7 DEF Next, ProducerStep, SenderStep

\* A longer time has more frames.
LEMMA TimesGrow ==
  ASSUME QueueInv, NEW i \in Nat, NEW j \in Nat, i <= j
  PROVE  Dts(i) \in Nat /\ Dts(j) \in Nat /\ Dts(i) <= Dts(j)
<1>1. IsFiniteSet(Frames(j)) /\ Dts(i) \in Nat /\ Dts(j) \in Nat
  BY Window, FramesFinite
<1>2. Frames(i) \subseteq Frames(j)
  BY Window DEF Frames
<1>3. QED
  BY <1>1, <1>2, FS_Subset DEF Dts

\* At most two frames more.
LEMMA TwoMore ==
  ASSUME QueueInv, NEW i \in Nat, NEW j \in Nat, NEW x, NEW y,
         Frames(j) \subseteq Frames(i) \cup {x, y}
  PROVE  Dts(j) <= Dts(i) + 2
<1>1. IsFiniteSet(Frames(i)) /\ IsFiniteSet(Frames(j)) /\ Dts(i) \in Nat /\ Dts(j) \in Nat
  BY Window, FramesFinite
<1>2. /\ IsFiniteSet(Frames(i) \cup {x})
      /\ Cardinality(Frames(i) \cup {x}) \in {Dts(i), Dts(i) + 1}
  BY <1>1, FS_AddElement DEF Dts
<1>3. PICK s : s = Frames(i) \cup {x}
  OBVIOUS
<1>4. /\ IsFiniteSet(s \cup {y})
      /\ Cardinality(s \cup {y}) \in {Cardinality(s), Cardinality(s) + 1}
  BY <1>2, <1>3, FS_AddElement
<1>5. Frames(j) \subseteq s \cup {y}
  BY <1>3
<1>6. Cardinality(Frames(j)) <= Cardinality(s \cup {y})
  BY <1>4, <1>5, FS_Subset
<1>7. Cardinality(s) \in {Dts(i), Dts(i) + 1}
  BY <1>2, <1>3
<1>8. Cardinality(s \cup {y}) <= Dts(i) + 2 /\ Cardinality(s \cup {y}) \in Nat
  BY <1>1, <1>4, <1>7
<1>9. QED
  BY <1>1, <1>6, <1>8 DEF Dts

\* BacklogBounded, of a sequence of packets.
Bounded(s) ==
    \A n, m \in 1..Len(s) :
        /\ Kind(s[n]) \in {"p", "b"} /\ ~Audio(s[m])
        /\ m > n /\ m > 5
        => Dts(s[m]) - Dts(s[n]) <= PDrop + 2

\* BacklogBounded, of the queue.
QueueBounded == Bounded(queue.packets)

\* The two say the same.
LEMMA BoundedIs == QueueInv => (BacklogBounded <=> QueueBounded)
<1> SUFFICES ASSUME QueueInv PROVE BacklogBounded <=> QueueBounded
  OBVIOUS
<1>1. DOMAIN queue.packets = 1..Len(queue.packets)
  BY QueueTyped, Window, LenProperties
<1>2. QED
  BY <1>1 DEF BacklogBounded, QueueBounded, Bounded

\* What is bounded stays so when packets are taken out.
LEMMA PlacesBounded ==
  ASSUME NEW s \in Seq(Packets), NEW r \in Seq(Packets), NEW e,
         Places(e, r, s, Len(s)), Bounded(s)
  PROVE  Bounded(r)
<1> SUFFICES ASSUME NEW n \in 1..Len(r), NEW m \in 1..Len(r),
                    Kind(r[n]) \in {"p", "b"}, ~Audio(r[m]), m > n, m > 5
             PROVE  Dts(r[m]) - Dts(r[n]) <= PDrop + 2
  BY DEF Bounded
<1>1. /\ r[n] = s[e[n]] /\ r[m] = s[e[m]] /\ m <= e[m] /\ e[n] < e[m]
      /\ e[n] \in 1..Len(s) /\ e[m] \in 1..Len(s)
  BY DEF Places
<1>2. e[m] > e[n] /\ e[m] > 5
  BY <1>1
<1>3. QED
  BY <1>1, <1>2 DEF Bounded

\* Where nothing was dropped for the larger threshold, the first frame that
\* may be dropped is within it.
LEMMA CheckedBounded ==
  ASSUME QueueInv, Narrow, ~Audio(producer.packet),
         Considered \in QueueType, Rising(Considered.packets),
         ToSet(Considered.packets) \subseteq Queued,
         Len(Considered.packets) >= 5,
         NEW n \in 1..Len(Considered.packets),
         Kind(Considered.packets[n]) \in {"p", "b"}
  PROVE  Considered.lastDts - Dts(Considered.packets[n]) <= PDrop
<1> DEFINE r == CheckToDropFrames(queue, BDrop, 2)
           q == Considered
           s == q.packets
<1>1. q = CheckToDropFrames(r, PDrop, 3)
  BY DEF Considered, Checked
<1>2. r \in QueueType
  BY QueueTyped, Window, CheckThins DEF Thinned
<1>3. s \in Seq(Packets) /\ Len(s) \in Nat /\ DOMAIN s = 1..Len(s) /\ q.lastDts \in Nat
  BY LenProperties DEF QueueType
<1>4. s[n] \in ToSet(s)
  BY <1>3 DEF ToSet
<1>5. q.minPriority # 3
  BY <1>4, CheckedNarrow DEF Loose
<1>6. q # DropFrames(r, 3)
  <2> HIDE DEF r, q
  <2>1. DropFrames(r, 3).minPriority >= 3 /\ DropFrames(r, 3) \in QueueType
    BY <1>2, DropThins DEF Thinned
  <2>2. QED
    BY <1>5, <2>1 DEF QueueType, q
<1>7. q = r /\ {k \in Droppable(q) : /\ \A m \in Droppable(q) : k <= m
                                     /\ q.lastDts - Dts(q.packets[k]) > PDrop} = {}
  <2> HIDE DEF r, q
  <2>1. q = r
    BY <1>1, <1>6 DEF CheckToDropFrames
  <2>2. ~(Len(r.packets) < 5)
    BY <1>3, <2>1 DEF q
  <2>3. QED
    BY <1>1, <1>6, <2>1, <2>2 DEF CheckToDropFrames
<1>8. n \in Droppable(q) /\ Droppable(q) \subseteq 1..Len(s)
  BY <1>3 DEF Droppable
<1>9. PICK k \in Droppable(q) : \A m \in Droppable(q) : k <= m
  <2>1. Droppable(q) \in SUBSET Nat /\ Droppable(q) # {}
    BY <1>8
  <2>2. QED
    <3> HIDE DEF q
    <3> QED BY <2>1, LeastNatural
<1>10. ~(q.lastDts - Dts(s[k]) > PDrop) /\ k <= n /\ k \in 1..Len(s)
  BY <1>7, <1>8, <1>9
<1>11. s[k] \in Nat /\ s[n] \in Nat /\ s[k] <= s[n]
  <2>1. s[k] \in Packets /\ s[n] \in Packets
    BY <1>3, <1>10, ElementOfSeq
  <2>2. k < n => s[k] < s[n]
    BY <1>10 DEF Rising
  <2>3. QED
    BY <1>10, <2>1, <2>2 DEF Packets
<1>12. Dts(s[k]) \in Nat /\ Dts(s[n]) \in Nat /\ Dts(s[k]) <= Dts(s[n])
  BY <1>11, TimesGrow
<1>13. QED
  <2>1. PDrop \in Nat
    BY StreamAssumption
  <2> HIDE DEF q, s
  <2>2. q.lastDts - Dts(s[n]) <= PDrop
    BY <1>3, <1>10, <1>12, <2>1
  <2>3. QED
    BY <2>2 DEF q, s

\* Every step keeps the backlog bounded: a frame is added only after the
\* checks.
LEMMA BacklogStep ==
  QueueInv /\ Narrow /\ Alternating /\ LastFrame /\ BacklogBounded /\ [Next]_vars
    => BacklogBounded'
<1>a. (QueueInv => (BacklogBounded <=> QueueBounded))'
  BY BoundedIs, PTL
<1>b. QueueInv /\ [Next]_vars => QueueInv'
  BY TypeStep, ControlStep, OrderedStep DEF QueueInv
<1> SUFFICES ASSUME QueueInv, Narrow, Alternating, LastFrame, BacklogBounded, [Next]_vars
             PROVE  QueueBounded'
  BY <1>a, <1>b
<1>0. /\ TypeOK /\ queue \in QueueType /\ queue.packets \in Seq(Packets)
      /\ Bounded(queue.packets) /\ Len(queue.packets) \in Nat
  BY QueueTyped, Window, BoundedIs DEF QueueBounded
<1>1. CASE queue' = queue /\ produced' = produced /\ conn'.first = conn.first
  BY <1>0, <1>1 DEF QueueBounded, Bounded, Dts, Frames, Audio, Kind
<1>2. CASE queue'.packets = <<>> /\ produced' = produced
  <2>1. 1..Len(queue'.packets) = {}
    BY <1>2, EmptyQueue
  <2>2. QED
    BY <2>1 DEF QueueBounded, Bounded
<1>3. CASE /\ GetNextPacket /\ queue.packets # <<>>
           /\ queue' = [queue EXCEPT !.packets = Tail(queue.packets)]
           /\ UNCHANGED <<produced, conn, producer>>
  <2> DEFINE s == queue.packets
             t == Tail(s)
  <2>1. /\ t \in Seq(Packets) /\ Len(s) \in Nat /\ Len(s) >= 1 /\ Len(t) = Len(s) - 1
        /\ \A a \in 1..Len(t) : t[a] = s[a + 1]
    BY <1>0, <1>3, Taken
  <2>2. Places([a \in 1..Len(t) |-> a + 1], t, s, Len(s))
    <3> HIDE DEF s, t
    <3>1. PICK e : e = [a \in 1..Len(t) |-> a + 1]
      OBVIOUS
    <3>2. e \in [1..Len(t) -> 1..Len(s)] /\ \A a \in 1..Len(t) : e[a] = a + 1
      BY <2>1, <3>1
    <3>3. Places(e, t, s, Len(s))
      BY <2>1, <3>2 DEF Places
    <3> QED BY <3>1, <3>3
  <2>3. Bounded(t)
    <3> HIDE DEF s, t
    <3> QED BY <1>0, <2>1, <2>2, PlacesBounded DEF s
  <2>4. queue'.packets = t
    BY <1>0, <1>3 DEF QueueType
  <2>5. QED
    BY <1>3, <2>3, <2>4 DEF QueueBounded, Bounded, Dts, Frames, Audio, Kind
<1>4. ASSUME NEW kind \in Kinds, Produce(kind) PROVE QueueBounded'
  <2>1. queue' = queue
    BY <1>4 DEF Produce
  <2>2. \A a \in 1..Len(queue.packets) : queue.packets[a] \in 1..Len(produced)
    BY <1>0, QueuedMade DEF Queued, ToSet
  <2>3. \A j \in 1..Len(produced) : Kind(j)' = Kind(j) /\ Audio(j)' = Audio(j) /\ Dts(j)' = Dts(j)
    BY <1>4, ProduceTimes
  <2>4. QED
    BY <1>0, <2>1, <2>2, <2>3 DEF QueueBounded, Bounded
<1>5. CASE AddPacket
  <2> DEFINE i == producer.packet
             q == Considered
             s == q.packets
  <2>1. /\ UNCHANGED <<conn, sender, sent, produced>> /\ producer.pc = "lock"
    BY <1>5 DEF AddPacket
  <2>2. /\ i = Len(produced) /\ i \in Packets /\ Thinned(queue, q) /\ q \in QueueType
        /\ (queue' = queue \/ TurnedAway \/ TakenIn)
    BY <1>0, <1>5, Window, AddPacketOutcome DEF Thinned
  <2>3. \A x : Dts(x)' = Dts(x) /\ Audio(x)' = Audio(x) /\ Kind(x)' = Kind(x)
    BY <2>1 DEF Dts, Frames, Audio, Kind
  <2>4. \A u : Bounded(u)' = Bounded(u)
    BY <2>1 DEF QueueBounded, Bounded, Dts, Frames, Audio, Kind
  <2>5. s \in Seq(Packets) /\ Len(s) \in Nat /\ DOMAIN s = 1..Len(s)
    BY <2>2, LenProperties DEF QueueType
  <2>6. PICK e : Places(e, s, queue.packets, Len(queue.packets))
    BY <2>2 DEF Thinned
  <2>7. Bounded(s) /\ Rising(s)
    <3>1. Rising(queue.packets)
      BY DEF QueueInv, Ordered
    <3>2. QED
      BY <1>0, <2>5, <2>6, <3>1, PlacesBounded, PlacesRise
  <2>8. CASE queue' = queue
    BY <1>0, <2>1, <2>8 DEF QueueBounded, Bounded, Dts, Frames, Audio, Kind
  <2>9. CASE TurnedAway
    <3>1. queue'.packets = s
      BY <2>2, <2>9 DEF TurnedAway, QueueType
    <3>2. QED
      BY <2>1, <2>7, <3>1 DEF QueueBounded, Bounded, Dts, Frames, Audio, Kind
  <2>10. CASE TakenIn
    <3>1. /\ queue'.packets = Append(s, i) /\ Len(Append(s, i)) = Len(s) + 1
          /\ \A a \in 1..Len(s) : Append(s, i)[a] = s[a]
          /\ Append(s, i)[Len(s) + 1] = i
      BY <2>2, <2>5, <2>10, Added DEF TakenIn
    <3>2. ASSUME NEW n \in 1..Len(s), Kind(s[n]) \in {"p", "b"}, ~Audio(i),
                 Len(s) + 1 > 5
          PROVE  Dts(i) - Dts(s[n]) <= PDrop + 2
      <4>1. ToSet(s) \subseteq Queued /\ q.lastDts = queue.lastDts
        BY <2>2 DEF Thinned, Queued
      <4>2. q.lastDts - Dts(s[n]) <= PDrop
        BY <2>2, <2>5, <2>7, <3>2, <4>1, CheckedBounded
      <4>3. s[n] \in ToSet(s)
        BY <2>5 DEF ToSet
      <4>4. Loose(queue.packets)
        BY <3>2, <4>1, <4>3 DEF Loose, Queued
      <4>5. ~conn.disconnected /\ Newest = i - 1
        BY <2>1, <2>2, <2>10 DEF TakenIn, Newest
      <4>6. PICK l \in conn.first..Newest :
                 /\ queue.lastDts = Dts(l)
                 /\ \A j \in (l + 1)..Newest : Audio(j) \/ Kind(j) = "b"
        BY <2>1, <4>4, <4>5 DEF LastFrame
      <4>7. i \in Nat /\ l \in Nat /\ s[n] \in Nat /\ PDrop \in Nat
        <5>1. s[n] \in Packets
          BY <2>5, ElementOfSeq
        <5>2. QED
          BY <2>2, <5>1, Window, StreamAssumption DEF Packets
      <4>8. \E x : Frames(i) \subseteq Frames(l) \cup {x, i}
        <5> DEFINE late == {j \in (l + 1)..Newest : ~Audio(j)}
        <5>1. late \subseteq Session /\ \A j \in late : Kind(j) = "b" /\ j \in Nat
          BY <4>6, Window DEF Session
        <5>2. \A j, k \in late : ~(j < k)
          <6> SUFFICES ASSUME NEW j \in late, NEW k \in late, j < k PROVE FALSE
            OBVIOUS
          <6>1. PICK m \in Session : j < m /\ m < k /\ Kind(m) \notin {"audio", "b"}
            BY <5>1 DEF Alternating
          <6>2. m \in (l + 1)..Newest
            BY <6>1, Window DEF Session
          <6>3. QED
            BY <4>6, <6>1, <6>2 DEF Audio
        <5>3. PICK x : \A j \in late : j = x
          <6>1. CASE late = {}
            BY <6>1
          <6>2. CASE late # {}
            <7>1. PICK y \in late : TRUE
              BY <6>2
            <7>2. \A j \in late : j = y
              BY <5>1, <5>2, <7>1
            <7>3. QED
              BY <7>2
          <6>3. QED
            BY <6>1, <6>2
        <5>4. \A j \in conn.first..i : j = i \/ j \in conn.first..l \/ j \in (l + 1)..Newest
          BY <4>5, <4>7, Window
        <5>5. Frames(i) \subseteq Frames(l) \cup {x, i}
          BY <5>3, <5>4 DEF Frames
        <5>6. QED
          BY <5>5
      <4>9. Dts(i) <= Dts(l) + 2 /\ Dts(i) \in Nat /\ Dts(l) \in Nat /\ Dts(s[n]) \in Nat
        BY <4>7, <4>8, TwoMore, FramesFinite, Window
      <4>10. Dts(l) - Dts(s[n]) <= PDrop
        BY <4>1, <4>2, <4>6
      <4>11. QED
        BY <4>7, <4>9, <4>10
    <3>3. Bounded(Append(s, i))
      <4> SUFFICES ASSUME NEW n \in 1..Len(Append(s, i)), NEW m \in 1..Len(Append(s, i)),
                          Kind(Append(s, i)[n]) \in {"p", "b"},
                          ~Audio(Append(s, i)[m]), m > n, m > 5
                   PROVE  Dts(Append(s, i)[m]) - Dts(Append(s, i)[n]) <= PDrop + 2
        BY DEF Bounded
      <4>1. n \in 1..Len(s) /\ (m \in 1..Len(s) \/ m = Len(s) + 1)
        <5> HIDE DEF s
        <5> QED BY <2>5, <3>1
      <4>2. CASE m \in 1..Len(s)
        <5>1. Append(s, i)[n] = s[n] /\ Append(s, i)[m] = s[m]
          BY <3>1, <4>1, <4>2
        <5>2. QED
          BY <2>7, <4>1, <4>2, <5>1 DEF Bounded
      <4>3. CASE m = Len(s) + 1
        <5>1. Append(s, i)[n] = s[n] /\ Append(s, i)[m] = i
          BY <3>1, <4>1, <4>3
        <5>2. QED
          BY <3>2, <4>1, <4>3, <5>1
      <4>4. QED
        BY <4>1, <4>2, <4>3
    <3>4. QED
      BY <2>4, <3>1, <3>3 DEF QueueBounded, Bounded, Dts, Frames, Audio, Kind
  <2>11. QED
    BY <2>2, <2>8, <2>9, <2>10
<1>6. QED
  BY <1>1, <1>2, <1>3, <1>4, <1>5, QueueStep

\* What may be dropped does not pile up.
THEOREM BacklogStays == Spec => []BacklogBounded
<1>1. Init => Alternating /\ LastFrame /\ BacklogBounded
  <2> SUFFICES ASSUME Init PROVE Alternating /\ LastFrame /\ BacklogBounded
    OBVIOUS
  <2>1. produced = <<>> /\ queue.packets = <<>> /\ conn.first = 1
    BY DEF Init
  <2>2. DOMAIN queue.packets = {} /\ Session = {}
    BY <2>1 DEF Session
  <2>3. QED
    BY <2>2 DEF Alternating, LastFrame, Loose, ToSet, BacklogBounded
<1>2. QueueInv /\ Narrow /\ Alternating /\ LastFrame /\ BacklogBounded /\ [Next]_vars
        => (Alternating /\ LastFrame /\ BacklogBounded)'
  BY AlternatingStep, LastFrameStep, BacklogStep
<1>3. QED
  BY <1>1, <1>2, QueueInvariant, CompleteInvariant, PTL DEF Spec
==============================================================================
