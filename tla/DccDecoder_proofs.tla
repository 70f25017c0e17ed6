-------------------------- MODULE DccDecoder_proofs ------------------------
(***************************************************************************)
(* Proofs about DccDecoder: its packet queue, its address cache, its lock, *)
(* its fail-safe and its RailCom answers.                                  *)
(***************************************************************************)
EXTENDS DccDecoder, TLAPS

(***************************************************************************)
(* Positions in a ring.                                                    *)
(***************************************************************************)
\* How many slots lie from h up to t.
Span(h, t) == (t - h + Depth) % Depth

LEMMA SpanIs ==
  ASSUME NEW h \in 0..Depth - 1, NEW t \in 0..Depth - 1
  PROVE  /\ t >= h => Span(h, t) = t - h
         /\ t < h  => Span(h, t) = t - h + Depth
         /\ Span(h, t) \in 0..Depth - 1
BY DepthAssumption DEF Span

LEMMA NextSlotIs ==
  ASSUME NEW t \in 0..Depth - 1
  PROVE  /\ t < Depth - 1 => NextSlot(t) = t + 1
         /\ t = Depth - 1 => NextSlot(t) = 0
         /\ NextSlot(t) \in 0..Depth - 1
BY DepthAssumption DEF NextSlot

\* The i-th slot counted from h.
At(h, i) == (h + i - 1) % Depth

LEMMA AtIs ==
  ASSUME NEW h \in 0..Depth - 1, NEW i \in 1..Depth
  PROVE  /\ h + i - 1 < Depth  => At(h, i) = h + i - 1
         /\ h + i - 1 >= Depth => At(h, i) = h + i - 1 - Depth
         /\ At(h, i) \in 0..Depth - 1
BY DepthAssumption DEF At

\* Filling the slot at t, when the next is not h, makes the span one longer;
\* the slots of the old span lie before t.
LEMMA FillSpan ==
  ASSUME NEW h \in 0..Depth - 1, NEW t \in 0..Depth - 1
  PROVE  /\ NextSlot(t) # h => Span(h, NextSlot(t)) = Span(h, t) + 1
         /\ NextSlot(t) = h => Span(h, t) = Depth - 1
         /\ Span(h, t) \in 0..Depth - 1
         /\ At(h, Span(h, t) + 1) = t
         /\ \A i \in 1..Span(h, t) : At(h, i) # t
<1> DEFINE n == Span(h, t)
           u == NextSlot(t)
<1>1. /\ t >= h => n = t - h
      /\ t < h  => n = t - h + Depth
      /\ n \in 0..Depth - 1
  BY SpanIs
<1>2. /\ t < Depth - 1 => u = t + 1
      /\ t = Depth - 1 => u = 0
      /\ u \in 0..Depth - 1
  BY NextSlotIs
<1>3. /\ u >= h => Span(h, u) = u - h
      /\ u < h  => Span(h, u) = u - h + Depth
  BY <1>2, SpanIs
<1>4. \A i \in 1..Depth : /\ h + i - 1 < Depth  => At(h, i) = h + i - 1
                          /\ h + i - 1 >= Depth => At(h, i) = h + i - 1 - Depth
  BY AtIs
<1> HIDE DEF n, u
<1>5. n + 1 \in 1..Depth /\ \A i \in 1..n : i \in 1..Depth
  BY <1>1, DepthAssumption
<1>6. At(h, n + 1) = t
  <2>1. /\ h + n < Depth  => At(h, n + 1) = h + n
        /\ h + n >= Depth => At(h, n + 1) = h + n - Depth
    BY <1>1, <1>4, <1>5, DepthAssumption
  <2> QED
    BY <1>1, <2>1, DepthAssumption
<1>7. u # h => Span(h, u) = n + 1
  BY <1>1, <1>2, <1>3, DepthAssumption
<1>8. u = h => n = Depth - 1
  BY <1>1, <1>2, DepthAssumption
<1>9. \A i \in 1..n : At(h, i) # t
  BY <1>1, <1>4, <1>5, DepthAssumption
<1> QED
  BY <1>1, <1>6, <1>7, <1>8, <1>9 DEF n, u

\* Freeing the slot at h makes the span one shorter and starts it one later.
LEMMA FreeSpan ==
  ASSUME NEW h \in 0..Depth - 1, NEW t \in 0..Depth - 1, h # t
  PROVE  /\ Span(NextSlot(h), t) = Span(h, t) - 1
         /\ Span(h, t) \in 1..Depth - 1
         /\ At(h, 1) = h
         /\ \A i \in 1..Span(h, t) - 1 : At(NextSlot(h), i) = At(h, i + 1)
<1> DEFINE n == Span(h, t)
           u == NextSlot(h)
<1>1. /\ t >= h => n = t - h
      /\ t < h  => n = t - h + Depth
  BY SpanIs
<1>2. /\ h < Depth - 1 => u = h + 1
      /\ h = Depth - 1 => u = 0
      /\ u \in 0..Depth - 1
  BY NextSlotIs
<1>3. /\ t >= u => Span(u, t) = t - u
      /\ t < u  => Span(u, t) = t - u + Depth
  BY <1>2, SpanIs
<1>4. \A i \in 1..Depth : /\ h + i - 1 < Depth  => At(h, i) = h + i - 1
                          /\ h + i - 1 >= Depth => At(h, i) = h + i - 1 - Depth
  BY AtIs
<1>5. \A i \in 1..Depth : /\ u + i - 1 < Depth  => At(u, i) = u + i - 1
                          /\ u + i - 1 >= Depth => At(u, i) = u + i - 1 - Depth
  BY <1>2, AtIs
<1> HIDE DEF n, u
<1>6. n \in 1..Depth - 1
  BY <1>1, DepthAssumption
<1>7. Span(u, t) = n - 1
  BY <1>1, <1>2, <1>3, DepthAssumption
<1>8. At(h, 1) = h
  BY <1>4, DepthAssumption
<1>9. \A i \in 1..n - 1 : At(u, i) = At(h, i + 1)
  <2> SUFFICES ASSUME NEW i \in 1..n - 1
               PROVE  At(u, i) = At(h, i + 1)
    OBVIOUS
  <2>1. i \in 1..Depth /\ i + 1 \in 1..Depth
    BY <1>6, DepthAssumption
  <2>2. /\ h + i < Depth  => At(h, i + 1) = h + i
        /\ h + i >= Depth => At(h, i + 1) = h + i - Depth
    <3>1. h + (i + 1) - 1 = h + i
      BY <2>1, DepthAssumption
    <3> QED
      BY <1>4, <2>1, <3>1
  <2>3. /\ u + i - 1 < Depth  => At(u, i) = u + i - 1
        /\ u + i - 1 >= Depth => At(u, i) = u + i - 1 - Depth
    BY <1>5, <2>1
  <2> QED
    BY <1>2, <2>1, <2>2, <2>3, DepthAssumption
<1> QED
  BY <1>6, <1>7, <1>8, <1>9 DEF n, u
-----------------------------------------------------------------------------
(***************************************************************************)
(* Type correctness.                                                       *)
(***************************************************************************)
LEMMA TypeStep ==
  ASSUME TypeOK, [Next]_vars
  PROVE  TypeOK'
<1> USE DEF TypeOK
<1>1. CASE UNCHANGED vars
  BY <1>1 DEF vars, linkVars, queueVars, txVars, timeVars, past
<1>2. CASE FirstByte
  BY <1>2 DEF FirstByte, queueVars, txVars, timeVars, past
<1>3. CASE LastDataByte
  BY <1>3 DEF LastDataByte, queueVars, txVars, timeVars, past
<1>4. CASE BitError
  BY <1>4 DEF BitError, queueVars, txVars, timeVars, past
<1>5. CASE PacketEnds
  <2>1. /\ receiving \in Packets
        /\ receiving' = NoPacket /\ sized' = FALSE /\ pending' = NoPacket
        /\ UNCHANGED <<txVars, at, timeVars>>
        /\ missed' \in BOOLEAN
    BY <1>5 DEF PacketEnds, Transmit, Enqueue, past
  <2>2. CASE QueueFull
    BY <1>5, <2>1, <2>2 DEF PacketEnds, Enqueue, queueVars, txVars, timeVars
  <2>3. CASE ~QueueFull
    <3>1. /\ packet_queue' = [packet_queue EXCEPT ![packet_queue_tail] = receiving]
          /\ packet_queue_tail' = NextSlot(packet_queue_tail)
          /\ packet_queue_head' = packet_queue_head
      BY <1>5, <2>3 DEF PacketEnds, Enqueue
    <3>2. packet_queue_tail' \in 0..Depth - 1
      BY <3>1, NextSlotIs
    <3> QED
      BY <2>1, <3>1, <3>2 DEF txVars, timeVars
  <2> QED
    BY <2>2, <2>3
<1>6. CASE RunStarts
  BY <1>6 DEF RunStarts, linkVars, queueVars, txVars, timeVars, past
<1>7. CASE HandlePacket
  <2> DEFINE p == packet_queue[packet_queue_head]
  <2>1. /\ pushing' = PushesBy(p) /\ NotePacket(p)
        /\ \E starts \in BOOLEAN : AckPulse(starts)
        /\ at' = "HANDLED" /\ UNCHANGED <<linkVars, queueVars, missed>>
    BY <1>7 DEF HandlePacket, PushAddress
  <2>2. PushesBy(p) \in BOOLEAN
    BY DEF PushesBy
  <2>3. active' \in BOOLEAN
    BY <2>1 DEF NotePacket
  <2>4. ack' \in BOOLEAN
    BY <2>1 DEF AckPulse
  <2> QED
    BY <2>1, <2>2, <2>3, <2>4 DEF linkVars, queueVars
<1>8. CASE StoreType
  BY <1>8 DEF StoreType, linkVars, queueVars, timeVars, past
<1>9. CASE ReleaseSlot
  <2>1. packet_queue_head' \in 0..Depth - 1
    BY <1>9, NextSlotIs DEF ReleaseSlot
  <2> QED
    BY <1>9, <2>1 DEF ReleaseSlot, linkVars, txVars, timeVars, past
<1>10. CASE QueueDrained
  BY <1>10 DEF QueueDrained, linkVars, queueVars, txVars, timeVars
<1>11. CASE RunFailsafe
  <2>1. active' \in BOOLEAN
    BY <1>11 DEF RunFailsafe
  <2> QED
    BY <1>11, <2>1 DEF RunFailsafe, linkVars, queueVars, txVars, past
<1>12. CASE RunAckPulse
  <2>1. ack' \in BOOLEAN
    BY <1>12 DEF RunAckPulse
  <2> QED
    BY <1>12, <2>1 DEF RunAckPulse, linkVars, queueVars, txVars, past
<1>13. CASE ApplicationWrite
  <2>1. /\ \E w \in ApplicationWrites : pushing' = PushesAddress(w[1], w[2], AddressCvs)
        /\ UNCHANGED <<linkVars, queueVars, at, timeVars, missed>>
    BY <1>13 DEF ApplicationWrite, PushAddress
  <2>2. pushing' \in BOOLEAN
    BY <2>1 DEF PushesAddress
  <2> QED
    BY <2>1, <2>2 DEF linkVars, queueVars, timeVars
<1>14. CASE Tick
  BY <1>14 DEF Tick, linkVars, queueVars, txVars
<1> QED
  BY <1>1, <1>2, <1>3, <1>4, <1>5, <1>6, <1>7, <1>8, <1>9, <1>10, <1>11, <1>12,
     <1>13, <1>14 DEF Next, EdgeIsr, MainLoop

LEMMA TypeInit == Init => TypeOK
<1> SUFFICES ASSUME Init PROVE TypeOK
  OBVIOUS
<1>1. packet_queue \in [0..Depth - 1 -> Packets \cup {NoPacket}]
  BY DEF Init
<1>2. /\ receiving = NoPacket /\ sized = FALSE /\ pending = NoPacket
      /\ packet_queue_head = 0 /\ packet_queue_tail = 0 /\ pushing = FALSE
      /\ at = "IDLE" /\ active = FALSE /\ ack = FALSE /\ missed = FALSE
  BY DEF Init
<1>3. 0 \in 0..Depth - 1
  BY DepthAssumption
<1> QED
  BY <1>1, <1>2, <1>3 DEF TypeOK

\* Every variable of the queue, the link and the loop keeps its range, for any
\* queue depth and any packets (DccPacketDecoder_enqueue and _run).
THEOREM DecoderTypes == Spec => []TypeOK
BY TypeInit, TypeStep, PTL DEF Spec
-----------------------------------------------------------------------------
(***************************************************************************)
(* The packet queue implements DccPacketQueue.                             *)
(***************************************************************************)
QueueInv ==
  /\ TypeOK
  /\ at = "HANDLED" => packet_queue_head # packet_queue_tail
  /\ \A i \in 1..InQueue : packet_queue[At(packet_queue_head, i)] \in Packets

LEMMA QueueInit == Init => QueueInv
<1> SUFFICES ASSUME Init PROVE QueueInv
  OBVIOUS
<1>1. InQueue = 0
  BY DepthAssumption DEF Init, InQueue
<1> QED
  BY <1>1, TypeInit DEF Init, QueueInv

\* A packet that finds room is appended.
LEMMA Appended ==
  ASSUME QueueInv, PacketEnds, ~QueueFull
  PROVE  /\ InQueue < Depth - 1 /\ InQueue \in Nat
         /\ InQueue' = InQueue + 1
         /\ \A i \in 1..InQueue :
              packet_queue'[At(packet_queue_head', i)] = packet_queue[At(packet_queue_head, i)]
         /\ packet_queue'[At(packet_queue_head', InQueue')] = receiving
         /\ receiving \in Packets
<1> DEFINE h == packet_queue_head
           t == packet_queue_tail
<1>1. h \in 0..Depth - 1 /\ t \in 0..Depth - 1 /\ receiving \in Packets
      /\ packet_queue \in [0..Depth - 1 -> Packets \cup {NoPacket}]
  BY DEF QueueInv, TypeOK, PacketEnds
<1>2. /\ packet_queue' = [packet_queue EXCEPT ![t] = receiving]
      /\ t' = NextSlot(t) /\ h' = h /\ NextSlot(t) # h
  BY DEF PacketEnds, Enqueue, QueueFull
<1>3. InQueue = Span(h, t) /\ InQueue' = Span(h', t')
  BY DEF InQueue, Span
<1>4. /\ Span(h, NextSlot(t)) = Span(h, t) + 1
      /\ Span(h, t) \in 0..Depth - 1
      /\ At(h, Span(h, t) + 1) = t
      /\ \A i \in 1..Span(h, t) : At(h, i) # t
  BY <1>1, <1>2, FillSpan
<1>5. Span(h, NextSlot(t)) \in 0..Depth - 1
  <2>1. NextSlot(t) \in 0..Depth - 1
    BY <1>1, NextSlotIs
  <2> QED
    BY <1>1, <2>1, SpanIs
<1>6. InQueue' = InQueue + 1 /\ InQueue < Depth - 1 /\ InQueue \in Nat
  BY <1>2, <1>3, <1>4, <1>5, DepthAssumption
<1>7. \A i \in 1..InQueue : packet_queue'[At(h', i)] = packet_queue[At(h, i)]
  <2> SUFFICES ASSUME NEW i \in 1..InQueue
               PROVE  packet_queue'[At(h', i)] = packet_queue[At(h, i)]
    OBVIOUS
  <2>1. At(h, i) \in 0..Depth - 1
    <3>1. i \in 1..Depth
      BY <1>6, DepthAssumption
    <3> QED
      BY <1>1, <3>1, AtIs
  <2>2. At(h, i) # t
    BY <1>3, <1>4
  <2>3. packet_queue'[At(h, i)] = packet_queue[At(h, i)]
    BY <1>1, <1>2, <2>1, <2>2
  <2> QED
    BY <1>2, <2>3
<1>8. packet_queue'[At(h', InQueue')] = receiving
  <2>1. At(h, InQueue + 1) = t
    BY <1>3, <1>4
  <2>2. packet_queue'[t] = receiving
    BY <1>1, <1>2
  <2> QED
    BY <1>2, <1>6, <2>1, <2>2
<1> QED
  BY <1>1, <1>6, <1>7, <1>8

\* Releasing the slot just handled takes the first packet off.
LEMMA Released ==
  ASSUME QueueInv, ReleaseSlot
  PROVE  /\ InQueue \in 1..Depth - 1
         /\ InQueue' = InQueue - 1
         /\ At(packet_queue_head, 1) = packet_queue_head
         /\ \A i \in 1..InQueue' :
              packet_queue'[At(packet_queue_head', i)]
                = packet_queue[At(packet_queue_head, i + 1)]
<1> DEFINE h == packet_queue_head
           t == packet_queue_tail
<1>1. h \in 0..Depth - 1 /\ t \in 0..Depth - 1 /\ h # t
  BY DEF QueueInv, TypeOK, ReleaseSlot
<1>2. h' = NextSlot(h) /\ t' = t /\ packet_queue' = packet_queue
  BY DEF ReleaseSlot
<1>3. InQueue = Span(h, t) /\ InQueue' = Span(h', t')
  BY DEF InQueue, Span
<1>4. /\ Span(NextSlot(h), t) = Span(h, t) - 1
      /\ Span(h, t) \in 1..Depth - 1
      /\ At(h, 1) = h
      /\ \A i \in 1..Span(h, t) - 1 : At(NextSlot(h), i) = At(h, i + 1)
  BY <1>1, FreeSpan
<1> QED
  BY <1>2, <1>3, <1>4

\* Steps that leave the queue as it is.
LEMMA QueueUntouched ==
  ASSUME QueueInv, TypeOK', UNCHANGED queueVars,
         at' = "HANDLED" => packet_queue_head # packet_queue_tail
  PROVE  QueueInv'
BY DEF QueueInv, queueVars, InQueue

LEMMA QueueStep ==
  ASSUME QueueInv, [Next]_vars
  PROVE  QueueInv'
<1>1. TypeOK'
  BY TypeStep DEF QueueInv
<1>2. CASE PacketEnds /\ ~QueueFull
  <2>1. /\ InQueue \in Nat /\ InQueue' = InQueue + 1
        /\ \A i \in 1..InQueue :
             packet_queue'[At(packet_queue_head', i)] = packet_queue[At(packet_queue_head, i)]
        /\ packet_queue'[At(packet_queue_head', InQueue')] \in Packets
    BY <1>2, Appended
  <2>2. \A i \in 1..InQueue' : packet_queue'[At(packet_queue_head', i)] \in Packets
    <3> SUFFICES ASSUME NEW i \in 1..InQueue'
                 PROVE  packet_queue'[At(packet_queue_head', i)] \in Packets
      OBVIOUS
    <3>1. i \in 1..InQueue \/ i = InQueue'
      BY <2>1
    <3> QED
      BY <2>1, <3>1 DEF QueueInv
  <2>3. at' = "HANDLED" => packet_queue_head' # packet_queue_tail'
    <3>1. at' = at /\ packet_queue_head' = packet_queue_head
          /\ packet_queue_tail' = NextSlot(packet_queue_tail)
          /\ NextSlot(packet_queue_tail) # packet_queue_head
      BY <1>2 DEF PacketEnds, Enqueue, QueueFull
    <3> QED
      BY <3>1
  <2> QED
    BY <1>1, <2>2, <2>3 DEF QueueInv
<1>3. CASE PacketEnds /\ QueueFull
  <2>1. UNCHANGED queueVars /\ at' = at
    BY <1>3 DEF PacketEnds, Enqueue
  <2> QED
    BY <1>1, <2>1, QueueUntouched DEF QueueInv
<1>4. CASE ReleaseSlot
  <2>1. /\ InQueue \in 1..Depth - 1 /\ InQueue' = InQueue - 1
        /\ \A i \in 1..InQueue' :
             packet_queue'[At(packet_queue_head', i)]
               = packet_queue[At(packet_queue_head, i + 1)]
    BY <1>4, Released
  <2>2. \A i \in 1..InQueue' : packet_queue'[At(packet_queue_head', i)] \in Packets
    <3> SUFFICES ASSUME NEW i \in 1..InQueue'
                 PROVE  packet_queue'[At(packet_queue_head', i)] \in Packets
      OBVIOUS
    <3>1. i + 1 \in 1..InQueue
      BY <2>1, DepthAssumption
    <3> QED
      BY <2>1, <3>1 DEF QueueInv
  <2>3. at' # "HANDLED"
    BY <1>4 DEF ReleaseSlot
  <2> QED
    BY <1>1, <2>2, <2>3 DEF QueueInv
<1>5. CASE HandlePacket
  <2>1. UNCHANGED queueVars /\ packet_queue_head # packet_queue_tail
    BY <1>5 DEF HandlePacket
  <2> QED
    BY <1>1, <2>1, QueueUntouched
<1>6. CASE \/ UNCHANGED vars \/ FirstByte \/ LastDataByte \/ BitError
           \/ RunStarts \/ StoreType \/ QueueDrained \/ RunFailsafe
           \/ RunAckPulse \/ ApplicationWrite \/ Tick
  <2>1. UNCHANGED queueVars /\ (at' = at \/ at' # "HANDLED")
    BY <1>6 DEF vars, FirstByte, LastDataByte, BitError, RunStarts, StoreType,
       QueueDrained, RunFailsafe, RunAckPulse, ApplicationWrite, Tick
  <2> QED
    BY <1>1, <2>1, QueueUntouched DEF QueueInv
<1> QED
  BY <1>2, <1>3, <1>4, <1>5, <1>6 DEF Next, EdgeIsr, MainLoop

\* A stretch of packets in a ring is a sequence.
LEMMA Stretch ==
  ASSUME NEW q, NEW h, NEW n \in 0..Depth - 1,
         \A i \in 1..n : q[At(h, i)] \in Packets
  PROVE  /\ [i \in 1..n |-> q[At(h, i)]] \in Seq(Packets)
         /\ Len([i \in 1..n |-> q[At(h, i)]]) = n
         /\ \A i \in 1..n : [j \in 1..n |-> q[At(h, j)]][i] = q[At(h, i)]
<1> DEFINE e(i) == q[At(h, i)]
           w    == [i \in 1..n |-> e(i)]
<1>1. n \in Nat /\ \A i \in 1..n : e(i) \in Packets
  BY DepthAssumption
<1> HIDE DEF e
<1>2. w \in Seq(Packets) /\ Len(w) = n
  BY <1>1
<1>3. \A i \in 1..n : w[i] = e(i)
  OBVIOUS
<1> QED
  BY <1>2, <1>3 DEF e

\* The abstract queue, before and after a step, is a sequence of packets as
\* long as the ring's span.
LEMMA WaitingIs ==
  ASSUME QueueInv
  PROVE  /\ Waiting \in Seq(Packets)
         /\ Len(Waiting) = InQueue
         /\ InQueue \in 0..Depth - 1
         /\ \A i \in 1..InQueue : Waiting[i] = packet_queue[At(packet_queue_head, i)]
<1>1. InQueue \in 0..Depth - 1
  <2>1. InQueue = Span(packet_queue_head, packet_queue_tail)
    BY DEF InQueue, Span
  <2> QED
    BY <2>1, SpanIs DEF QueueInv, TypeOK
<1>2. Waiting = [i \in 1..InQueue |-> packet_queue[At(packet_queue_head, i)]]
  BY DEF Waiting, At
<1>3. \A i \in 1..InQueue : packet_queue[At(packet_queue_head, i)] \in Packets
  BY DEF QueueInv
<1> HIDE DEF Waiting
<1> QED
  BY <1>1, <1>2, <1>3, Stretch

LEMMA WaitingIsNext ==
  ASSUME QueueInv'
  PROVE  /\ Waiting' \in Seq(Packets)
         /\ Len(Waiting') = InQueue'
         /\ InQueue' \in 0..Depth - 1
         /\ \A i \in 1..InQueue' :
              Waiting'[i] = packet_queue'[At(packet_queue_head', i)]
<1>1. InQueue' \in 0..Depth - 1
  <2>1. InQueue' = Span(packet_queue_head', packet_queue_tail')
    BY DEF InQueue, Span
  <2> QED
    BY <2>1, SpanIs DEF QueueInv, TypeOK
<1>2. Waiting' = [i \in 1..InQueue' |-> packet_queue'[At(packet_queue_head', i)]]
  BY DEF Waiting, At
<1>3. \A i \in 1..InQueue' : packet_queue'[At(packet_queue_head', i)] \in Packets
  BY DEF QueueInv
<1> QED
  BY <1>1, <1>2, <1>3, Stretch

\* Two sequences of the same length with the same elements.
LEMMA SameSequence ==
  ASSUME NEW S, NEW s \in Seq(S), NEW t \in Seq(S), Len(s) = Len(t),
         \A i \in 1..Len(s) : s[i] = t[i]
  PROVE  s = t
OBVIOUS

LEMMA QueueRefinement ==
  ASSUME QueueInv, [Next]_vars
  PROVE  [Queue!Next]_<<Waiting, Handling>>
<1>1. QueueInv'
  BY QueueStep
<1>2. /\ Waiting \in Seq(Packets) /\ Len(Waiting) = InQueue
      /\ InQueue \in 0..Depth - 1
      /\ \A i \in 1..InQueue : Waiting[i] = packet_queue[At(packet_queue_head, i)]
  BY WaitingIs
<1>3. /\ Waiting' \in Seq(Packets) /\ Len(Waiting') = InQueue'
      /\ InQueue' \in 0..Depth - 1
      /\ \A i \in 1..InQueue' : Waiting'[i] = packet_queue'[At(packet_queue_head', i)]
  BY <1>1, WaitingIsNext
<1>4. CASE PacketEnds /\ ~QueueFull
  <2>1. /\ InQueue < Depth - 1 /\ InQueue \in Nat /\ InQueue' = InQueue + 1
        /\ \A i \in 1..InQueue :
             packet_queue'[At(packet_queue_head', i)] = packet_queue[At(packet_queue_head, i)]
        /\ packet_queue'[At(packet_queue_head', InQueue')] = receiving
        /\ receiving \in Packets
    BY <1>4, Appended
  <2>2. Waiting' = Append(Waiting, receiving)
    <3>1. /\ Append(Waiting, receiving) \in Seq(Packets)
          /\ Len(Append(Waiting, receiving)) = InQueue'
          /\ \A i \in 1..InQueue : Append(Waiting, receiving)[i] = Waiting[i]
          /\ Append(Waiting, receiving)[InQueue'] = receiving
      BY <1>2, <2>1
    <3>2. \A i \in 1..InQueue' : Waiting'[i] = Append(Waiting, receiving)[i]
      <4> SUFFICES ASSUME NEW i \in 1..InQueue'
                   PROVE  Waiting'[i] = Append(Waiting, receiving)[i]
        OBVIOUS
      <4>1. i \in 1..InQueue \/ i = InQueue'
        BY <2>1
      <4>2. CASE i \in 1..InQueue
        BY <1>2, <1>3, <2>1, <3>1, <4>2
      <4>3. CASE i = InQueue'
        BY <1>3, <2>1, <3>1, <4>3
      <4> QED
        BY <4>1, <4>2, <4>3
    <3> QED
      BY <1>3, <3>1, <3>2, SameSequence
  <2>3. UNCHANGED Handling
    <3>1. /\ at' = at /\ packet_queue_head' = packet_queue_head
          /\ packet_queue' = [packet_queue EXCEPT ![packet_queue_tail] = receiving]
      BY <1>4 DEF PacketEnds, Enqueue
    <3>2. at = "HANDLED" => packet_queue_head # packet_queue_tail
      BY DEF QueueInv
    <3>3. packet_queue_head \in 0..Depth - 1 /\ packet_queue_tail \in 0..Depth - 1
          /\ packet_queue \in [0..Depth - 1 -> Packets \cup {NoPacket}]
      BY DEF QueueInv, TypeOK
    <3> QED
      BY <3>1, <3>2, <3>3 DEF Handling
  <2>4. Queue!Receive
    BY <1>2, <2>1, <2>2, <2>3 DEF Queue!Receive
  <2> QED
    BY <2>4 DEF Queue!Next
<1>5. CASE ReleaseSlot
  <2>1. /\ InQueue \in 1..Depth - 1 /\ InQueue' = InQueue - 1
        /\ At(packet_queue_head, 1) = packet_queue_head
        /\ \A i \in 1..InQueue' :
             packet_queue'[At(packet_queue_head', i)]
               = packet_queue[At(packet_queue_head, i + 1)]
    BY <1>5, Released
  <2>2. Waiting' = Tail(Waiting)
    <3>1. /\ Tail(Waiting) \in Seq(Packets) /\ Len(Tail(Waiting)) = InQueue'
          /\ \A i \in 1..InQueue' : Tail(Waiting)[i] = Waiting[i + 1]
      BY <1>2, <2>1
    <3>2. \A i \in 1..InQueue' : Waiting'[i] = Tail(Waiting)[i]
      <4> SUFFICES ASSUME NEW i \in 1..InQueue'
                   PROVE  Waiting'[i] = Tail(Waiting)[i]
        OBVIOUS
      <4>1. i + 1 \in 1..InQueue
        BY <2>1, DepthAssumption
      <4> QED
        BY <1>2, <1>3, <2>1, <3>1, <4>1
    <3> QED
      BY <1>3, <3>1, <3>2, SameSequence
  <2>3. Handling # NoPacket
    <3>1. at = "HANDLED"
      BY <1>5 DEF ReleaseSlot
    <3>2. packet_queue[packet_queue_head] \in Packets
      <4>1. 1 \in 1..InQueue
        BY <2>1, DepthAssumption
      <4> QED
        BY <2>1, <4>1 DEF QueueInv
    <3> QED
      BY <3>1, <3>2, NoPacketAssumption DEF Handling
  <2>4. Handling' = NoPacket
    BY <1>5 DEF ReleaseSlot, Handling
  <2> QED
    BY <2>2, <2>3, <2>4 DEF Queue!Release, Queue!Next
<1>6. CASE HandlePacket
  <2>1. /\ packet_queue_head # packet_queue_tail /\ at = "PACKETS"
        /\ at' = "HANDLED" /\ UNCHANGED queueVars
    BY <1>6 DEF HandlePacket
  <2>2. UNCHANGED Waiting
    BY <2>1 DEF queueVars, Waiting, InQueue
  <2>3. /\ InQueue = Span(packet_queue_head, packet_queue_tail)
        /\ packet_queue_head \in 0..Depth - 1 /\ packet_queue_tail \in 0..Depth - 1
    BY DEF InQueue, Span, QueueInv, TypeOK
  <2>4. InQueue \in 1..Depth - 1 /\ At(packet_queue_head, 1) = packet_queue_head
    BY <2>1, <2>3, FreeSpan
  <2>5. Waiting # <<>> /\ Head(Waiting) = packet_queue[packet_queue_head]
    <3>1. 1 \in 1..InQueue
      BY <2>4, DepthAssumption
    <3> QED
      BY <1>2, <2>4, <3>1
  <2>6. Handling = NoPacket /\ Handling' = packet_queue[packet_queue_head]
    BY <2>1 DEF Handling, queueVars
  <2> QED
    BY <2>2, <2>5, <2>6 DEF Queue!Take, Queue!Next
<1>7. CASE \/ UNCHANGED vars \/ FirstByte \/ LastDataByte \/ BitError
           \/ RunStarts \/ StoreType \/ QueueDrained \/ RunFailsafe
           \/ RunAckPulse \/ ApplicationWrite \/ Tick
           \/ PacketEnds /\ QueueFull
  <2>1. /\ UNCHANGED queueVars
        /\ at' = at \/ (at # "HANDLED" /\ at' # "HANDLED")
    BY <1>7 DEF vars, FirstByte, LastDataByte, BitError, RunStarts, StoreType,
       QueueDrained, RunFailsafe, RunAckPulse, ApplicationWrite, Tick,
       PacketEnds, Enqueue
  <2>2. UNCHANGED Waiting
    BY <2>1 DEF queueVars, Waiting, InQueue
  <2>3. UNCHANGED Handling
    BY <2>1 DEF queueVars, Handling
  <2> QED
    BY <2>2, <2>3
<1> QED
  BY <1>4, <1>5, <1>6, <1>7 DEF Next, EdgeIsr, MainLoop

\* For any depth the ring is a bounded queue that drops only the newest packet
\* and only when full, and keeps the packet being handled whole
\* (DccPacketDecoder_enqueue, DccPacketDecoder_run).
THEOREM DecoderQueue == Spec => QueueIsFifo
<1>1. Init => QueueInv
  BY QueueInit
<1>2. Init => Queue!Init
  <2> SUFFICES ASSUME Init PROVE Queue!Init
    OBVIOUS
  <2>1. Len(Waiting) = 0 /\ Waiting \in Seq(Packets)
    <3>1. InQueue = 0
      BY DepthAssumption DEF Init, InQueue
    <3> QED
      BY <3>1, QueueInit, WaitingIs
  <2>2. Handling = NoPacket
    BY DEF Init, Handling
  <2> QED
    BY <2>1, <2>2 DEF Queue!Init
<1> QED
  BY <1>1, <1>2, QueueStep, QueueRefinement, PTL
     DEF Spec, QueueIsFifo, Queue!Spec
-----------------------------------------------------------------------------
(***************************************************************************)
(* The answer armed and the packet coming in.                              *)
(***************************************************************************)
ArmedInv == receiving # NoPacket /\ pending # NoPacket => pending = receiving

\* The transmitter answers only the packet an answer was prepared for,
\* whatever packets, bit errors and address changes come between
\* (DccRailcomDecoder_process_byte, _transmit).
THEOREM DecoderRepliesAnswer == Spec => []RepliesAnswer
<1>1. Init => ArmedInv
  BY DEF Init, ArmedInv
<1>2. ArmedInv /\ [Next]_vars => ArmedInv'
  <2> SUFFICES ASSUME ArmedInv, [Next]_vars PROVE ArmedInv'
    OBVIOUS
  <2> USE DEF ArmedInv
  <2>1. CASE FirstByte
    BY <2>1 DEF FirstByte
  <2>2. CASE LastDataByte
    BY <2>2 DEF LastDataByte
  <2>3. CASE BitError
    BY <2>3 DEF BitError
  <2>4. CASE PacketEnds
    BY <2>4 DEF PacketEnds
  <2>5. CASE MainLoop \/ Tick \/ UNCHANGED vars
    BY <2>5 DEF MainLoop, RunStarts, HandlePacket, StoreType, ReleaseSlot,
       QueueDrained, RunFailsafe, RunAckPulse, ApplicationWrite, Tick, vars, linkVars
  <2> QED
    BY <2>1, <2>2, <2>3, <2>4, <2>5 DEF Next, EdgeIsr
<1>3. ArmedInv => RepliesAnswer
  BY DEF ArmedInv, RepliesAnswer, Answers
<1> QED
  BY <1>1, <1>2, <1>3, PTL DEF Spec
-----------------------------------------------------------------------------
(***************************************************************************)
(* CVs, lock and address cache.                                            *)
(***************************************************************************)
\* The packet about to be handled.
LEMMA FirstIsPacket ==
  ASSUME QueueInv, packet_queue_head # packet_queue_tail
  PROVE  /\ packet_queue[packet_queue_head] \in Packets
         /\ InQueue \in 1..Depth - 1
         /\ At(packet_queue_head, 1) = packet_queue_head
<1>1. /\ InQueue = Span(packet_queue_head, packet_queue_tail)
      /\ packet_queue_head \in 0..Depth - 1 /\ packet_queue_tail \in 0..Depth - 1
  BY DEF InQueue, Span, QueueInv, TypeOK
<1>2. InQueue \in 1..Depth - 1 /\ At(packet_queue_head, 1) = packet_queue_head
  BY <1>1, FreeSpan
<1>3. 1 \in 1..InQueue
  BY <1>2, DepthAssumption
<1> QED
  BY <1>2, <1>3 DEF QueueInv

\* A step leaves the CVs and the cache alone, handles a packet of the queue or
\* writes for the application.
LEMMA CvSteps ==
  ASSUME QueueInv, [Next]_vars
  PROVE  \/ UNCHANGED <<cvs, cache>>
         \/ HandlePacket /\ packet_queue[packet_queue_head] \in Packets
         \/ ApplicationWrite
<1>1. CASE HandlePacket
  BY <1>1, FirstIsPacket DEF HandlePacket
<1>2. CASE ~HandlePacket
  BY <1>2 DEF Next, EdgeIsr, MainLoop, FirstByte, LastDataByte, BitError, PacketEnds,
     RunStarts, StoreType, ReleaseSlot, QueueDrained, RunFailsafe, RunAckPulse, Tick,
     vars, packetVars
<1> QED
  BY <1>1, <1>2

\* Every change of the CVs is one write by the rules of Stored: a byte, followed
\* by the cache if the CV is watched.
LEMMA CvsAreWritten ==
  ASSUME QueueInv, [Next]_vars
  PROVE  \/ UNCHANGED <<cvs, cache>>
         \/ \E w \in ApplicationWrites : WriteCv(w[1], w[2], AddressCvs)
         \/ \E p \in Packets :
              /\ Writes(Carried(p))
              /\ WriteCv(Carried(p).cv, ByteWritten(Carried(p)), WatchedBy(p))
<1>1. CASE HandlePacket /\ packet_queue[packet_queue_head] \in Packets
  <2> DEFINE p == packet_queue[packet_queue_head]
  <2>1. Execute(Carried(p), WatchedBy(p))
    BY <1>1 DEF HandlePacket, Process
  <2> QED
    BY <1>1, <2>1 DEF Execute
<1>2. CASE ApplicationWrite
  BY <1>2 DEF ApplicationWrite
<1> QED
  BY <1>1, <1>2, CvSteps

\* With the keys apart only a key or a factory reset is accepted.
LEMMA LockedWrite ==
  ASSUME NEW cv, NEW value, NEW watched, Locked, WriteCv(cv, value, watched),
         cvs' # Defaults, NEW other \in DOMAIN cvs \ LockKeys
  PROVE  cvs'[other] = cvs[other]
<1>1. cvs' = Stored(cv, value)
  BY DEF WriteCv
<1>2. CASE ~Accepts(cv, value)
  BY <1>1, <1>2 DEF Stored
<1>3. CASE Accepts(cv, value)
  <2>1. ~IsFactoryReset(cv, value)
    BY <1>1, <1>3 DEF Stored
  <2>2. cv \in LockKeys
    BY <1>3, <2>1 DEF Accepts
  <2>3. other # cv
    BY <2>2 DEF LockKeys
  <2>4. cvs' = [cvs EXCEPT ![cv] = IF cv = 29 THEN FilterConfig(value) ELSE value]
    BY <1>1, <1>3, <2>1 DEF Stored
  <2> QED
    BY <2>3, <2>4
<1> QED
  BY <1>2, <1>3

\* While the lock's keys differ nothing but the keys and a factory reset gets
\* through, from any packet and any call (DccCvStorage_write and every path to it).
THEOREM DecoderLock == Spec => LockHolds
<1>1. QueueInv /\ [Next]_vars =>
        [Locked /\ cvs' # Defaults =>
           \A cv \in DOMAIN cvs \ LockKeys : cvs'[cv] = cvs[cv]]_cvs
  BY CvsAreWritten, LockedWrite
<1> QED
  BY <1>1, QueueInit, QueueStep, PTL DEF Spec, LockHolds

CvInv ==
  /\ DOMAIN cvs = DOMAIN Defaults
  /\ cvs[11] \in Int
  /\ cache = Resolve(cvs)

\* A bit set or cleared in a number leaves a number.
LEMMA BitWritten ==
  ASSUME NEW byte \in Int, NEW value \in 0..255
  PROVE  SetBit(byte, value % 8, Bit(value, 3)) \in Int
<1>1. value % 8 \in Nat
  OBVIOUS
<1>2. 2^(value % 8) \in Int
  BY <1>1
<1> DEFINE k == 2^(value % 8)
<1>3. byte + k \in Int /\ byte - k \in Int
  BY <1>2
<1> QED
  BY <1>3 DEF SetBit

\* A write to a CV the cache is not made from leaves what it resolves to.
LEMMA UnwatchedWrite ==
  ASSUME NEW cv, NEW value, NEW watched, CvInv, WriteCv(cv, value, watched),
         \/ watched = AddressCvs
         \/ watched = AccessoryAddressCvs /\ IsAccessory(cache.type)
  PROVE  cache' = Resolve(cvs')
<1>1. cvs' = Stored(cv, value)
  BY DEF WriteCv
<1>2. CASE ~Accepts(cv, value)
  <2>1. cvs' = cvs /\ cache' = cache
    BY <1>1, <1>2 DEF Stored, WriteCv
  <2> QED
    BY <2>1 DEF CvInv
<1>3. CASE Accepts(cv, value) /\ cv \in watched
  BY <1>3 DEF WriteCv
<1>4. CASE Accepts(cv, value) /\ cv \notin watched
  <2> DEFINE v == IF cv = 29 THEN FilterConfig(value) ELSE value
  <2>1. cv # 8 /\ cv \notin {1, 17, 18, 29, 513, 521}
    BY <1>4 DEF AddressCvs, AccessoryAddressCvs
  <2>2. cvs' = [cvs EXCEPT ![cv] = v] /\ cache' = cache
    BY <1>1, <1>4, <2>1 DEF Stored, WriteCv, IsFactoryReset
  <2> HIDE DEF v
  <2>3. {1, 17, 18, 19, 29, 513, 521, 541} \subseteq DOMAIN cvs
    BY DefaultsAssumption DEF CvInv
  <2>4. /\ cvs'[1] = cvs[1] /\ cvs'[17] = cvs[17] /\ cvs'[18] = cvs[18]
        /\ cvs'[29] = cvs[29] /\ cvs'[513] = cvs[513] /\ cvs'[521] = cvs[521]
        /\ cv # 19 => cvs'[19] = cvs[19]
        /\ cv # 541 => cvs'[541] = cvs[541]
    BY <2>1, <2>2, <2>3
  <2>5. AccessoryAddress(cvs') = AccessoryAddress(cvs) \/ cv = 541
    BY <2>4 DEF AccessoryAddress
  <2>6. cv # 541
    BY <1>4 DEF AddressCvs, AccessoryAddressCvs
  <2>7. CASE cv # 19
    <3>1. /\ cvs'[541] = cvs[541] /\ cvs'[29] = cvs[29] /\ cvs'[19] = cvs[19]
          /\ AccessoryAddress(cvs') = AccessoryAddress(cvs)
      BY <2>4, <2>5, <2>6, <2>7
    <3>2. cvs'[1] = cvs[1] /\ cvs'[17] = cvs[17] /\ cvs'[18] = cvs[18]
      BY <2>4
    <3>3. Resolve(cvs') = Resolve(cvs)
      BY <3>1, <3>2 DEF Resolve
    <3> QED
      BY <2>2, <3>3 DEF CvInv
  <2>8. CASE cv = 19
    <3>1. IsAccessory(Resolve(cvs).type)
      BY <1>4, <2>8 DEF AddressCvs, CvInv
    <3>2. Bit(cvs[541], 7)
      BY <3>1, Zenon DEF IsAccessory, Resolve
    <3> QED
      BY <2>2, <2>4, <2>5, <2>6, <3>2 DEF CvInv, Resolve
  <2> QED
    BY <2>7, <2>8
<1> QED
  BY <1>2, <1>3, <1>4

\* One write keeps the CVs' invariant, given what it may store in CV 11.
LEMMA CvWrite ==
  ASSUME NEW cv, NEW value, NEW watched, CvInv, WriteCv(cv, value, watched),
         cv = 11 => value \in Int,
         \/ watched = AddressCvs
         \/ watched = AccessoryAddressCvs /\ IsAccessory(cache.type)
  PROVE  CvInv'
<1>1. cache' = Resolve(cvs')
  BY UnwatchedWrite
<1>2. 11 \in DOMAIN cvs /\ 11 \in DOMAIN Defaults /\ Defaults[11] \in Int
  BY DefaultsAssumption DEF CvInv
<1>3. \/ cvs' = cvs \/ cvs' = Defaults
      \/ cvs' = [cvs EXCEPT ![cv] = IF cv = 29 THEN FilterConfig(value) ELSE value]
  BY DEF WriteCv, Stored
<1>4. DOMAIN cvs' = DOMAIN Defaults
  BY <1>3 DEF CvInv
<1>5. cvs'[11] \in Int
  <2>1. CASE cvs' = cvs \/ cvs' = Defaults
    BY <1>2, <2>1 DEF CvInv
  <2>2. CASE cvs' = [cvs EXCEPT ![cv] = IF cv = 29 THEN FilterConfig(value) ELSE value]
    <3>1. CASE cv = 11
      BY <1>2, <2>2, <3>1
    <3>2. CASE cv # 11
      BY <1>2, <2>2, <3>2 DEF CvInv
    <3> QED
      BY <3>1, <3>2
  <2> QED
    BY <1>3, <2>1, <2>2
<1> QED
  BY <1>1, <1>4, <1>5 DEF CvInv

LEMMA CvInit == Init => CvInv
<1> SUFFICES ASSUME Init PROVE CvInv
  OBVIOUS
<1>1. cvs = Defaults /\ cache = Resolve(Defaults)
  BY DEF Init, PacketInit
<1>2. Defaults[11] \in Int
  BY DefaultsAssumption
<1> QED
  BY <1>1, <1>2 DEF CvInv

LEMMA CvStep ==
  ASSUME QueueInv, CvInv, [Next]_vars
  PROVE  CvInv'
<1>1. CASE UNCHANGED <<cvs, cache>>
  BY <1>1 DEF CvInv
<1>2. CASE \E w \in ApplicationWrites : WriteCv(w[1], w[2], AddressCvs)
  <2> PICK w \in ApplicationWrites : WriteCv(w[1], w[2], AddressCvs)
    BY <1>2
  <2>1. w[2] \in Int
    BY WritesAssumption
  <2> QED
    BY <2>1, CvWrite
<1>3. CASE \E p \in Packets :
             /\ Writes(Carried(p))
             /\ WriteCv(Carried(p).cv, ByteWritten(Carried(p)), WatchedBy(p))
  <2> PICK p \in Packets :
             /\ Writes(Carried(p))
             /\ WriteCv(Carried(p).cv, ByteWritten(Carried(p)), WatchedBy(p))
    BY <1>3
  <2> DEFINE i == Carried(p)
  <2>1. i \in {p.instruction, p.service} /\ i.value \in 0..255
    <3>1. i \in {p.instruction, p.service, NoService} /\ i # NoService
      BY DEF Carried, Writes, NoService
    <3>2. i \in {p.instruction, p.service}
      BY <3>1
    <3> QED
      BY <3>2, PacketsAssumption
  <2>2. i.cv = 11 => ByteWritten(i) \in Int
    <3> HIDE DEF i
    <3> SUFFICES ASSUME i.cv = 11 PROVE ByteWritten(i) \in Int
      OBVIOUS
    <3>1. WithBit(i.cv, i.value) \in Int
      BY <2>1, BitWritten DEF WithBit, CvInv
    <3>2. i.value \in Int
      BY <2>1
    <3> QED
      BY <3>1, <3>2 DEF ByteWritten
  <2>3. \/ WatchedBy(p) = AddressCvs
        \/ WatchedBy(p) = AccessoryAddressCvs /\ IsAccessory(cache.type)
    <3>1. CASE p.type # "ACCESSORY"
      BY <3>1 DEF WatchedBy
    <3>2. CASE p.type = "ACCESSORY"
      <4>1. ~IsService(p)
        BY <3>2, PacketsAssumption DEF IsService
      <4>2. IsOurs(p)
        BY <4>1 DEF Carried, Writes, NoService
      <4> QED
        BY <3>2, <4>2 DEF IsOurs, WatchedBy
    <3> QED
      BY <3>1, <3>2
  <2> QED
    BY <2>2, <2>3, CvWrite
<1> QED
  BY <1>1, <1>2, <1>3, CvsAreWritten

\* The cached address is the one the CVs spell out, for any CVs, any packets and
\* any writes of the application (_cv_write_and_notify, its accessory twin and
\* _decoder_cv_application_write).
THEOREM DecoderCache == Spec => []CacheFollowsCvs
<1>1. CvInv => CacheFollowsCvs
  BY DEF CvInv, CacheFollowsCvs
<1> QED
  BY <1>1, QueueInit, QueueStep, CvInit, CvStep, PTL DEF Spec
-----------------------------------------------------------------------------
(***************************************************************************)
(* The packet time-out.                                                    *)
(***************************************************************************)
\* The i-th packet waiting will re-arm the time-out when it is handled.
WillRearm(i) ==
  /\ at = "HANDLED" => i > 1
  /\ LET p == packet_queue[At(packet_queue_head, i)]
     IN Rearms(p) /\ p.service = NoService

\* If less time has passed since a packet was heard than since one was handled,
\* the packet heard is still waiting.
FailsafeInv ==
  /\ since_packet \in 0..Forever /\ heard \in 0..Forever
  /\ heard < since_packet => missed /\ \E i \in 1..InQueue : WillRearm(i)

LEMMA FailsafeInit == Init => FailsafeInv
BY TimesAssumption DEF Init, FailsafeInv

\* What a packet without a service-mode reading does depends on the cache alone.
LEMMA SameRearms ==
  ASSUME NEW p, UNCHANGED cache, Rearms(p), p.service = NoService
  PROVE  Rearms(p)'
BY DEF Rearms, Leaves, IsService, IsOurs

\* Steps that leave the queue, the times and the cache alone.
LEMMA FailsafeUntouched ==
  ASSUME FailsafeInv, UNCHANGED <<queueVars, cache, since_packet, past>>,
         at' = "HANDLED" => at = "HANDLED"
  PROVE  FailsafeInv'
<1>1. UNCHANGED <<packet_queue, packet_queue_head, InQueue, heard, missed>>
  BY DEF queueVars, past, InQueue
<1>2. ASSUME NEW i \in 1..InQueue, WillRearm(i)
      PROVE  WillRearm(i)'
  BY <1>1, <1>2, SameRearms DEF WillRearm
<1> QED
  BY <1>1, <1>2 DEF FailsafeInv

\* A cache that changed makes what was heard before count no more.
LEMMA FailsafeMoved ==
  ASSUME since_packet' \in 0..Forever, heard' = Forever
  PROVE  FailsafeInv'
<1>1. ~(heard' < since_packet') /\ heard' \in 0..Forever
  BY TimesAssumption
<1> QED
  BY <1>1 DEF FailsafeInv

LEMMA FailsafeStep ==
  ASSUME QueueInv, FailsafeInv, [Next]_vars
  PROVE  FailsafeInv'
<1>1. CASE PacketEnds /\ ~QueueFull
  <2>1. /\ InQueue \in Nat /\ InQueue' = InQueue + 1
        /\ \A i \in 1..InQueue :
             packet_queue'[At(packet_queue_head', i)] = packet_queue[At(packet_queue_head, i)]
        /\ packet_queue'[At(packet_queue_head', InQueue')] = receiving
    BY <1>1, Appended
  <2>2. UNCHANGED <<cache, service_mode_active, at, since_packet>>
    BY <1>1 DEF PacketEnds, packetVars, timeVars
  <2>3. CASE Rearms(receiving) /\ receiving.service = NoService
    <3>1. heard' = 0 /\ missed' = TRUE
      BY <1>1, <2>3 DEF PacketEnds, Enqueue
    <3>2. at' = "HANDLED" => InQueue' > 1
      <4>1. at = "HANDLED" => InQueue \in 1..Depth - 1
        BY FirstIsPacket DEF QueueInv
      <4> QED
        BY <2>1, <2>2, <4>1, DepthAssumption
    <3>3. WillRearm(InQueue)'
      BY <2>1, <2>2, <2>3, <3>2, SameRearms DEF WillRearm
    <3>4. \E i \in 1..InQueue' : WillRearm(i)'
      <4>1. InQueue' \in 1..InQueue'
        BY <2>1
      <4> QED
        BY <3>3, <4>1
    <3>5. heard' \in 0..Forever /\ since_packet' \in 0..Forever
      BY <2>2, <3>1, TimesAssumption DEF FailsafeInv
    <3> QED
      BY <3>1, <3>4, <3>5 DEF FailsafeInv
  <2>4. CASE ~(Rearms(receiving) /\ receiving.service = NoService)
    <3>1. UNCHANGED past
      BY <1>1, <2>4 DEF PacketEnds, Enqueue
    <3>2. ASSUME NEW i \in 1..InQueue, WillRearm(i)
          PROVE  WillRearm(i)'
      BY <2>1, <2>2, <3>2, SameRearms DEF WillRearm
    <3>3. \A i \in 1..InQueue : i \in 1..InQueue'
      BY <2>1
    <3> QED
      BY <2>2, <3>1, <3>2, <3>3 DEF FailsafeInv, past
  <2> QED
    BY <2>3, <2>4
<1>2. CASE HandlePacket
  <2> DEFINE p == packet_queue[packet_queue_head]
  <2>1. /\ at = "PACKETS" /\ at' = "HANDLED" /\ UNCHANGED <<queueVars, missed>>
        /\ NotePacket(p)
        /\ heard' = IF cache' = cache THEN heard ELSE Forever
    BY <1>2 DEF HandlePacket, ForgetIfMoved
  <2>2. since_packet' \in 0..Forever
    <3>1. since_packet' = 0 \/ since_packet' = since_packet
      BY <2>1 DEF NotePacket
    <3> QED
      BY <3>1, TimesAssumption DEF FailsafeInv
  <2>3. CASE cache' # cache
    BY <2>1, <2>2, <2>3, FailsafeMoved
  <2>4. CASE cache' = cache /\ Rearms(p)
    <3>1. since_packet' = 0 /\ heard' = heard
      BY <2>1, <2>4 DEF NotePacket
    <3>2. ~(heard' < since_packet') /\ heard' \in 0..Forever
      BY <3>1 DEF FailsafeInv
    <3> QED
      BY <2>2, <3>2 DEF FailsafeInv
  <2>5. CASE cache' = cache /\ ~Rearms(p)
    <3>1. since_packet' = since_packet /\ heard' = heard
      BY <2>1, <2>5 DEF NotePacket
    <3>2. UNCHANGED <<packet_queue, packet_queue_head, InQueue>>
      BY <2>1 DEF queueVars, InQueue
    <3>3. At(packet_queue_head, 1) = packet_queue_head
      BY <1>2, FirstIsPacket DEF HandlePacket
    <3>4. ASSUME NEW i \in 1..InQueue, WillRearm(i)
          PROVE  WillRearm(i)'
      <4>1. i # 1
        BY <2>5, <3>3, <3>4 DEF WillRearm
      <4>2. i > 1
        BY <4>1
      <4> QED
        BY <2>5, <3>2, <3>4, <4>2, SameRearms DEF WillRearm
    <3> QED
      BY <2>1, <3>1, <3>2, <3>4 DEF FailsafeInv
  <2> QED
    BY <2>3, <2>4, <2>5
<1>3. CASE ReleaseSlot
  <2>1. /\ InQueue \in 1..Depth - 1 /\ InQueue' = InQueue - 1
        /\ \A i \in 1..InQueue' :
             packet_queue'[At(packet_queue_head', i)]
               = packet_queue[At(packet_queue_head, i + 1)]
    BY <1>3, Released
  <2>2. /\ at = "HANDLED" /\ at' = "PACKETS"
        /\ UNCHANGED <<cache, since_packet, heard, missed>>
    BY <1>3 DEF ReleaseSlot, packetVars, timeVars, past
  <2>3. ASSUME NEW i \in 1..InQueue, WillRearm(i)
        PROVE  i - 1 \in 1..InQueue' /\ WillRearm(i - 1)'
    <3>1. i > 1
      BY <2>2, <2>3 DEF WillRearm
    <3>2. i - 1 \in 1..InQueue' /\ (i - 1) + 1 = i
      BY <2>1, <3>1
    <3>3. packet_queue'[At(packet_queue_head', i - 1)]
            = packet_queue[At(packet_queue_head, i)]
      BY <2>1, <3>2
    <3> QED
      BY <2>2, <2>3, <3>2, <3>3, SameRearms DEF WillRearm
  <2> QED
    BY <2>2, <2>3 DEF FailsafeInv
<1>4. CASE QueueDrained
  <2>1. InQueue = 0
    <3>1. packet_queue_head = packet_queue_tail
          /\ packet_queue_head \in 0..Depth - 1
      BY <1>4 DEF QueueDrained, QueueInv, TypeOK
    <3> QED
      BY <3>1, DepthAssumption DEF InQueue
  <2>2. ~(heard < since_packet)
    BY <2>1 DEF FailsafeInv
  <2>3. heard' = heard /\ since_packet' = since_packet
    BY <1>4 DEF QueueDrained, timeVars
  <2> QED
    BY <2>2, <2>3 DEF FailsafeInv
<1>5. CASE ApplicationWrite
  <2>1. /\ heard' = IF cache' = cache THEN heard ELSE Forever
        /\ UNCHANGED <<queueVars, at, since_packet, missed>>
    BY <1>5 DEF ApplicationWrite, ForgetIfMoved, timeVars
  <2>2. CASE cache' = cache
    BY <2>1, <2>2, FailsafeUntouched DEF past
  <2>3. CASE cache' # cache
    BY <2>1, <2>3, FailsafeMoved DEF FailsafeInv
  <2> QED
    BY <2>2, <2>3
<1>6. CASE Tick
  <2>1. /\ since_packet' = Later(since_packet) /\ heard' = Later(heard)
        /\ UNCHANGED <<queueVars, cache, at, missed>>
    BY <1>6 DEF Tick, packetVars
  <2>2. /\ since_packet' \in 0..Forever /\ heard' \in 0..Forever
        /\ heard' < since_packet' => heard < since_packet
    BY <2>1, TimesAssumption DEF FailsafeInv, Later
  <2>3. UNCHANGED <<packet_queue, packet_queue_head, InQueue>>
    BY <2>1 DEF queueVars, InQueue
  <2>4. ASSUME NEW i \in 1..InQueue, WillRearm(i)
        PROVE  WillRearm(i)'
    BY <2>1, <2>3, <2>4, SameRearms DEF WillRearm
  <2> QED
    BY <2>1, <2>2, <2>3, <2>4 DEF FailsafeInv
<1>7. CASE \/ UNCHANGED vars \/ FirstByte \/ LastDataByte \/ BitError
           \/ PacketEnds /\ QueueFull
           \/ RunStarts \/ StoreType \/ RunFailsafe \/ RunAckPulse
  <2>1. /\ UNCHANGED <<queueVars, cache, since_packet, past>>
        /\ at' = "HANDLED" => at = "HANDLED"
    BY <1>7 DEF vars, FirstByte, LastDataByte, BitError, PacketEnds, Enqueue,
       RunStarts, StoreType, RunFailsafe, RunAckPulse, packetVars, timeVars, past
  <2> QED
    BY <2>1, FailsafeUntouched
<1> QED
  BY <1>1, <1>2, <1>3, <1>4, <1>5, <1>6, <1>7 DEF Next, EdgeIsr, MainLoop

\* Only the poll of the time-out trips it.
LEMMA TripStep ==
  ASSUME CvInv, FailsafeInv, [Next]_vars, active', ~active
  PROVE  missed \/ heard >= Timeout
<1>1. TimesOut
  <2>1. CASE RunFailsafe
    BY <2>1 DEF RunFailsafe
  <2>2. CASE HandlePacket
    <3>1. NotePacket(packet_queue[packet_queue_head])
      BY <2>2 DEF HandlePacket
    <3> QED
      BY <3>1 DEF NotePacket
  <2>3. CASE ~RunFailsafe /\ ~HandlePacket
    BY <2>3 DEF Next, EdgeIsr, MainLoop, FirstByte, LastDataByte, BitError,
       PacketEnds, RunStarts, StoreType, ReleaseSlot, QueueDrained, RunAckPulse,
       ApplicationWrite, Tick, vars, timeVars
  <2> QED
    BY <2>1, <2>2, <2>3
<1>2. since_packet >= Timeout
  BY <1>1 DEF TimesOut
<1>3. Timeout \in Int
  BY TimesAssumption DEF Timeout, CvInv
<1>4. since_packet \in Int /\ heard \in Int
      /\ (heard < since_packet => missed)
  BY DEF FailsafeInv
<1> HIDE DEF Timeout
<1> QED
  BY <1>2, <1>3, <1>4

\* The time-out never trips while the decoder hears packets for it, for any
\* value of CV 11 and any interleaving of the edge interrupt with the main loop
\* (DccFailsafe_note_valid_packet, DccFailsafe_run).
THEOREM DecoderFailsafe == Spec => NoTripWhileHeard
<1>1. CvInv /\ FailsafeInv /\ [Next]_vars =>
        [active' /\ ~active => missed \/ heard >= Timeout]_vars
  BY TripStep
<1> QED
  BY <1>1, QueueInit, QueueStep, CvInit, CvStep, FailsafeInit, FailsafeStep, PTL
     DEF Spec, NoTripWhileHeard
=============================================================================
