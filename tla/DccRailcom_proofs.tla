------------------------- MODULE DccRailcom_proofs --------------------------
(***************************************************************************)
(* Theorems of DccRailcom, for any addresses, buffer depth and read limit. *)
(***************************************************************************)
EXTENDS DccRailcom, TLAPS

(***************************************************************************)
(* The cutout and the cancel.  A begin finds the sequence idle, because no *)
(* packet ends during a cutout; a cancel begins only during one.           *)
(***************************************************************************)
BridgeInv ==
  /\ BridgeFollowsState
  /\ state \in Phases
  /\ at \in {"start", "railcom", "draining", "ch1", "ch2", "stopping",
             "restoring"}
  /\ arm_pending => state = "IDLE" /\ ~Cancelling
  /\ at = "restoring" => ~timer

\* What the main loop does apart from a cancel leaves the cutout alone.
LEMMA CutoutUntouched ==
  ASSUME RunScheduler \/ RunRailcom \/ Drain \/ DrainEnds \/ ReportCh1
           \/ ReportCh2 \/ Read
  PROVE  /\ UNCHANGED <<cutVars, arm_pending, powered, answering, past>>
         /\ at' \in {"start", "railcom", "draining", "ch1", "ch2"}
         /\ ~Cancelling
BY DEF RunScheduler, RunRailcom, Drain, DrainEnds, ReportCh1, ReportCh2, Read,
       encVars, past, Cancelling

LEMMA BridgeInvStep ==
  ASSUME BridgeInv, [Next]_vars
  PROVE  BridgeInv'
<1> USE DEF BridgeInv, BridgeFollowsState, Phases, InCutout, Channels,
            Cancelling
<1>1. CASE UNCHANGED vars
  BY <1>1 DEF vars, cutVars, encVars
<1>2. CASE PacketEnds
  BY <1>2 DEF PacketEnds, cutVars
<1>3. CASE CutoutBegins
  BY <1>3 DEF CutoutBegins
<1>4. CASE OneShotIsr
  <2> USE <1>4 DEF OneShotIsr, encVars
  <2>1. CASE BridgeOff
    BY <2>1 DEF BridgeOff
  <2>2. CASE WindowOpens("SETTLING", "CH1")
    BY <2>2 DEF WindowOpens
  <2>3. CASE WindowCloses
    BY <2>3 DEF WindowCloses
  <2>4. CASE WindowOpens("GAP", "CH2")
    BY <2>4 DEF WindowOpens
  <2>5. CASE CutoutComplete
    BY <2>5 DEF CutoutComplete
  <2> QED
    BY <2>1, <2>2, <2>3, <2>4, <2>5
<1>5. CASE Answer
  BY <1>5 DEF Answer, cutVars, encVars
<1>6. CASE RunScheduler \/ RunRailcom \/ Drain \/ DrainEnds \/ ReportCh1
             \/ ReportCh2 \/ Read
  BY <1>6, CutoutUntouched DEF cutVars
<1>7. CASE CancelStopsTimer
  BY <1>7 DEF CancelStopsTimer, encVars
<1>8. CASE CancelRestores
  BY <1>8 DEF CancelRestores, encVars
<1>9. CASE (\E on \in BOOLEAN : EncoderStartOrStop(on)) \/ Cancel
  BY <1>9 DEF EncoderStartOrStop, Cancel, cutVars, encVars
<1> QED
  BY <1>1, <1>2, <1>3, <1>4, <1>5, <1>6, <1>7, <1>8, <1>9
     DEF Next, MainLoop, Application

\* In every reachable state the bridge is off and the UART listens exactly in
\* the phases that are for it, whatever the cancel and the timer do to each
\* other (dcc_railcom_cutout.c).
THEOREM RailcomBridge == Spec => []BridgeFollowsState
<1>1. Init => BridgeInv
  BY DEF Init, BridgeInv, BridgeFollowsState, Phases, InCutout, Channels,
         Cancelling
<1>2. BridgeInv => BridgeFollowsState
  BY DEF BridgeInv
<1> QED
  BY <1>1, <1>2, BridgeInvStep, PTL DEF Spec
-----------------------------------------------------------------------------
(***************************************************************************)
(* Whose replies are where.                                                *)
(***************************************************************************)
AllFrom(replies, address) ==
  \A i \in DOMAIN replies : replies[i].from = address

TagInv ==
  /\ uart \in Seq(Reply)
  /\ ch1 \in Seq(Addresses \cup {NoAddress})
  /\ ch2 \in Seq(Addresses \cup {NoAddress})
  /\ {loaded_address, answering} \subseteq Addresses \cup {NoAddress}
  /\ completed_address = answering
  /\ arm_pending => state = "IDLE"
  /\ ~late /\ state \in InCutout =>
       ~cutout_pending /\ ~Draining /\ AllFrom(uart, answering)
  /\ ~late /\ (cutout_pending \/ Draining) => AllFrom(uart, cutout_address)
  /\ RepliesTagged

\* The tail of replies from one address is from that address.
LEMMA TailFrom ==
  ASSUME NEW replies \in Seq(Reply), replies # <<>>, NEW address,
         AllFrom(replies, address)
  PROVE  /\ Tail(replies) \in Seq(Reply)
         /\ AllFrom(Tail(replies), address)
         /\ Head(replies) \in Reply
         /\ Head(replies).from = address
BY DEF AllFrom

\* A reply from the same address keeps them so.
LEMMA AppendFrom ==
  ASSUME NEW replies \in Seq(Reply), NEW address, AllFrom(replies, address),
         NEW reply \in Reply, reply.from = address
  PROVE  /\ Append(replies, reply) \in Seq(Reply)
         /\ AllFrom(Append(replies, reply), address)
BY DEF AllFrom

\* The same for the addresses the drain has sorted out.
LEMMA AppendAddress ==
  ASSUME NEW S, NEW seq \in Seq(S), NEW address \in S
  PROVE  /\ Append(seq, address) \in Seq(S)
         /\ (\A i \in DOMAIN seq : seq[i] = address) =>
              \A i \in DOMAIN Append(seq, address) :
                 Append(seq, address)[i] = address
OBVIOUS

LEMMA TagInvStep ==
  ASSUME TagInv, BridgeInv, [Next]_vars
  PROVE  TagInv'
<1> USE DEF TagInv, RepliesTagged, Draining, InCutout
<1>1. CASE UNCHANGED vars
  BY <1>1 DEF vars, cutVars, encVars, uartVars, tag, drain, past, AllFrom
<1>2. CASE PacketEnds
  BY <1>2 DEF PacketEnds, cutVars, uartVars, tag, drain, past, AllFrom
<1>3. CASE CutoutBegins
  BY <1>3 DEF CutoutBegins, uartVars, tag, drain, past, AllFrom
<1>4. CASE OneShotIsr
  <2> USE <1>4 DEF OneShotIsr, encVars, drain
  <2>1. CASE BridgeOff
    <3>1. /\ UNCHANGED <<encVars, completed_address, at, drain, tag>>
          /\ uart' = <<>> /\ state' = "SETTLING" /\ ~arm_pending
      BY <2>1 DEF BridgeOff
    <3>2. ~late' => ~cutout_pending' /\ ~Draining'
      <4>1. late' = (cutout_pending \/ Draining)
        BY <2>1 DEF BridgeOff
      <4>2. ~late' => ~cutout_pending /\ ~Draining
        BY <4>1, Zenon
      <4> QED
        BY <3>1, <4>2 DEF tag
    <3>3. AllFrom(uart', answering') /\ AllFrom(uart', cutout_address')
      BY <3>1 DEF AllFrom
    <3> QED
      BY <3>1, <3>2, <3>3 DEF encVars, drain, AllFrom
  <2>2. CASE WindowOpens("SETTLING", "CH1")
    BY <2>2 DEF WindowOpens, tag, uartVars, past, AllFrom
  <2>3. CASE WindowCloses
    BY <2>3 DEF WindowCloses, tag, uartVars, past, AllFrom
  <2>4. CASE WindowOpens("GAP", "CH2")
    BY <2>4 DEF WindowOpens, tag, uartVars, past, AllFrom
  <2>5. CASE CutoutComplete
    BY <2>5 DEF CutoutComplete, uartVars, past, AllFrom
  <2> QED
    BY <2>1, <2>2, <2>3, <2>4, <2>5
<1>5. CASE Answer
  <2> DEFINE reply == [channel |-> state, from |-> answering]
  <2>1. /\ uart' = Append(uart, reply) /\ state \in InCutout
        /\ reply \in Reply /\ reply.from = answering
    BY <1>5 DEF Answer, Channels, Reply
  <2>2. UNCHANGED <<encVars, completed_address, cutVars, at, tag, drain, past>>
    BY <1>5 DEF Answer
  <2>3. ~late => AllFrom(uart', answering)
    BY <2>1, AppendFrom
  <2>4. uart' \in Seq(Reply)
    BY <2>1
  <2> QED
    BY <2>1, <2>2, <2>3, <2>4 DEF encVars, cutVars, tag, drain, past, AllFrom
<1>6. CASE RunScheduler
  BY <1>6 DEF RunScheduler, cutVars, uartVars, tag, drain, past, AllFrom
<1>7. CASE RunRailcom
  BY <1>7 DEF RunRailcom, encVars, cutVars, uartVars, past, AllFrom
<1>8. CASE Drain
  <2>1. /\ uart # <<>> /\ uart' = Tail(uart) /\ at = "draining"
        /\ UNCHANGED <<encVars, completed_address, cutVars, at, tag, past>>
    BY <1>8 DEF Drain
  <2>2. Head(uart) \in Reply /\ uart' \in Seq(Reply)
    BY <2>1
  <2>3. Head(uart).from \in Addresses \cup {NoAddress}
    BY <2>2 DEF Reply
  <2>4. ~late => AllFrom(uart', cutout_address) /\ Head(uart).from = cutout_address
    BY <2>1, TailFrom
  <2>5. \/ ch1' = Append(ch1, Head(uart).from) /\ ch2' = ch2
        \/ ch2' = Append(ch2, Head(uart).from) /\ ch1' = ch1
    BY <1>8 DEF Drain
  <2> DEFINE A       == Addresses \cup {NoAddress}
             All(seq) == \A i \in DOMAIN seq : seq[i] = cutout_address
  <2>6. /\ ch1' \in Seq(A) /\ ch2' \in Seq(A)
        /\ ~late => All(ch1') /\ All(ch2')
    <3>1. ~late => All(ch1) /\ All(ch2)
      BY <2>1
    <3>2. CASE ch1' = Append(ch1, Head(uart).from) /\ ch2' = ch2
      <4>1. ch1' \in Seq(A)
        BY <2>3, <3>2
      <4>2. ~late => All(ch1')
        BY <2>3, <2>4, <3>1, <3>2, AppendAddress
      <4> QED
        BY <3>1, <3>2, <4>1, <4>2
    <3>3. CASE ch2' = Append(ch2, Head(uart).from) /\ ch1' = ch1
      <4>1. ch2' \in Seq(A)
        BY <2>3, <3>3
      <4>2. ~late => All(ch2')
        BY <2>3, <2>4, <3>1, <3>3, AppendAddress
      <4> QED
        BY <3>1, <3>3, <4>1, <4>2
    <3> QED
      BY <2>5, <3>2, <3>3
  <2>8. ~late => state \notin InCutout
    BY <2>1
  <2> QED
    BY <2>1, <2>2, <2>4, <2>6, <2>8
       DEF encVars, cutVars, tag, past, AllFrom
<1>9. CASE DrainEnds
  BY <1>9 DEF DrainEnds, encVars, cutVars, uartVars, tag, drain, past, AllFrom
<1>10. CASE ReportCh1
  BY <1>10 DEF ReportCh1, encVars, cutVars, uartVars, tag, past, AllFrom
<1>11. CASE ReportCh2
  BY <1>11 DEF ReportCh2, encVars, cutVars, uartVars, tag, past, AllFrom
<1>12. CASE Application
  BY <1>12 DEF Application, EncoderStartOrStop, Read, Cancel, encVars,
       cutVars, uartVars, tag, drain, past, AllFrom
<1>13. CASE CancelStopsTimer
  BY <1>13 DEF CancelStopsTimer, BridgeInv, encVars, uartVars, tag, drain, past,
       AllFrom
<1>14. CASE CancelRestores
  BY <1>14 DEF CancelRestores, BridgeInv, encVars, uartVars, tag, drain, AllFrom
<1> QED
  BY <1>1, <1>2, <1>3, <1>4, <1>5, <1>6, <1>7, <1>8, <1>9, <1>10, <1>11, <1>12,
     <1>13, <1>14 DEF Next, MainLoop

\* Every reply reported carries the address of the packet it answers, provided
\* its cutout was drained before the next began (dcc_config.c, the two-stage
\* capture).
THEOREM RailcomRepliesTagged == Spec => []RepliesTagged
<1>1. Init => TagInv /\ BridgeInv
  BY DEF Init, TagInv, AllFrom, RepliesTagged, Draining, InCutout, BridgeInv,
         BridgeFollowsState, Phases, Channels, Cancelling
<1>2. TagInv => RepliesTagged
  BY DEF TagInv
<1> QED
  BY <1>1, <1>2, TagInvStep, BridgeInvStep, PTL DEF Spec
-----------------------------------------------------------------------------
(***************************************************************************)
(* No completed cutout is forgotten.  What a drain may read is the replies *)
(* of one cutout, of which there are at most two, until another cutout     *)
(* begins, and that one announces itself when it completes.                *)
(***************************************************************************)
Heard(channel) == IF channel \in heard THEN 1 ELSE 0

AnnounceInv ==
  /\ uart \in Seq(Reply)
  /\ Len(ch1) \in Nat /\ Len(ch2) \in Nat
  /\ Len(uart) <= Heard("CH1") + Heard("CH2")
  /\ at = "draining" /\ ~cutout_pending /\ state \in {"IDLE", "DELAY"}
       /\ ~cancelled => Reads + Len(uart) <= 2
  /\ RepliesAnnounced

LEMMA AnnounceInvStep ==
  ASSUME AnnounceInv, TagInv, BridgeInv, [Next]_vars
  PROVE  AnnounceInv'
<1> USE DEF AnnounceInv, RepliesAnnounced, Heard, Reads
<1>1. CASE UNCHANGED vars
  BY <1>1 DEF vars, cutVars, uartVars, tag, drain, past
<1>2. CASE PacketEnds
  BY <1>2 DEF PacketEnds, cutVars, uartVars, tag, drain, past
<1>3. CASE CutoutBegins
  BY <1>3 DEF CutoutBegins, TagInv, uartVars, tag, drain, past
<1>4. CASE OneShotIsr
  <2> USE <1>4 DEF OneShotIsr, drain
  <2>1. CASE BridgeOff
    BY <2>1 DEF BridgeOff
  <2>2. CASE WindowOpens("SETTLING", "CH1")
    BY <2>2 DEF WindowOpens, uartVars
  <2>3. CASE WindowCloses
    BY <2>3 DEF WindowCloses, uartVars
  <2>4. CASE WindowOpens("GAP", "CH2")
    BY <2>4 DEF WindowOpens, uartVars
  <2>5. CASE CutoutComplete
    BY <2>5 DEF CutoutComplete, uartVars
  <2> QED
    BY <2>1, <2>2, <2>3, <2>4, <2>5
<1>5. CASE Answer
  <2>1. /\ state \in Channels /\ state \notin heard
        /\ heard' = heard \cup {state}
        /\ uart' = Append(uart, [channel |-> state, from |-> answering])
        /\ UNCHANGED <<cutVars, at, tag, drain, past>>
    BY <1>5 DEF Answer
  <2>2. [channel |-> state, from |-> answering] \in Reply
    BY <2>1 DEF Reply, TagInv
  <2>3. uart' \in Seq(Reply) /\ Len(uart') = Len(uart) + 1
    BY <2>1, <2>2
  <2>4. Heard("CH1")' + Heard("CH2")' = Heard("CH1") + Heard("CH2") + 1
    BY <2>1 DEF Channels
  <2> QED
    BY <2>1, <2>3, <2>4 DEF Channels, cutVars, drain
<1>6. CASE RunScheduler
  BY <1>6 DEF RunScheduler, cutVars, uartVars, tag, drain, past
<1>7. CASE RunRailcom
  BY <1>7 DEF RunRailcom, cutVars, uartVars, past
<1>8. CASE Drain
  <2>1. /\ uart # <<>> /\ uart' = Tail(uart) /\ at = "draining"
        /\ UNCHANGED <<cutVars, heard, at, tag, past>>
    BY <1>8 DEF Drain
  <2>2. uart' \in Seq(Reply) /\ Len(uart') = Len(uart) - 1 /\ Len(uart) \in Nat
    BY <2>1
  <2>3. Head(uart).from \in Addresses \cup {NoAddress}
    <3>1. Head(uart) \in Reply
      BY <2>1
    <3> QED
      BY <3>1 DEF Reply
  <2>4. \/ Len(ch1') = Len(ch1) + 1 /\ ch2' = ch2
        \/ Len(ch2') = Len(ch2) + 1 /\ ch1' = ch1
    BY <1>8, <2>3 DEF Drain, TagInv
  <2> QED
    BY <2>1, <2>2, <2>4 DEF cutVars, tag, past
<1>9. CASE DrainEnds
  BY <1>9, MaxReadsAssumption
     DEF DrainEnds, cutVars, uartVars, tag, drain, past
<1>10. CASE ReportCh1
  BY <1>10 DEF ReportCh1, cutVars, uartVars, tag, past
<1>11. CASE ReportCh2
  BY <1>11 DEF ReportCh2, cutVars, uartVars, tag, past
<1>12. CASE Application
  BY <1>12 DEF Application, EncoderStartOrStop, Read, Cancel, cutVars,
               uartVars, tag, drain, past
<1>13. CASE CancelStopsTimer
  BY <1>13 DEF CancelStopsTimer, uartVars, tag, drain, past
<1>14. CASE CancelRestores
  BY <1>14 DEF CancelRestores, uartVars, tag, drain
<1> QED
  BY <1>1, <1>2, <1>3, <1>4, <1>5, <1>6, <1>7, <1>8, <1>9, <1>10, <1>11, <1>12,
     <1>13, <1>14 DEF Next, MainLoop

\* Replies left in the UART after their cutout are announced to the main loop,
\* whatever it was doing when the cutout completed
\* (DccRailcomCommandStation_run).
THEOREM RailcomRepliesAnnounced == Spec => []RepliesAnnounced
<1>1. Init => AnnounceInv /\ TagInv /\ BridgeInv
  BY DEF Init, AnnounceInv, RepliesAnnounced, Heard, Reads, TagInv, AllFrom,
         RepliesTagged, Draining, InCutout, BridgeInv, BridgeFollowsState,
         Phases, Channels, Cancelling
<1>2. AnnounceInv => RepliesAnnounced
  BY DEF AnnounceInv
<1> QED
  BY <1>1, <1>2, AnnounceInvStep, TagInvStep, BridgeInvStep, PTL DEF Spec
-----------------------------------------------------------------------------
(***************************************************************************)
(* The ring buffer.                                                        *)
(***************************************************************************)
Datagrams == Addresses \cup {NoAddress}

RingInv ==
  /\ buffer \in [0..BufferDepth - 1 -> Datagrams]
  /\ buffer_head \in 0..BufferDepth - 1
  /\ buffer_tail \in 0..BufferDepth - 1
  /\ buffer_count \in 0..BufferDepth
  /\ buffer_head = (buffer_tail + buffer_count) % BufferDepth
  /\ RingIsQueue

\* Positions in a ring: counting on from the next position is counting one
\* further, once round is back again, and entries that are not once round
\* apart have different positions.
LEMMA Advance ==
  ASSUME NEW t \in 0..BufferDepth - 1, NEW n \in 0..BufferDepth - 1
  PROVE  (((t + n) % BufferDepth) + 1) % BufferDepth = (t + n + 1) % BufferDepth
BY BufferDepthAssumption

LEMMA Shift ==
  ASSUME NEW t \in 0..BufferDepth - 1, NEW i \in 1..BufferDepth
  PROVE  /\ (((t + 1) % BufferDepth) + i - 1) % BufferDepth = (t + i) % BufferDepth
         /\ (t + 1) % BufferDepth \in 0..BufferDepth - 1
BY BufferDepthAssumption

LEMMA OnceRound ==
  ASSUME NEW t \in 0..BufferDepth - 1
  PROVE  (t + BufferDepth) % BufferDepth = t
BY BufferDepthAssumption

LEMMA Apart ==
  ASSUME NEW t \in 0..BufferDepth - 1, NEW n \in 0..BufferDepth - 1,
         NEW i \in 1..n
  PROVE  (t + i - 1) % BufferDepth # (t + n) % BufferDepth
BY BufferDepthAssumption

LEMMA ApartFromFirst ==
  ASSUME NEW t \in 0..BufferDepth - 1, NEW i \in 1..BufferDepth - 1
  PROVE  /\ (t + i) % BufferDepth # t
         /\ (t + i) % BufferDepth \in 0..BufferDepth - 1
BY BufferDepthAssumption

\* The queue of a ring is a sequence as long as its count.
LEMMA QueueShape ==
  ASSUME RingInv
  PROVE  /\ unread \in Seq(Datagrams)
         /\ Len(unread) = buffer_count
         /\ \A i \in 1..buffer_count :
              unread[i] = buffer[(buffer_tail + i - 1) % BufferDepth]
<1> DEFINE e(i) == buffer[(buffer_tail + i - 1) % BufferDepth]
<1>1. buffer_count \in Nat
  BY BufferDepthAssumption DEF RingInv
<1>2. unread = [i \in 1..buffer_count |-> e(i)]
  BY DEF RingInv, RingIsQueue
<1>3. \A i \in 1..buffer_count : e(i) \in Datagrams
  <2> SUFFICES ASSUME NEW i \in 1..buffer_count
               PROVE  e(i) \in Datagrams
    OBVIOUS
  <2>1. (buffer_tail + i - 1) % BufferDepth \in 0..BufferDepth - 1
    BY BufferDepthAssumption DEF RingInv
  <2> QED
    BY <2>1 DEF RingInv
<1> HIDE DEF e
<1>4. unread \in Seq(Datagrams) /\ Len(unread) = buffer_count
  BY <1>1, <1>2, <1>3
<1>5. \A i \in 1..buffer_count : unread[i] = e(i)
  BY <1>2
<1> QED
  BY <1>4, <1>5 DEF e

\* A push appends to the queue and drops its oldest entry if it was full.
LEMMA PushKeepsQueue ==
  ASSUME RingInv, NEW datagram \in Datagrams, _buffer_push(datagram),
         unread' = Newest(Append(unread, datagram))
  PROVE  RingInv'
<1> USE BufferDepthAssumption
<1> DEFINE D == BufferDepth
<1>1. /\ unread \in Seq(Datagrams) /\ Len(unread) = buffer_count
      /\ \A i \in 1..buffer_count :
           unread[i] = buffer[(buffer_tail + i - 1) % D]
  BY QueueShape
<1>2. /\ buffer' = [buffer EXCEPT ![buffer_head] = datagram]
      /\ buffer_head' = (buffer_head + 1) % D
  BY DEF _buffer_push, After
<1>3. /\ buffer' \in [0..D - 1 -> Datagrams]
      /\ buffer_head' \in 0..D - 1
  BY <1>2 DEF RingInv
<1>4. CASE buffer_count < D
  <2>1. buffer_tail' = buffer_tail /\ buffer_count' = buffer_count + 1
    BY <1>4 DEF _buffer_push, RingInv
  <2>2. unread' = Append(unread, datagram)
    BY <1>1, <1>4 DEF Newest, RingInv
  <2>3. buffer_head' = (buffer_tail' + buffer_count') % D
    <3>1. buffer_head = (buffer_tail + buffer_count) % D
      BY DEF RingInv
    <3> QED
      BY <1>2, <1>4, <2>1, <3>1, Advance DEF RingInv
  <2>4. \A i \in 1..buffer_count' :
          unread'[i] = buffer'[(buffer_tail' + i - 1) % D]
    <3> SUFFICES ASSUME NEW i \in 1..buffer_count'
                 PROVE  unread'[i] = buffer'[(buffer_tail' + i - 1) % D]
      OBVIOUS
    <3> DEFINE p == (buffer_tail + i - 1) % D
    <3>1. p \in 0..D - 1
      BY <2>1 DEF RingInv
    <3>2. CASE i = buffer_count + 1
      <4>1. p = buffer_head
        BY <3>2 DEF RingInv
      <4> QED
        BY <1>1, <1>2, <2>1, <2>2, <3>2, <4>1 DEF RingInv
    <3>3. CASE i \in 1..buffer_count
      <4>1. p # buffer_head
        <5>1. buffer_count \in 0..D - 1
          BY <1>4 DEF RingInv
        <5> QED
          BY <2>1, <3>3, <5>1, Apart DEF RingInv
      <4>2. unread'[i] = unread[i]
        BY <1>1, <2>2, <3>3
      <4> QED
        BY <1>1, <1>2, <2>1, <3>1, <3>3, <4>1, <4>2 DEF RingInv
    <3> QED
      BY <2>1, <3>2, <3>3 DEF RingInv
  <2>5. unread' = [i \in 1..buffer_count' |->
                     buffer'[(buffer_tail' + i - 1) % D]]
    <3>1. unread' \in Seq(Datagrams) /\ Len(unread') = buffer_count'
      BY <1>1, <2>1, <2>2
    <3> QED
      BY <2>4, <3>1
  <2>6. RingIsQueue'
    BY <2>5 DEF RingIsQueue
  <2>7. buffer_count' \in 0..BufferDepth /\ buffer_tail' \in 0..BufferDepth - 1
    BY <1>4, <2>1 DEF RingInv
  <2> QED
    BY <1>3, <2>3, <2>6, <2>7 DEF RingInv
<1>5. CASE buffer_count = D
  <2>1. /\ buffer_tail' = (buffer_tail + 1) % D
        /\ buffer_count' = D
    BY <1>5 DEF _buffer_push, After, RingInv
  <2>2. buffer_tail' \in 0..D - 1
    BY <2>1 DEF RingInv
  <2>3. buffer_head = buffer_tail
    BY <1>5, OnceRound DEF RingInv
  <2>4. buffer_head' = (buffer_tail' + buffer_count') % D
    <3>1. buffer_head' = buffer_tail'
      BY <1>2, <2>1, <2>3
    <3> QED
      BY <2>1, <2>2, <3>1, OnceRound
  <2>5. unread' = Tail(Append(unread, datagram))
    BY <1>1, <1>5 DEF Newest, RingInv
  <2>6. /\ unread' \in Seq(Datagrams) /\ Len(unread') = D
        /\ \A i \in 1..D : unread'[i] = Append(unread, datagram)[i + 1]
    <3> DEFINE longer == Append(unread, datagram)
    <3>1. longer \in Seq(Datagrams) /\ Len(longer) = D + 1
      BY <1>1, <1>5
    <3> HIDE DEF longer
    <3>2. /\ Tail(longer) \in Seq(Datagrams) /\ Len(Tail(longer)) = D
          /\ \A i \in 1..D : Tail(longer)[i] = longer[i + 1]
      BY <3>1
    <3> QED
      BY <2>5, <3>2 DEF longer
  <2>7. \A i \in 1..D : unread'[i] = buffer'[(buffer_tail' + i - 1) % D]
    <3> SUFFICES ASSUME NEW i \in 1..D
                 PROVE  unread'[i] = buffer'[(buffer_tail' + i - 1) % D]
      OBVIOUS
    <3>1. (buffer_tail' + i - 1) % D = (buffer_tail + i) % D
      <4>1. (((buffer_tail + 1) % D) + i - 1) % D = (buffer_tail + i) % D
        BY Shift DEF RingInv
      <4> QED
        BY <2>1, <4>1
    <3>2. CASE i = D
      <4>1. (buffer_tail + i) % D = buffer_head
        BY <2>3, <3>2, OnceRound DEF RingInv
      <4>2. unread'[i] = datagram
        BY <1>1, <1>5, <2>6, <3>2
      <4> QED
        BY <1>2, <3>1, <4>1, <4>2 DEF RingInv
    <3>3. CASE i \in 1..D - 1
      <4>1. /\ (buffer_tail + i) % D # buffer_head
            /\ (buffer_tail + i) % D \in 0..D - 1
        BY <2>3, <3>3, ApartFromFirst DEF RingInv
      <4>2. unread'[i] = unread[i + 1]
        BY <1>1, <1>5, <2>6, <3>3
      <4>3. unread[i + 1] = buffer[(buffer_tail + i) % D]
        BY <1>1, <1>5, <3>3 DEF RingInv
      <4> QED
        BY <1>2, <3>1, <4>1, <4>2, <4>3 DEF RingInv
    <3> QED
      BY <3>2, <3>3
  <2>8. unread' = [i \in 1..buffer_count' |->
                     buffer'[(buffer_tail' + i - 1) % D]]
    BY <2>1, <2>6, <2>7
  <2>9. RingIsQueue'
    BY <2>8 DEF RingIsQueue
  <2>10. buffer_count' \in 0..BufferDepth
    BY <2>1
  <2> QED
    BY <1>3, <2>2, <2>4, <2>9, <2>10 DEF RingInv
<1> QED
  BY <1>4, <1>5 DEF RingInv

\* A read takes the oldest entry off.
LEMMA ReadKeepsQueue ==
  ASSUME RingInv, Read
  PROVE  RingInv'
<1> USE BufferDepthAssumption
<1>1. /\ unread \in Seq(Datagrams) /\ Len(unread) = buffer_count
      /\ \A i \in 1..buffer_count :
           unread[i] = buffer[(buffer_tail + i - 1) % BufferDepth]
  BY QueueShape
<1>2. /\ buffer_tail' = (buffer_tail + 1) % BufferDepth
      /\ buffer_count' = buffer_count - 1 /\ buffer_count' \in 0..BufferDepth
      /\ unread' = Tail(unread) /\ unread # <<>>
      /\ UNCHANGED <<buffer, buffer_head>>
  BY <1>1 DEF Read, After, RingInv
<1>3. buffer_tail' \in 0..BufferDepth - 1
  BY <1>2 DEF RingInv
<1>4. buffer_head' = (buffer_tail' + buffer_count') % BufferDepth
  <2>1. buffer_count \in 1..BufferDepth
    BY <1>1, <1>2 DEF RingInv
  <2>2. (((buffer_tail + 1) % BufferDepth) + buffer_count - 1) % BufferDepth
          = (buffer_tail + buffer_count) % BufferDepth
    BY <2>1, Shift DEF RingInv
  <2> QED
    BY <1>2, <1>3, <2>1, <2>2 DEF RingInv
<1>5. Len(unread') = buffer_count' /\ unread' \in Seq(Datagrams)
  BY <1>1, <1>2
<1>6. \A i \in 1..buffer_count' :
        unread'[i] = buffer'[(buffer_tail' + i - 1) % BufferDepth]
  <2> SUFFICES ASSUME NEW i \in 1..buffer_count'
               PROVE  unread'[i] = buffer'[(buffer_tail' + i - 1) % BufferDepth]
    OBVIOUS
  <2>1. (buffer_tail' + i - 1) % BufferDepth = (buffer_tail + i) % BufferDepth
    <3>1. i \in 1..BufferDepth
      BY <1>2
    <3>2. (((buffer_tail + 1) % BufferDepth) + i - 1) % BufferDepth
            = (buffer_tail + i) % BufferDepth
      BY <3>1, Shift DEF RingInv
    <3> QED
      BY <1>2, <3>2
  <2>2. unread'[i] = unread[i + 1] /\ i + 1 \in 1..buffer_count
    BY <1>1, <1>2 DEF RingInv
  <2> QED
    BY <1>1, <1>2, <2>1, <2>2 DEF RingInv
<1>7. unread' = [i \in 1..buffer_count' |->
                   buffer'[(buffer_tail' + i - 1) % BufferDepth]]
  BY <1>5, <1>6
<1> QED
  BY <1>2, <1>3, <1>4, <1>7 DEF RingInv, RingIsQueue

LEMMA RingInvStep ==
  ASSUME RingInv, TagInv, [Next]_vars
  PROVE  RingInv'
<1>1. UNCHANGED ring => RingInv'
  BY DEF RingInv, RingIsQueue, ring
<1>2. ASSUME NEW replies \in Seq(Datagrams), _report_channel(replies)
      PROVE  RingInv'
  <2>1. replies # <<>> => replies[1] \in Datagrams
    OBVIOUS
  <2> QED
    BY <1>1, <1>2, <2>1, PushKeepsQueue DEF _report_channel
<1>3. ch1 \in Seq(Datagrams) /\ ch2 \in Seq(Datagrams)
  BY DEF TagInv, Datagrams
<1>4. CASE ReportCh1 \/ ReportCh2
  BY <1>2, <1>3, <1>4 DEF ReportCh1, ReportCh2
<1>5. CASE Read
  BY <1>5, ReadKeepsQueue
<1>6. CASE \/ UNCHANGED vars \/ PacketEnds \/ CutoutBegins \/ OneShotIsr
           \/ Answer \/ RunScheduler \/ RunRailcom \/ Drain \/ DrainEnds
           \/ CancelStopsTimer \/ CancelRestores
           \/ (\E on \in BOOLEAN : EncoderStartOrStop(on)) \/ Cancel
  <2>1. UNCHANGED ring
    BY <1>6 DEF vars, PacketEnds, CutoutBegins, OneShotIsr, Answer,
          RunScheduler, RunRailcom, Drain, DrainEnds, CancelStopsTimer,
          CancelRestores, EncoderStartOrStop, Cancel
  <2> QED
    BY <1>1, <2>1
<1> QED
  BY <1>4, <1>5, <1>6 DEF Next, MainLoop, Application

\* The ring buffer holds the newest unread datagrams in order, for any depth
\* (_buffer_push and DccRailcomCommandStation_read).
THEOREM RailcomRingIsQueue == Spec => []RingIsQueue
<1>1. Init => RingInv /\ TagInv /\ BridgeInv
  <2>1. Init => RingInv
    BY BufferDepthAssumption
       DEF Init, RingInv, RingIsQueue, Datagrams
  <2> QED
    BY <2>1 DEF Init, TagInv, AllFrom, RepliesTagged, Draining, InCutout,
       BridgeInv, BridgeFollowsState, Phases, Channels, Cancelling
<1>2. RingInv => RingIsQueue
  BY DEF RingInv
<1> QED
  BY <1>1, <1>2, RingInvStep, TagInvStep, BridgeInvStep, PTL DEF Spec
-----------------------------------------------------------------------------
(***************************************************************************)
(* Type correctness.  The ring's part is RingInv; the rest does not touch  *)
(* the ring.                                                               *)
(***************************************************************************)
RestTypes ==
  /\ powered \in BOOLEAN /\ sending \in BOOLEAN /\ arm_pending \in BOOLEAN
  /\ {loaded_address, completed_address, answering, cutout_address}
       \subseteq Addresses \cup {NoAddress}
  /\ timer \in BOOLEAN /\ tristated \in BOOLEAN /\ uart_rx \in BOOLEAN
  /\ heard \subseteq Channels
  /\ cutout_pending \in BOOLEAN
  /\ Len(ch1) \in Nat /\ Len(ch2) \in Nat
  /\ Len(ch1) + Len(ch2) <= MaxReads
  /\ late \in BOOLEAN /\ cancelled \in BOOLEAN

\* An empty buffer takes part in no count.
LEMMA EmptyBuffer ==
  ASSUME NEW seq, seq = <<>>
  PROVE  Len(seq) = 0
OBVIOUS

LEMMA RestTypesStep ==
  ASSUME RestTypes, TagInv, [Next]_vars
  PROVE  RestTypes'
<1> USE DEF RestTypes
<1>1. CASE UNCHANGED vars
  BY <1>1 DEF vars, cutVars, encVars, uartVars, tag, drain, past
<1>2. CASE PacketEnds
  BY <1>2 DEF PacketEnds, cutVars, uartVars, tag, drain, past
<1>3. CASE CutoutBegins
  BY <1>3 DEF CutoutBegins, uartVars, tag, drain, past
<1>4. CASE OneShotIsr
  <2> USE <1>4 DEF OneShotIsr, encVars, drain
  <2>1. CASE BridgeOff
    BY <2>1 DEF BridgeOff, tag, Draining
  <2>2. CASE WindowOpens("SETTLING", "CH1")
    BY <2>2 DEF WindowOpens, uartVars, tag, past
  <2>3. CASE WindowCloses
    BY <2>3 DEF WindowCloses, uartVars, tag, past
  <2>4. CASE WindowOpens("GAP", "CH2")
    BY <2>4 DEF WindowOpens, uartVars, tag, past
  <2>5. CASE CutoutComplete
    BY <2>5 DEF CutoutComplete, uartVars, past
  <2> QED
    BY <2>1, <2>2, <2>3, <2>4, <2>5
<1>5. CASE Answer
  BY <1>5 DEF Answer, encVars, cutVars, tag, drain, past
<1>6. CASE RunScheduler
  BY <1>6 DEF RunScheduler, cutVars, uartVars, tag, drain, past
<1>7. CASE RunRailcom
  <2>1. Len(ch1') = 0 /\ Len(ch2') = 0
    BY <1>7, EmptyBuffer DEF RunRailcom
  <2>2. /\ cutout_pending' = FALSE
        /\ UNCHANGED <<encVars, completed_address, cutVars, uartVars,
                       cutout_address, past>>
    BY <1>7 DEF RunRailcom
  <2> QED
    <3>1. /\ Len(ch1') \in Nat /\ Len(ch2') \in Nat
          /\ Len(ch1') + Len(ch2') <= MaxReads
      BY <2>1, MaxReadsAssumption
    <3> QED
      BY <2>2, <3>1 DEF encVars, cutVars, uartVars, past
<1>8. CASE Drain
  <2>1. /\ uart # <<>> /\ Reads < MaxReads
        /\ UNCHANGED <<encVars, completed_address, cutVars, heard, tag, past>>
    BY <1>8 DEF Drain
  <2>2. Head(uart) \in Reply
    BY <2>1 DEF TagInv
  <2>3. Head(uart).from \in Addresses \cup {NoAddress}
    BY <2>2 DEF Reply
  <2>4. \/ Len(ch1') = Len(ch1) + 1 /\ ch2' = ch2
        \/ Len(ch2') = Len(ch2) + 1 /\ ch1' = ch1
    BY <1>8, <2>3 DEF Drain, TagInv
  <2> QED
    BY <2>1, <2>4, MaxReadsAssumption DEF Reads, encVars, cutVars, tag, past
<1>9. CASE DrainEnds
  BY <1>9 DEF DrainEnds, encVars, cutVars, uartVars, tag, drain, past
<1>10. CASE ReportCh1
  <2>1. Len(ch1') = 0
    BY <1>10, EmptyBuffer DEF ReportCh1
  <2> QED
    BY <1>10, <2>1, MaxReadsAssumption
       DEF ReportCh1, encVars, cutVars, uartVars, tag, past
<1>11. CASE ReportCh2
  <2>1. Len(ch2') = 0
    BY <1>11, EmptyBuffer DEF ReportCh2
  <2> QED
    BY <1>11, <2>1, MaxReadsAssumption
       DEF ReportCh2, encVars, cutVars, uartVars, tag, past
<1>12. CASE Application
  <2>1. ASSUME NEW on \in BOOLEAN, EncoderStartOrStop(on)
        PROVE  RestTypes'
    BY <2>1 DEF EncoderStartOrStop, encVars, cutVars, uartVars, tag, drain, past
  <2>2. CASE Read
    BY <2>2 DEF Read, encVars, cutVars, uartVars, tag, drain, past
  <2>3. CASE Cancel
    BY <2>3 DEF Cancel, encVars, cutVars, uartVars, tag, drain, past
  <2> QED
    BY <1>12, <2>1, <2>2, <2>3 DEF Application
<1>13. CASE CancelStopsTimer
  BY <1>13 DEF CancelStopsTimer, encVars, uartVars, tag, drain, past
<1>14. CASE CancelRestores
  BY <1>14 DEF CancelRestores, encVars, uartVars, tag, drain
<1> QED
  BY <1>1, <1>2, <1>3, <1>4, <1>5, <1>6, <1>7, <1>8, <1>9, <1>10, <1>11, <1>12,
     <1>13, <1>14 DEF Next, MainLoop

\* The ring's indexes, the drain's buffers and every flag keep their range, for
\* any depth and read limit (dcc_railcom_command_station.c).
THEOREM RailcomTypes == Spec => []TypeOK
<1>1. Init => RestTypes /\ RingInv /\ TagInv /\ BridgeInv
  <2>1. Init => RingInv
    BY BufferDepthAssumption DEF Init, RingInv, RingIsQueue, Datagrams
  <2>2. Init => RestTypes
    <3>1. Init => Len(ch1) = 0 /\ Len(ch2) = 0
      BY EmptyBuffer DEF Init
    <3>2. Init => /\ Len(ch1) \in Nat /\ Len(ch2) \in Nat
                  /\ Len(ch1) + Len(ch2) <= MaxReads
      BY <3>1, MaxReadsAssumption
    <3> QED
      BY <3>2 DEF Init, RestTypes
  <2> QED
    BY <2>1, <2>2 DEF Init, TagInv, AllFrom, RepliesTagged, Draining, InCutout,
       BridgeInv, BridgeFollowsState, Phases, Channels, Cancelling
<1>2. RestTypes /\ RingInv /\ TagInv /\ BridgeInv => TypeOK
  BY MaxReadsAssumption
     DEF RestTypes, RingInv, Datagrams, TagInv, BridgeInv, TypeOK
<1> QED
  BY <1>1, <1>2, RestTypesStep, RingInvStep, TagInvStep, BridgeInvStep, PTL
     DEF Spec
=============================================================================
