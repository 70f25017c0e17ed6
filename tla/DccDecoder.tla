---------------------------- MODULE DccDecoder -----------------------------
(***************************************************************************)
(* The decoder between the rails and the application.                      *)
(*                                                                         *)
(* The edge interrupt follows the bytes of a packet: the RailCom           *)
(* transmitter (dcc_railcom_decoder.c) prepares its answer before the last *)
(* byte is in and sends it when the packet ends; the packet then goes into *)
(* the queue the main loop empties.  DccConfig_run handles the packets     *)
(* that wait (DccPacketDecoder), then polls the packet time-out            *)
(* (dcc_failsafe.c), then the acknowledgement pulse (dcc_config.c).  The   *)
(* application writes CVs between two runs.                                *)
(*                                                                         *)
(* A bit error aborts a packet at any byte.  The transmitter holds the     *)
(* decoder's address as two variables, stored one after the other by the   *)
(* main loop and read by the interrupt.  Times are elapsed times in ticks, *)
(* kept up to Forever; the code takes them from a 32-bit microsecond       *)
(* counter, so they are exact as long as they are shorter than its cycle.  *)
(***************************************************************************)
EXTENDS DccPacketDecoder, Sequences

CONSTANTS
  Packets,           \* packets on the track, right and spoilt ones
  ApplicationWrites, \* the <<CV, value>> the application may write
  Depth,             \* USER_DEFINED_DCC_DECODER_PACKET_QUEUE_DEPTH
  TimeoutUnit,       \* DCC_FAILSAFE_CV11_UNIT_US in ticks
  AckTicks,          \* DCC_ACK_PULSE_DURATION_US in ticks
  Forever,           \* bound: no elapsed time is counted beyond it
  MaxPackets,        \* bound: packets the track brings
  NoPacket

ASSUME DepthAssumption == Depth \in Nat /\ Depth >= 2
ASSUME NoPacketAssumption == NoPacket \notin Packets
ASSUME TimesAssumption == TimeoutUnit \in Nat /\ AckTicks \in Nat /\ Forever \in Nat
\* A value is a byte, and only the bytes of a short address can be read as a
\* service-mode instruction.
ASSUME PacketsAssumption ==
  \A p \in Packets :
    /\ p.service # NoService => p.type = "SHORT"
    /\ \A i \in {p.instruction, p.service} : Writes(i) => i.value \in 0..255
ASSUME WritesAssumption == \A w \in ApplicationWrites : w[2] \in 0..255

VARIABLES
  receiving,        \* the packet coming in, or NoPacket
  sized,            \* all its bytes but the last are in
  pending,          \* the packet an answer is armed for, or NoPacket
  received,         \* history: packets that have begun
  packet_queue, packet_queue_head, packet_queue_tail,
  decoder_address, decoder_address_type,    \* what the transmitter holds
  pushing,          \* the main loop is between its two stores
  at,               \* where DccConfig_run has got to
  active, since_packet,   \* fail-safe: tripped; ticks since _last_packet_usec
  ack, since_ack,   \* the acknowledgement pulse and its age
  heard,            \* history: ticks since a packet that re-arms was queued
  missed            \* history: one was queued since the queue was last empty

linkVars  == <<receiving, sized, pending, received>>
queueVars == <<packet_queue, packet_queue_head, packet_queue_tail>>
txVars    == <<decoder_address, decoder_address_type, pushing>>
timeVars  == <<active, since_packet, ack, since_ack>>
past      == <<heard, missed>>
vars      == <<packetVars, linkVars, queueVars, txVars, at, timeVars, past>>

Init ==
  /\ PacketInit
  /\ receiving = NoPacket /\ sized = FALSE /\ pending = NoPacket /\ received = 0
  /\ packet_queue = [i \in 0..Depth - 1 |-> NoPacket]
  /\ packet_queue_head = 0 /\ packet_queue_tail = 0
  /\ IF IsAccessory(cache.type)
     THEN decoder_address = 0 /\ decoder_address_type = "SHORT"
     ELSE decoder_address = cache.address /\ decoder_address_type = cache.type
  /\ pushing = FALSE /\ at = "IDLE"
  /\ active = FALSE /\ since_packet = 0 /\ ack = FALSE /\ since_ack = 0
  /\ heard = 0 /\ missed = FALSE
-----------------------------------------------------------------------------
(***************************************************************************)
(* The edge interrupt.                                                     *)
(***************************************************************************)
\* Mutant: what was armed for an earlier packet stays armed.
FirstByte_StaysArmed ==
  /\ receiving = NoPacket /\ received < MaxPackets
  /\ receiving' \in Packets
  /\ received' = received + 1
  /\ UNCHANGED <<pending, sized, packetVars, queueVars, txVars, at, timeVars, past>>

\* The first byte: whatever was armed for an earlier packet is dropped.
FirstByte ==
  /\ receiving = NoPacket /\ received < MaxPackets
  /\ receiving' \in Packets
  /\ received' = received + 1
  /\ pending' = NoPacket
  /\ UNCHANGED <<sized, packetVars, queueVars, txVars, at, timeVars, past>>

\* The recognizer knows how long packets to a multi-function address are.
Recognized(p) ==
  p.type = decoder_address_type /\ p.address = decoder_address

\* The last byte before the error detection byte: _fill_adr and _fill_ch2.
LastDataByte ==
  /\ receiving # NoPacket /\ ~sized
  /\ sized' = TRUE
  /\ pending' = IF pending = NoPacket /\ Recognized(receiving) THEN receiving
                                                               ELSE pending
  /\ UNCHANGED <<receiving, received, packetVars, queueVars, txVars, at, timeVars,
                 past>>

BitError ==
  /\ receiving # NoPacket
  /\ receiving' = NoPacket /\ sized' = FALSE
  /\ UNCHANGED <<pending, received, packetVars, queueVars, txVars, at, timeVars,
                 past>>

\* DccRailcomDecoder_transmit: the armed answer goes out if the packet's last
\* byte is right, with interrupts masked, and is armed no more.
Transmit  == pending' = NoPacket
Answers   == pending # NoPacket /\ receiving.valid

NextSlot(i) == (i + 1) % Depth

\* Mutant: the slot is never checked.
QueueFull_Never == FALSE

QueueFull == NextSlot(packet_queue_tail) = packet_queue_head

\* DccPacketDecoder_enqueue: a full queue drops the newest packet.
Enqueue(p) ==
  /\ IF QueueFull
     THEN UNCHANGED queueVars
     ELSE /\ packet_queue' = [packet_queue EXCEPT ![packet_queue_tail] = p]
          /\ packet_queue_tail' = NextSlot(packet_queue_tail)
          /\ UNCHANGED packet_queue_head
  /\ IF ~QueueFull /\ Rearms(p) /\ p.service = NoService
     THEN heard' = 0 /\ missed' = TRUE
     ELSE UNCHANGED past

\* _on_packet_received_dispatch.
PacketEnds ==
  /\ receiving # NoPacket /\ sized
  /\ Transmit /\ Enqueue(receiving)
  /\ receiving' = NoPacket /\ sized' = FALSE
  /\ UNCHANGED <<received, packetVars, txVars, at, timeVars>>

EdgeIsr == FirstByte \/ LastDataByte \/ BitError \/ PacketEnds
-----------------------------------------------------------------------------
(***************************************************************************)
(* The main loop.                                                          *)
(***************************************************************************)
\* DccRailcomDecoder_set_address, its first store; StoreType is the second.
PushAddress(pushes) ==
  /\ pushing' = pushes
  /\ decoder_address' = IF pushes THEN cache'.address ELSE decoder_address
  /\ UNCHANGED decoder_address_type

StoreType ==
  /\ pushing
  /\ decoder_address_type' = cache.type
  /\ pushing' = FALSE
  /\ UNCHANGED <<decoder_address, packetVars, linkVars, queueVars, at, timeVars,
                 past>>

\* A packet queued under another address counts no more.
ForgetIfMoved == heard' = IF cache' = cache THEN heard ELSE Forever

\* Mutant: the packet is stamped only when it ends a trip.
NotePacket_OnlyTripped(p) ==
  IF Rearms(p) /\ active THEN active' = FALSE /\ since_packet' = 0
                         ELSE UNCHANGED <<active, since_packet>>

\* DccFailsafe_note_valid_packet.
NotePacket(p) ==
  IF Rearms(p) THEN active' = FALSE /\ since_packet' = 0
               ELSE UNCHANGED <<active, since_packet>>

\* A start while the pulse is active is ignored.
AckPulse(starts) ==
  IF starts /\ ~ack THEN ack' = TRUE /\ since_ack' = 0
                    ELSE UNCHANGED <<ack, since_ack>>

RunStarts ==
  /\ at = "IDLE" /\ ~pushing
  /\ at' = "PACKETS"
  /\ UNCHANGED <<packetVars, linkVars, queueVars, txVars, timeVars, past>>

HandlePacket ==
  /\ at = "PACKETS" /\ packet_queue_head # packet_queue_tail
  /\ LET p == packet_queue[packet_queue_head]
     IN /\ Process(p)
        /\ PushAddress(PushesBy(p))
        /\ NotePacket(p)
        /\ AckPulse(p.valid /\ IsService(p) /\ Acknowledges(p.service))
  /\ ForgetIfMoved
  /\ at' = "HANDLED"
  /\ UNCHANGED <<linkVars, queueVars, missed>>

ReleaseSlot ==
  /\ at = "HANDLED" /\ ~pushing
  /\ packet_queue_head' = NextSlot(packet_queue_head)
  /\ at' = "PACKETS"
  /\ UNCHANGED <<packet_queue, packet_queue_tail, packetVars, linkVars, txVars,
                 timeVars, past>>

QueueDrained ==
  /\ at = "PACKETS" /\ packet_queue_head = packet_queue_tail
  /\ missed' = FALSE
  /\ at' = "FAILSAFE"
  /\ UNCHANGED <<packetVars, linkVars, queueVars, txVars, timeVars, heard>>

Timeout  == cvs[11] * TimeoutUnit
TimesOut == ~active /\ cvs[11] # 0 /\ since_packet >= Timeout

RunFailsafe ==
  /\ at = "FAILSAFE"
  /\ active' = (active \/ TimesOut)
  /\ at' = "ACK"
  /\ UNCHANGED <<packetVars, linkVars, queueVars, txVars, since_packet, ack,
                 since_ack, past>>

RunAckPulse ==
  /\ at = "ACK"
  /\ ack' = (ack /\ since_ack < AckTicks)
  /\ since_ack' = IF ack' THEN since_ack ELSE 0
  /\ at' = "IDLE"
  /\ UNCHANGED <<packetVars, linkVars, queueVars, txVars, active, since_packet,
                 past>>

\* _decoder_cv_application_write.
ApplicationWrite ==
  /\ at = "IDLE" /\ ~pushing
  /\ \E w \in ApplicationWrites :
       /\ WriteCv(w[1], w[2], AddressCvs)
       /\ PushAddress(PushesAddress(w[1], w[2], AddressCvs))
  /\ ForgetIfMoved
  /\ UNCHANGED <<reset_count, service_mode_active, linkVars, queueVars, at,
                 timeVars, missed>>

MainLoop ==
  RunStarts \/ HandlePacket \/ StoreType \/ ReleaseSlot \/ QueueDrained
    \/ RunFailsafe \/ RunAckPulse \/ ApplicationWrite

Later(time) == IF time < Forever THEN time + 1 ELSE time

Tick ==
  /\ since_packet' = Later(since_packet)
  /\ since_ack' = IF ack THEN Later(since_ack) ELSE since_ack
  /\ heard' = Later(heard)
  /\ UNCHANGED <<packetVars, linkVars, queueVars, txVars, at, active, ack, missed>>

Next == EdgeIsr \/ MainLoop \/ Tick

Spec == Init /\ [][Next]_vars
-----------------------------------------------------------------------------
TypeOK ==
  /\ receiving \in Packets \cup {NoPacket} /\ pending \in Packets \cup {NoPacket}
  /\ sized \in BOOLEAN /\ pushing \in BOOLEAN /\ active \in BOOLEAN
  /\ ack \in BOOLEAN /\ missed \in BOOLEAN
  /\ packet_queue \in [0..Depth - 1 -> Packets \cup {NoPacket}]
  /\ packet_queue_head \in 0..Depth - 1 /\ packet_queue_tail \in 0..Depth - 1
  /\ at \in {"IDLE", "PACKETS", "HANDLED", "FAILSAFE", "ACK"}

\* The address the decoder listens to is the one its CVs spell out, after every
\* packet and every write of the application: no way of writing a CV leaves the
\* cache behind, factory reset, consist control and a decoder turned into an
\* accessory decoder and back included.
CacheFollowsCvs == cache = Resolve(cvs)

\* The packets waiting, oldest first.
InQueue == (packet_queue_tail - packet_queue_head + Depth) % Depth
Waiting ==
  [i \in 1..InQueue |-> packet_queue[(packet_queue_head + i - 1) % Depth]]

Handling == IF at = "HANDLED" THEN packet_queue[packet_queue_head] ELSE NoPacket

Queue == INSTANCE DccPacketQueue
           WITH waiting <- Waiting, handling <- Handling, Capacity <- Depth - 1

\* The ring the interrupt fills while the main loop empties it is a queue:
\* nothing is lost but a packet that finds no room, nothing is handled twice or
\* out of order, and a packet is not overwritten while it is being handled.
QueueIsFifo == Queue!Spec

\* The fail-safe stops the locomotive only after silence: when it trips, no
\* packet that re-arms it was received and queued within the time-out, except
\* one received after this run of the main loop had emptied the queue.
NoTripWhileHeard ==
  [][active' /\ ~active => missed \/ heard >= Timeout]_vars

\* An answer is sent into the cutout of the packet it was prepared for: not
\* into that of a later packet when a bit error cut the first one short.
RepliesAnswer == receiving # NoPacket /\ sized /\ Answers => pending = receiving

\* The transmitter answers to the address the decoder listens to: its address
\* is updated whenever the cache is (DeveloperGuide_Decoder.md, section 9).
ReplyAddressCurrent ==
  ~pushing => decoder_address = cache.address /\ decoder_address_type = cache.type
=============================================================================
