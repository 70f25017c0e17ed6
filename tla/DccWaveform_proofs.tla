------------------------- MODULE DccWaveform_proofs -------------------------
(***************************************************************************)
(* What both ends of the rails are for, in a RailCom installation with any *)
(* packets, any cutout the preambles outlast, any size of preamble counter *)
(* and any number of lost edges: a decoder receives exactly the bytes of   *)
(* each packet, with the packet's last edge.                               *)
(*                                                                         *)
(* The invariant follows the decoder through the encoder's ticks.  While a *)
(* packet is on the rails (Frame) it says which bit the decoder's byte and *)
(* its waiting half stand for; before one (Leading), how many of the edges *)
(* sent since the cutout the decoder has counted, which the preamble must  *)
(* make up for (Visible); in between, that the cutout hides the edges      *)
(* (Hidden), or that the encoder began with half a zero (OddBit).          *)
(***************************************************************************)
EXTENDS DccWaveform, TLAPS

\* The installation: bytes of eight bits, a cutout after every packet that both
\* ends were built for, and packets that the decoder's buffer holds, with a
\* preamble of which the cutout leaves what the decoder must count.
Wired ==
  /\ ByteBits = 8 /\ CutoutWired /\ RailcomBuild /\ CutoutTicks # 0
  /\ PreambleMin >= 10
  /\ \A p \in Packets :
       /\ Len(p.data) \in 2..MaxBytes
       /\ 2 * p.preamble_bits + 1 >= 2 * PreambleMin + CutoutTicks
-----------------------------------------------------------------------------
(***************************************************************************)
(* Each end by itself.                                                     *)
(***************************************************************************)
NewBit == half_bit = 0 /\ toggle_next

\* The tick after Start, which resets neither the tick counter nor the bit.
FirstTick == state = "IDLE" /\ NewBit /\ ~railcom_cutout_arm_pending

\* Every other one: at the first tick of a half-bit the output toggles, at the
\* second one of a zero's it does not.
Regular == \/ tick_counter = 0 /\ toggle_next
           \/ ~current_bit_is_one /\ tick_counter = 1 /\ ~toggle_next

EncShape ==
  /\ copying => state = "IDLE" /\ ~packet_loaded
  /\ state # "IDLE" => running /\ packet_loaded
  /\ packet_loaded => active_packet \in Packets
  /\ ~running => ~toggle_next /\ ~railcom_cutout_arm_pending
  /\ railcom_cutout_arm_pending => state = "IDLE" /\ NewBit /\ current_bit_is_one
  /\ current_bit_is_one => tick_counter = 0
  /\ running => Regular \/ FirstTick
  /\ state = "PREAMBLE" => /\ current_bit_is_one
                           /\ preamble_count \in 1..active_packet.preamble_bits
  /\ state = "START_BIT" => /\ ~current_bit_is_one
                            /\ byte_index < Len(active_packet.data)
  /\ state = "DATA" => /\ (current_bit_is_one <=> DataBit(byte_index, bit_index))
                       /\ byte_index < Len(active_packet.data)
  /\ state = "END_BIT" => /\ current_bit_is_one
                          /\ byte_index = Len(active_packet.data)

DecShape ==
  /\ _first_edge => /\ _state = "SEEKING_PREAMBLE" /\ _preamble_count = 0
                    /\ _first_half_type = "NONE"
  /\ _state = "ACCUMULATING" => _bit_count <= 7 /\ Len(_packet_buffer) < MaxBytes

Shape == TypeOK /\ EncShape /\ DecShape
-----------------------------------------------------------------------------
(***************************************************************************)
(* The decoder in a packet.                                                *)
(***************************************************************************)
Data(i)   == active_packet.data[i]
Sent(k)   == SubSeq(active_packet.data, 1, k)
Half(one) == IF one THEN "SHORT" ELSE "LONG"
Seeking   == _state = "SEEKING_PREAMBLE"

\* What spoilt will be after the next tick, when no edge is lost in it.
Owed == IF cutout /\ spoilt > 0 THEN spoilt - 1 ELSE spoilt

\* It has byte i's bits above bit b; it has i bytes; it has missed the packet,
\* and takes at most k bits of it for a preamble.
Takes(i, b) == /\ _state = "ACCUMULATING" /\ _bit_count = 7 - b
               /\ _packet_buffer = Sent(i)
               /\ _current_byte = Data(i + 1) \div 2^(b + 1)
Splits(i)   == _state = "SEPARATOR" /\ _packet_buffer = Sent(i)
Missed(k)   == Seeking /\ _preamble_count <= k /\ (wrapped \/ spoilt = 1)

BeforeStart(i) == \/ /\ i = 0 /\ Seeking
                     /\ wrapped \/ spoilt = 1 \/ _preamble_count >= PreambleMin
                  \/ i > 0 /\ (Splits(i) \/ Missed(8))
BeforeData(i, b) == Takes(i, b) \/ Missed(7 - b)

\* The ticks since the last edge.
OnBeat == since = IF ~toggle_next THEN 0
                  ELSE IF half_bit = 1 THEN (IF current_bit_is_one THEN 0 ELSE 1)
                  ELSE (IF _first_half_type = "LONG" THEN 1 ELSE 0)

FirstStart == state = "START_BIT" /\ byte_index = 0
InFrame    == state \in {"START_BIT", "DATA", "END_BIT"} /\ ~(FirstStart /\ NewBit)

\* A new bit's first edge is the second half of the bit before it.
LastHalf ==
  \/ /\ state \in {"START_BIT", "END_BIT"}
     /\ BeforeData(byte_index - 1, 0)
     /\ _first_half_type = Half(DataBit(byte_index - 1, 0))
  \/ /\ state = "DATA" /\ bit_index = 7
     /\ BeforeStart(byte_index) /\ _first_half_type = "LONG"
  \/ /\ state = "DATA" /\ bit_index < 7
     /\ BeforeData(byte_index, bit_index + 1)
     /\ _first_half_type = Half(DataBit(byte_index, bit_index + 1))

Position ==
  \/ state = "START_BIT" /\ BeforeStart(byte_index)
  \/ state = "DATA" /\ BeforeData(byte_index, bit_index)
  \/ state = "END_BIT" /\ (Splits(byte_index) \/ Missed(8))

ThisBit ==
  /\ Position
  /\ IF half_bit = 1 /\ ~toggle_next
     THEN _first_half_type = "LONG"
     ELSE \/ _first_half_type = "NONE"
          \/ FirstStart /\ _first_half_type = "SHORT"

Frame == /\ ~_first_edge /\ dark = 0 /\ OnBeat
         /\ NewBit => LastHalf
         /\ ~NewBit => ThisBit

\* The end bit is out but for its last edge.
Ending ==
  /\ ~_first_edge /\ dark = 0 /\ since = 0 /\ received = <<>>
  /\ _first_half_type = "SHORT"
  /\ \/ _state = "SEPARATOR" /\ _packet_buffer = finished /\ Len(finished) >= 2
     \/ Missed(8)
-----------------------------------------------------------------------------
(***************************************************************************)
(* The decoder before a packet.                                            *)
(***************************************************************************)
JustStarted == FirstTick /\ since >= Silence /\ dark = 0 /\ ~cutout

Leading == \/ state \in {"IDLE", "PREAMBLE"} /\ ~railcom_cutout_arm_pending
           \/ FirstStart /\ NewBit

\* Edges the encoder must have sent since the cutout began, and those a decoder
\* that has counted this far has seen, the cutout's included.
Lead == IF state = "PREAMBLE"
        THEN 2 * (active_packet.preamble_bits - preamble_count) + half_bit + 1
        ELSE IF state = "START_BIT" THEN 2 * active_packet.preamble_bits + 1
        ELSE 1 - half_bit

Done == IF Seeking THEN _preamble_count
        ELSE IF _state = "ACCUMULATING" THEN _bit_count ELSE 8
Seen == CutoutTicks + 1 + 2 * Done + (IF _first_half_type = "SHORT" THEN 1 ELSE 0)

Hidden == /\ CutoutTicks - dark >= Lead
          /\ state = "IDLE" => current_bit_is_one
          /\ Owed = 0 => /\ Seeking /\ _first_half_type = "NONE"
                         /\ _preamble_count <= 9

Visible == /\ dark = 0 /\ since = 0
           /\ state = "IDLE" => current_bit_is_one
           /\ Seeking \/ Seen >= Lead
           /\ Owed = 0 => /\ ~_first_edge /\ Seeking
                          /\ _first_half_type = "LONG" => _preamble_count <= 9
                          /\ wrapped \/ Seen >= Lead

OddBit == /\ dark = 0 /\ ~_first_edge /\ Seeking /\ _preamble_count = 0
          /\ Lead <= 1
          /\ \/ /\ ~current_bit_is_one /\ state = "IDLE" /\ ~NewBit
                /\ (half_bit = 1 /\ ~toggle_next) \/ _first_half_type = "NONE"
             \/ current_bit_is_one /\ NewBit

Follows == \/ JustStarted
           \/ InFrame /\ Frame
           \/ railcom_cutout_arm_pending /\ Ending
           \/ Leading /\ (Hidden \/ Visible \/ OddBit)

DarkOK ==
  /\ running /\ dark > 0 => /\ state \in {"IDLE", "PREAMBLE"}
                            /\ ~railcom_cutout_arm_pending
                            /\ CutoutTicks - dark >= Lead
  /\ cutout => /\ running /\ state = "IDLE" /\ half_bit = 1
               /\ current_bit_is_one /\ dark = CutoutTicks

\* While two packets may be lost nothing is known of the decoder.
WaveInv == /\ DarkOK
           /\ running /\ Owed # 2 => Follows
           /\ FramesAreThePackets /\ CutoutOnLastEdge
-----------------------------------------------------------------------------
(***************************************************************************)
(* The invariant of each end, whatever the installation.                   *)
(***************************************************************************)
USE DEF States

\* What a packet is (the caller's DccPacket, dcc_types.h).
LEMMA PacketFacts ==
  ASSUME NEW p \in Packets
  PROVE  /\ p \in Packet
         /\ p.data \in Seq(Nat) /\ Len(p.data) \in Nat \ {0}
         /\ p.preamble_bits \in Nat \ {0}
         /\ \A k \in 1..Len(p.data) : p.data[k] \in Nat /\ p.data[k] < 2^ByteBits
BY PacketsAssumption DEF Packet

LEMMA ActiveFacts ==
  ASSUME EncTypeOK
  PROVE  active_packet.data \in Seq(Nat) /\ active_packet.preamble_bits \in Nat
<1>1. CASE active_packet \in Packets
  BY <1>1, PacketFacts
<1>2. CASE active_packet = EmptyPacket
  BY <1>2 DEF EmptyPacket
<1> QED
  BY <1>1, <1>2 DEF EncTypeOK

\* What the encoder's variables say of one another: the buffer is not written
\* while it is read, the counters are within the packet and the output toggles
\* at the first tick of every half-bit (DccBitEncoder_tick_isr).
LEMMA EncTickTypes ==
  ASSUME EncTypeOK, EncShape, Tick
  PROVE  EncTypeOK'
<1>0. /\ active_packet.data \in Seq(Nat) /\ active_packet.preamble_bits \in Nat
      /\ state = "PREAMBLE" => preamble_count >= 1
  BY ActiveFacts DEF EncShape, EncTypeOK
<1> USE DEF EncTypeOK, Tick, TickStopped, TickWithinHalf, TickHalfBit, TickIdle,
            TickPickUp, TickPreamble, TickStartBit, TickData, TickEndBit,
            TickFullBit, KeepsPacket, clock, position, buffer
<1>1. state' \in States /\ packet_loaded' \in BOOLEAN
  OBVIOUS
<1>2. running' \in BOOLEAN /\ copying' \in BOOLEAN
  OBVIOUS
<1>3. half_bit' \in 0..1
  OBVIOUS
<1>4. tick_counter' \in 0..1
  BY DEF HalfEnds, HalfTicks
<1>5. current_bit_is_one' \in BOOLEAN
  BY DEF DataBit
<1>6. toggle_next' \in BOOLEAN
  OBVIOUS
<1>7. railcom_cutout_arm_pending' \in BOOLEAN
  BY CutoutWiredAssumption
<1>8. preamble_count' \in Nat
  BY <1>0
<1>9. byte_index' \in Nat
  OBVIOUS
<1>10. bit_index' \in 0..ByteBits - 1
  BY ByteBitsAssumption
<1>11. active_packet' \in Packets \cup {EmptyPacket}
  OBVIOUS
<1> QED
  BY <1>1, <1>2, <1>3, <1>4, <1>5, <1>6, <1>7, <1>8, <1>9, <1>10, <1>11

\* ... and with one another.
LEMMA EncTickShape ==
  ASSUME EncTypeOK, EncShape, Tick
  PROVE  EncShape'
<1>0. /\ active_packet.data \in Seq(Nat) /\ active_packet.preamble_bits \in Nat
      /\ active_packet \in Packets => active_packet.preamble_bits > 0
                                      /\ Len(active_packet.data) > 0
  BY ActiveFacts, PacketFacts
<1>h. HalfEnds <=> current_bit_is_one \/ tick_counter = 1
  BY DEF HalfEnds, HalfTicks, EncTypeOK, EncShape
<1> USE DEF EncTypeOK, EncShape, NewBit, Tick, TickStopped, TickWithinHalf,
            TickHalfBit, TickIdle, TickPickUp, TickPreamble, TickStartBit,
            TickData, TickEndBit, TickFullBit, KeepsPacket, BitEnds, clock,
            position, buffer
<1>1. copying' => state' = "IDLE" /\ ~packet_loaded'
  OBVIOUS
<1>2. state' # "IDLE" => running' /\ packet_loaded'
  OBVIOUS
<1>3. packet_loaded' => active_packet' \in Packets
  OBVIOUS
<1>4. ~running' => ~toggle_next' /\ ~railcom_cutout_arm_pending'
  OBVIOUS
<1>5. railcom_cutout_arm_pending' => state' = "IDLE" /\ NewBit' /\ current_bit_is_one'
  OBVIOUS
<1>6. current_bit_is_one' => tick_counter' = 0
  BY <1>h
<1>7. running' => Regular'
  <2>1. CASE TickWithinHalf
    <3>1. ~current_bit_is_one /\ tick_counter = 0
      BY <1>h, <2>1
    <3>2. /\ current_bit_is_one' = current_bit_is_one
          /\ tick_counter' = tick_counter + 1 /\ toggle_next' = FALSE
      BY <2>1
    <3> QED
      BY <3>1, <3>2 DEF Regular
  <2>2. ~TickWithinHalf /\ running' => tick_counter' = 0 /\ toggle_next'
    OBVIOUS
  <2> QED
    BY <2>1, <2>2 DEF Regular
<1>8. state' = "PREAMBLE" => /\ current_bit_is_one'
                             /\ preamble_count' \in 1..active_packet'.preamble_bits
  BY <1>0
<1>9. state' = "START_BIT" => /\ ~current_bit_is_one'
                              /\ byte_index' < Len(active_packet'.data)
  BY <1>0
<1>10. state' = "DATA" => /\ current_bit_is_one' <=> DataBit(byte_index, bit_index)'
                          /\ byte_index' < Len(active_packet'.data)
  BY <1>0 DEF DataBit
<1>11. state' = "END_BIT" => /\ current_bit_is_one'
                             /\ byte_index' = Len(active_packet'.data)
  BY <1>0
<1> QED
  BY <1>1, <1>2, <1>3, <1>4, <1>5, <1>6, <1>7, <1>8, <1>9, <1>10, <1>11

\* The main loop's operations: load_packet stores into a buffer that no tick
\* reads, and start and stop find the position of an abandoned packet.
LEMMA EncLoopKeeps ==
  ASSUME EncTypeOK, EncShape,
         \/ IsIdle /\ ~packet_loaded /\ LoadBegin
         \/ \E p \in Packets : LoadEnd(p)
         \/ ~copying /\ running /\ Stop
         \/ ~copying /\ ~running /\ Start
  PROVE  EncTypeOK' /\ EncShape'
<1> USE DEF EncTypeOK, EncShape, NewBit, FirstTick, Regular
<1>1. CASE IsIdle /\ ~packet_loaded /\ LoadBegin
  BY <1>1 DEF LoadBegin, IsIdle, clock, position, DataBit
<1>2. ASSUME NEW p \in Packets, LoadEnd(p)
      PROVE  EncTypeOK' /\ EncShape'
  <2> USE DEF LoadEnd, clock, position
  <2>1. EncTypeOK'
    BY <1>2
  <2>2. state' = "IDLE" /\ ~copying' /\ active_packet' \in Packets
    BY <1>2
  <2>3. /\ UNCHANGED <<state, running, half_bit, tick_counter, toggle_next>>
        /\ UNCHANGED <<current_bit_is_one, railcom_cutout_arm_pending>>
    BY <1>2
  <2>4. EncShape'
    <3> HIDE DEF LoadEnd, EncTypeOK
    <3>1. copying' => state' = "IDLE" /\ ~packet_loaded'
      BY <2>2
    <3>2. packet_loaded' => active_packet' \in Packets
      BY <2>2
    <3>3. running' => Regular' \/ FirstTick'
      BY <2>3
    <3>4. ~running' => ~toggle_next' /\ ~railcom_cutout_arm_pending'
      BY <2>3
    <3>5. /\ railcom_cutout_arm_pending' => NewBit' /\ current_bit_is_one'
          /\ current_bit_is_one' => tick_counter' = 0
      BY <2>3
    <3> QED
      BY <2>2, <3>1, <3>2, <3>3, <3>4, <3>5
  <2> QED
    BY <2>1, <2>4
<1>3. CASE ~copying /\ running /\ Stop
  BY <1>3 DEF Stop, clock, position, buffer, DataBit
<1>4. CASE ~copying /\ ~running /\ Start
  <2> USE DEF Start, clock, position, buffer
  <2>1. EncTypeOK'
    <3> HIDE DEF EncShape
    <3>1. UNCHANGED <<packet_loaded, preamble_count, byte_index, bit_index,
                      active_packet, copying, current_bit_is_one, tick_counter>>
      BY <1>4
    <3>2. /\ state' = "IDLE" /\ half_bit' = 0 /\ running' = TRUE
          /\ toggle_next' = TRUE /\ railcom_cutout_arm_pending' = FALSE
      BY <1>4
    <3> HIDE DEF Start
    <3>3. state' \in States /\ half_bit' \in 0..1
      BY <3>2
    <3>4. /\ running' \in BOOLEAN /\ toggle_next' \in BOOLEAN
          /\ railcom_cutout_arm_pending' \in BOOLEAN
      BY <3>2
    <3> QED
      BY <3>1, <3>3, <3>4
  <2>2. /\ state' = "IDLE" /\ ~copying' /\ running' /\ FirstTick'
        /\ ~railcom_cutout_arm_pending'
    BY <1>4
  <2>3. UNCHANGED <<packet_loaded, active_packet, current_bit_is_one, tick_counter>>
    BY <1>4
  <2>4. EncShape'
    <3> HIDE DEF Start, EncTypeOK, FirstTick
    <3> QED
      BY <2>2, <2>3
  <2> QED
    BY <2>1, <2>4
<1> HIDE DEF EncTypeOK, EncShape
<1> QED
  BY <1>1, <1>2, <1>3, <1>4

\* The decoder's buffer shrinks to nothing or stays as it is ...
LEMMA BufferStays ==
  ASSUME NEW b \in Seq(0..255), Len(b) <= MaxBytes, NEW c \in {<<>>, b}
  PROVE  /\ c \in Seq(0..255) /\ Len(c) <= MaxBytes
         /\ Len(b) < MaxBytes => Len(c) < MaxBytes
<1>1. CASE c = <<>>
  BY <1>1, BitDecoderAssumption
<1>2. CASE c = b
  BY <1>2
<1> QED
  BY <1>1, <1>2

\* ... or takes a byte.
LEMMA BufferTakes ==
  ASSUME NEW b \in Seq(0..255), NEW byte \in 0..255
  PROVE  /\ Append(b, byte) \in Seq(0..255)
         /\ Len(Append(b, byte)) = Len(b) + 1
OBVIOUS

\* One bit keeps the decoder within its types: a byte is a byte, and the buffer
\* holds no more than DCC_PACKET_MAX_BYTES (dcc_bit_decoder.c, _on_bit).
LEMMA BitKeeps ==
  ASSUME BitTypeOK, DecShape, NEW one \in BOOLEAN, _on_bit(one), ~_first_edge,
         _first_half_type' = "NONE"
  PROVE  BitTypeOK' /\ DecShape'
<1>0. \A c \in {<<>>, _packet_buffer} :
        /\ c \in Seq(0..255) /\ Len(c) <= MaxBytes
        /\ Len(_packet_buffer) < MaxBytes => Len(c) < MaxBytes
  <2>1. _packet_buffer \in Seq(0..255) /\ Len(_packet_buffer) <= MaxBytes
    BY DEF BitTypeOK
  <2> QED
    BY <2>1, BufferStays
<1>1. _first_edge' \in BOOLEAN /\ received' \in Seq(0..255)
  <2>1. _first_edge' \in BOOLEAN
    BY DEF _on_bit, SeekPreamble, Accumulate, Separator, EndPacket, BitTypeOK
  <2>2. received' \in {<<>>, _packet_buffer}
    BY DEF _on_bit, SeekPreamble, Accumulate, Separator, EndPacket
  <2> QED
    BY <1>0, <2>1, <2>2
<1>2. _state' \in {"SEEKING_PREAMBLE", "ACCUMULATING", "SEPARATOR"}
  BY DEF _on_bit, SeekPreamble, Accumulate, Separator, EndPacket, StartByte,
         _reset_to_preamble
<1> USE BitDecoderAssumption DEF BitTypeOK
<1>3. CASE SeekPreamble(one)
  <2>1. _preamble_count' \in 0..CounterSize - 1
    BY <1>3 DEF SeekPreamble, CountPreamble
  <2>2. /\ _bit_count' \in {0, _bit_count}
        /\ _current_byte' \in {0, _current_byte}
    BY <1>3 DEF SeekPreamble, StartByte
  <2>3. ~_first_edge' /\ _packet_buffer' \in {<<>>, _packet_buffer}
    BY <1>3 DEF SeekPreamble, StartByte
  <2>4. _state' = "ACCUMULATING" => _bit_count' = 0 /\ _packet_buffer' = <<>>
    BY <1>3 DEF SeekPreamble, StartByte
  <2>5. /\ _packet_buffer' \in Seq(0..255) /\ Len(_packet_buffer') <= MaxBytes
        /\ _state' = "ACCUMULATING" => Len(_packet_buffer') < MaxBytes
    <3> HIDE BitDecoderAssumption DEF BitTypeOK
    <3>1. /\ _packet_buffer' \in Seq(0..255) /\ Len(_packet_buffer') <= MaxBytes
      BY <1>0, <2>3
    <3>2. Len(<<>>) < MaxBytes
      BY BitDecoderAssumption
    <3> QED
      BY <2>4, <3>1, <3>2
  <2> QED
    BY <1>1, <1>2, <2>1, <2>2, <2>3, <2>4, <2>5 DEF DecShape
<1>4. CASE Accumulate(one)
  <2> DEFINE byte == (2 * _current_byte + (IF one THEN 1 ELSE 0)) % 256
  <2>1. byte \in 0..255
    OBVIOUS
  <2>2. /\ _current_byte' = byte /\ _bit_count' = _bit_count + 1
        /\ UNCHANGED <<_first_edge, _preamble_count>>
        /\ _state = "ACCUMULATING"
        /\ \/ _bit_count + 1 < 8 /\ UNCHANGED <<_state, _packet_buffer>>
           \/ /\ _state' = "SEPARATOR"
              /\ _packet_buffer' = Append(_packet_buffer, byte)
    BY <1>4 DEF Accumulate
  <2> HIDE DEF byte
  <2>3. _bit_count <= 7 /\ Len(_packet_buffer) < MaxBytes
    BY <2>2 DEF DecShape
  <2>4. /\ _packet_buffer' \in Seq(0..255) /\ Len(_packet_buffer') <= MaxBytes
        /\ _state' = "ACCUMULATING" => Len(_packet_buffer') < MaxBytes
    <3>1. CASE UNCHANGED _packet_buffer
      BY <2>3, <3>1
    <3>2. CASE _packet_buffer' = Append(_packet_buffer, byte) /\ _state' = "SEPARATOR"
      BY <2>1, <2>3, <3>2, BufferTakes
    <3> QED
      BY <2>2, <3>1, <3>2
  <2>5. _bit_count' \in 0..8 /\ (_state' = "ACCUMULATING" => _bit_count' <= 7)
    BY <2>2, <2>3
  <2> QED
    BY <1>1, <1>2, <2>1, <2>2, <2>4, <2>5 DEF DecShape
<1>5. CASE Separator(one)
  <2> USE DEF Separator, EndPacket, StartByte, _reset_to_preamble
  <2>1. /\ _bit_count' \in {0, _bit_count}
        /\ _current_byte' \in {0, _current_byte}
        /\ _preamble_count' \in {0, 1, _preamble_count}
    BY <1>5
  <2>4. /\ _packet_buffer' \in {<<>>, _packet_buffer}
        /\ _first_edge' => _state' = "SEEKING_PREAMBLE" /\ _preamble_count' = 0
    BY <1>5
  <2>2. _state' = "ACCUMULATING" =>
          /\ _bit_count' = 0 /\ _packet_buffer' = _packet_buffer
          /\ Len(_packet_buffer) < MaxBytes
    BY <1>5
  <2>3. /\ _packet_buffer' \in Seq(0..255) /\ Len(_packet_buffer') <= MaxBytes
        /\ _state' = "ACCUMULATING" => Len(_packet_buffer') < MaxBytes
    <3> HIDE BitDecoderAssumption
    <3> HIDE DEF BitTypeOK, Separator, EndPacket, StartByte, _reset_to_preamble
    <3>1. _packet_buffer' \in Seq(0..255) /\ Len(_packet_buffer') <= MaxBytes
      BY <1>0, <2>4
    <3> QED
      BY <2>2, <3>1
  <2> HIDE DEF Separator, EndPacket, StartByte, _reset_to_preamble
  <2> QED
    BY <1>1, <1>2, <2>1, <2>2, <2>3, <2>4 DEF DecShape
<1> QED
  BY <1>3, <1>4, <1>5 DEF _on_bit

\* So does an edge, whatever the time since the one before (DccBitDecoder_edge).
LEMMA EdgeKeeps ==
  ASSUME BitTypeOK, DecShape, NEW elapsed \in Nat, DccBitDecoder_edge(elapsed)
  PROVE  BitTypeOK' /\ DecShape'
<1> DEFINE half == IF elapsed < HalfBitThreshold THEN "SHORT" ELSE "LONG"
<1>1. half \in {"SHORT", "LONG"} /\ (half = "SHORT") \in BOOLEAN
  OBVIOUS
<1>2. \/ /\ _first_edge' = FALSE /\ UNCHANGED <<_first_half_type, assembler>>
         /\ received' = <<>>
      \/ /\ ~_first_edge /\ _first_half_type' = "NONE" /\ _reset_to_preamble
         /\ received' = <<>> /\ UNCHANGED _first_edge
      \/ ~_first_edge /\ _on_bit(half = "SHORT") /\ _first_half_type' = "NONE"
      \/ /\ ~_first_edge /\ _first_half_type' = half /\ UNCHANGED assembler
         /\ received' = <<>> /\ UNCHANGED _first_edge
  BY DEF DccBitDecoder_edge, NoBit
<1> HIDE DEF half
<1>3. CASE ~_first_edge /\ _on_bit(half = "SHORT") /\ _first_half_type' = "NONE"
  BY <1>1, <1>3, BitKeeps
<1>4. CASE /\ ~_first_edge /\ _first_half_type' = "NONE" /\ _reset_to_preamble
           /\ received' = <<>> /\ UNCHANGED _first_edge
  BY <1>4, BitDecoderAssumption DEF BitTypeOK, DecShape, _reset_to_preamble
<1>5. CASE /\ _first_edge' = FALSE /\ UNCHANGED <<_first_half_type, assembler>>
           /\ received' = <<>>
  <2>1. _first_edge' \in BOOLEAN
    BY <1>5
  <2>3. received' \in Seq(0..255)
    BY <1>5
  <2>4. BitTypeOK'
    BY <1>5, <2>1, <2>3 DEF BitTypeOK, assembler
  <2>2. DecShape'
    BY <1>5 DEF DecShape, assembler
  <2> QED
    BY <2>2, <2>4
<1>6. CASE /\ ~_first_edge /\ _first_half_type' = half /\ UNCHANGED assembler
           /\ received' = <<>> /\ UNCHANGED _first_edge
  BY <1>1, <1>6 DEF BitTypeOK, DecShape, assembler
<1> QED
  BY <1>2, <1>3, <1>4, <1>5, <1>6

\* A tick of the timer: the edge that reaches the decoder, or none, and the
\* encoder's next step.
LEMMA TimerShape ==
  ASSUME Shape, TimerIsr
  PROVE  Shape'
<1>1. EncTypeOK' /\ EncShape'
  BY EncTickTypes, EncTickShape DEF Shape, TypeOK, TimerIsr
<1>2. BitTypeOK' /\ DecShape'
  <2>1. CASE EdgeSeen
    <3>1. Elapsed \in Nat
      BY DEF Elapsed, TickTime, Shape, TypeOK
    <3> QED
      BY <2>1, <3>1, EdgeKeeps DEF EdgeSeen, Shape, TypeOK
  <2>2. CASE EdgeLost \/ NoEdge
    <3>1. received' = <<>> /\ UNCHANGED <<_first_edge, _first_half_type, assembler>>
      BY <2>2 DEF EdgeLost, NoEdge
    <3>2. received' \in Seq(0..255)
      BY <3>1
    <3>3. BitTypeOK /\ DecShape
      BY DEF Shape, TypeOK
    <3>4. BitTypeOK'
      BY <3>1, <3>2, <3>3 DEF BitTypeOK, assembler
    <3>5. DecShape'
      BY <3>1, <3>3 DEF DecShape, assembler
    <3> QED
      BY <3>4, <3>5
  <2> QED
    BY <2>1, <2>2 DEF TimerIsr
<1>3. finished' \in Seq(Nat)
  <2>1. active_packet.data \in Seq(Nat) /\ finished \in Seq(Nat)
    BY ActiveFacts DEF Shape, TypeOK
  <2>2. finished' = active_packet.data \/ finished' = <<>> \/ finished' = finished
    BY DEF TimerIsr
  <2>3. <<>> \in Seq(Nat)
    OBVIOUS
  <2> QED
    BY <2>1, <2>2, <2>3
<1>4. since' \in Nat /\ spoilt' \in 0..2
  BY DEF Shape, TypeOK, TimerIsr, EdgeSeen, EdgeLost, NoEdge
<1>5. dark' \in 0..CutoutTicks
  BY CutoutTicksAssumption DEF Shape, TypeOK, TimerIsr
<1>6. cutout' \in BOOLEAN
  BY DEF TimerIsr, ArmsCutout
<1>7. wrapped' \in BOOLEAN
  BY DEF Shape, TypeOK, TimerIsr, EdgeSeen, EdgeLost, NoEdge
<1> QED
  BY <1>1, <1>2, <1>3, <1>4, <1>5, <1>6, <1>7 DEF Shape, TypeOK

\* The main loop changes nothing of the decoder's.
LEMMA LoopShape ==
  ASSUME Shape, LoadStarts \/ LoadEnds \/ EncoderStart \/ EncoderStop
  PROVE  Shape'
<1>1. EncTypeOK' /\ EncShape'
  BY EncLoopKeeps
  DEF Shape, TypeOK, LoadStarts, LoadEnds, EncoderStart, EncoderStop
<1>2. UNCHANGED <<_first_edge, _first_half_type, assembler, wrapped, spoilt>>
  BY DEF LoadStarts, LoadEnds, EncoderStart, EncoderStop, Wire, bitVars
<1>3. /\ received' = <<>> \/ received' = received
      /\ finished' = <<>> \/ finished' = finished
  BY DEF LoadStarts, LoadEnds, EncoderStart, EncoderStop, Wire, bitVars
<1>4. dark' \in {0, dark} /\ since' \in {Silence, since} /\ cutout' \in {FALSE, cutout}
  BY DEF LoadStarts, LoadEnds, EncoderStart, EncoderStop, Wire, bitVars
<1>5. received' \in Seq(0..255) /\ finished' \in Seq(Nat)
  <2>1. received \in Seq(0..255) /\ finished \in Seq(Nat)
    BY DEF Shape, TypeOK, BitTypeOK
  <2>2. <<>> \in Seq(0..255) /\ <<>> \in Seq(Nat)
    OBVIOUS
  <2> QED
    BY <1>3, <2>1, <2>2
<1>6. dark' \in 0..CutoutTicks /\ since' \in Nat
  BY <1>4, CutoutTicksAssumption DEF Shape, TypeOK, Silence, HalfBitMax, TickTime
<1>7. cutout' \in BOOLEAN
  BY <1>4 DEF Shape, TypeOK
<1>8. BitTypeOK'
  BY <1>2, <1>5 DEF Shape, TypeOK, BitTypeOK, assembler
<1>9. DecShape'
  BY <1>2 DEF Shape, DecShape, assembler
<1> QED
  BY <1>1, <1>2, <1>5, <1>6, <1>7, <1>8, <1>9 DEF Shape, TypeOK

LEMMA InitShape == Init => Shape
<1> SUFFICES ASSUME Init PROVE Shape
  OBVIOUS
<1>1. EncTypeOK
  <2>1. /\ state \in States /\ half_bit \in 0..1 /\ tick_counter \in 0..1
        /\ preamble_count \in Nat /\ byte_index \in Nat
        /\ bit_index \in 0..ByteBits - 1
    BY ByteBitsAssumption DEF Init, EncInit
  <2>2. /\ packet_loaded \in BOOLEAN /\ running \in BOOLEAN
        /\ current_bit_is_one \in BOOLEAN /\ toggle_next \in BOOLEAN
        /\ railcom_cutout_arm_pending \in BOOLEAN /\ copying \in BOOLEAN
    BY DEF Init, EncInit
  <2>3. active_packet \in Packets \cup {EmptyPacket}
    BY DEF Init, EncInit
  <2> QED
    BY <2>1, <2>2, <2>3 DEF EncTypeOK
<1>2. EncShape
  BY DEF Init, EncInit, EncShape
<1>3. BitTypeOK
  BY BitDecoderAssumption DEF Init, BitInit, BitTypeOK
<1>4. DecShape
  BY DEF Init, BitInit, DecShape
<1>5. finished \in Seq(Nat) /\ since \in Nat /\ dark \in 0..CutoutTicks
  BY CutoutTicksAssumption DEF Init
<1>6. spoilt \in 0..2
  BY DEF Init
<1>7. cutout \in BOOLEAN /\ wrapped \in BOOLEAN
  BY DEF Init
<1> QED
  BY <1>1, <1>2, <1>3, <1>4, <1>5, <1>6, <1>7 DEF Shape, TypeOK

\* Nothing happens: neither end changes.
LEMMA StutterShape == ASSUME Shape, UNCHANGED vars PROVE Shape'
<1> USE DEF Shape, vars, encVars, bitVars, assembler, clock, position, buffer
<1>1. EncTypeOK'
  BY DEF TypeOK, EncTypeOK
<1>2. EncShape'
  BY DEF EncShape, NewBit, FirstTick, Regular, DataBit
<1>3. BitTypeOK'
  BY DEF TypeOK, BitTypeOK
<1>4. DecShape'
  BY DEF DecShape
<1> QED
  BY <1>1, <1>2, <1>3, <1>4 DEF TypeOK

\* Both ends stay within their types, however loads, stops, starts and lost
\* edges fall between the ticks, for any packets, cutout and counter size: the
\* encoder's position is within the packet it sends and the decoder's byte and
\* bit counts within its buffer (dcc_bit_encoder.c, dcc_bit_decoder.c).
THEOREM WaveformTypes == Spec => []TypeOK
<1>1. ASSUME Shape, [Next]_vars PROVE Shape'
  BY <1>1, TimerShape, LoopShape, StutterShape DEF Next
<1>2. Shape => TypeOK
  BY DEF Shape
<1> QED
  BY <1>1, <1>2, InitShape, PTL DEF Spec
-----------------------------------------------------------------------------
(***************************************************************************)
(* What one edge does to the decoder.                                      *)
(***************************************************************************)

\* 58 microseconds are short, 116 are long, and half a bit waits for the other
\* half (DccBitDecoder_edge).
LEMMA ShortEdge ==
  ASSUME EdgeSeen, ~_first_edge, since = 0
  PROVE  /\ _first_half_type = "SHORT" => _on_bit(TRUE) /\ _first_half_type' = "NONE"
         /\ _first_half_type # "SHORT" => /\ _first_half_type' = "SHORT"
                                          /\ UNCHANGED <<assembler, _first_edge>>
                                          /\ received' = <<>>
<1>1. DccBitDecoder_edge(58)
  BY DEF EdgeSeen, Elapsed, TickTime
<1>2. _first_half_type # "SHORT" => /\ _first_half_type' = "SHORT"
                                    /\ UNCHANGED <<assembler, _first_edge>>
                                    /\ received' = <<>>
  BY <1>1 DEF DccBitDecoder_edge, HalfBitThreshold, HalfBitMax, HalvesPair, NoBit
<1>3. _first_half_type = "SHORT" => _first_half_type' = "NONE"
  BY <1>1 DEF DccBitDecoder_edge, HalfBitThreshold, HalfBitMax, HalvesPair
<1>4. _first_half_type = "SHORT" => _on_bit(TRUE)
  BY <1>1 DEF DccBitDecoder_edge, HalfBitThreshold, HalfBitMax, HalvesPair,
              _on_bit, SeekPreamble, Accumulate, Separator
<1> QED
  BY <1>2, <1>3, <1>4

LEMMA LongEdge ==
  ASSUME EdgeSeen, ~_first_edge, since = 1
  PROVE  /\ _first_half_type = "LONG" => _on_bit(FALSE) /\ _first_half_type' = "NONE"
         /\ _first_half_type # "LONG" => /\ _first_half_type' = "LONG"
                                         /\ UNCHANGED <<assembler, _first_edge>>
                                         /\ received' = <<>>
<1>1. DccBitDecoder_edge(116)
  BY DEF EdgeSeen, Elapsed, TickTime
<1>2. _first_half_type # "LONG" => /\ _first_half_type' = "LONG"
                                    /\ UNCHANGED <<assembler, _first_edge>>
                                    /\ received' = <<>>
  BY <1>1 DEF DccBitDecoder_edge, HalfBitThreshold, HalfBitMax, HalvesPair, NoBit
<1>3. _first_half_type = "LONG" => _first_half_type' = "NONE"
  BY <1>1 DEF DccBitDecoder_edge, HalfBitThreshold, HalfBitMax, HalvesPair
<1>4. _first_half_type = "LONG" => _on_bit(FALSE)
  BY <1>1 DEF DccBitDecoder_edge, HalfBitThreshold, HalfBitMax, HalvesPair,
              _on_bit, SeekPreamble, Accumulate, Separator
<1> QED
  BY <1>2, <1>3, <1>4

\* Hunting for a preamble: a one counts, a zero before there are enough starts
\* the count anew, a zero after that begins the packet.
LEMMA SeekOne ==
  ASSUME BitTypeOK, Seeking, _on_bit(TRUE)
  PROVE  /\ Seeking' /\ received' = <<>> /\ UNCHANGED _first_edge
         /\ \/ _preamble_count' = _preamble_count + 1
            \/ _preamble_count = CounterSize - 1 /\ _preamble_count' = 0
<1>1. SeekPreamble(TRUE)
  BY DEF Seeking, _on_bit, Accumulate, Separator
<1>2. /\ UNCHANGED _state /\ received' = <<>> /\ UNCHANGED _first_edge
      /\ _preamble_count' = (_preamble_count + 1) % CounterSize
  BY <1>1 DEF SeekPreamble, CountPreamble
<1>3. _preamble_count \in 0..CounterSize - 1 /\ CounterSize \in Nat
  BY BitDecoderAssumption DEF BitTypeOK
<1> QED
  BY <1>2, <1>3 DEF Seeking

LEMMA SeekZero ==
  ASSUME BitTypeOK, Seeking, _on_bit(FALSE)
  PROVE  /\ received' = <<>> /\ UNCHANGED _first_edge
         /\ _preamble_count < PreambleMin => Seeking' /\ _preamble_count' = 0
         /\ _preamble_count >= PreambleMin =>
              /\ _state' = "ACCUMULATING" /\ _bit_count' = 0 /\ _current_byte' = 0
              /\ _packet_buffer' = <<>> /\ UNCHANGED _preamble_count
<1>1. SeekPreamble(FALSE)
  BY DEF Seeking, _on_bit, Accumulate, Separator
<1>2. received' = <<>> /\ UNCHANGED _first_edge
  BY <1>1 DEF SeekPreamble
<1>3. \/ /\ _preamble_count >= PreambleMin /\ StartByte
         /\ _packet_buffer' = <<>> /\ UNCHANGED _preamble_count
      \/ /\ _preamble_count < PreambleMin
         /\ _preamble_count' = 0 /\ UNCHANGED _state
  BY <1>1 DEF SeekPreamble
<1>4. ~(_preamble_count >= PreambleMin /\ _preamble_count < PreambleMin)
  BY BitDecoderAssumption DEF BitTypeOK
<1> QED
  BY <1>2, <1>3, <1>4 DEF Seeking, StartByte

\* In a byte: bit after bit from the top, until it is whole.
LEMMA TakeBit ==
  ASSUME BitTypeOK, _state = "ACCUMULATING", NEW one \in BOOLEAN, _on_bit(one)
  PROVE  /\ received' = <<>> /\ UNCHANGED _first_edge
         /\ _bit_count' = _bit_count + 1
         /\ _current_byte' = (2 * _current_byte + (IF one THEN 1 ELSE 0)) % 256
         /\ _bit_count < 7 => _state' = _state /\ _packet_buffer' = _packet_buffer
         /\ _bit_count >= 7 =>
              /\ _state' = "SEPARATOR"
              /\ _packet_buffer' = Append(_packet_buffer, _current_byte')
<1>1. Accumulate(one)
  BY DEF _on_bit, SeekPreamble, Separator
<1>2. /\ received' = <<>> /\ UNCHANGED _first_edge
      /\ _bit_count' = _bit_count + 1
      /\ _current_byte' = (2 * _current_byte + (IF one THEN 1 ELSE 0)) % 256
  BY <1>1 DEF Accumulate
<1>3. \/ _bit_count + 1 < 8 /\ UNCHANGED <<_state, _packet_buffer>>
      \/ /\ _bit_count + 1 >= 8 /\ _state' = "SEPARATOR"
         /\ _packet_buffer' = Append(_packet_buffer, _current_byte')
  BY <1>1 DEF Accumulate
<1>4. _bit_count \in 0..8
  BY DEF BitTypeOK
<1> QED
  BY <1>2, <1>3, <1>4

\* After a byte: a zero begins another one, a one ends the packet, and in a
\* RailCom build the next edge only starts the clock.
LEMMA NextByte ==
  ASSUME _state = "SEPARATOR", _on_bit(FALSE), BitTypeOK,
         Len(_packet_buffer) < MaxBytes
  PROVE  /\ received' = <<>> /\ UNCHANGED <<_first_edge, _packet_buffer>>
         /\ _state' = "ACCUMULATING" /\ _bit_count' = 0 /\ _current_byte' = 0
<1>1. Separator(FALSE)
  BY DEF _on_bit, Accumulate, SeekPreamble
<1>2. ~(Len(_packet_buffer) >= MaxBytes)
  BY BitDecoderAssumption DEF BitTypeOK
<1> QED
  BY <1>1, <1>2 DEF Separator, StartByte

LEMMA LastBit ==
  ASSUME _state = "SEPARATOR", _on_bit(TRUE), RailcomBuild
  PROVE  /\ received' = IF Len(_packet_buffer) >= 2 THEN _packet_buffer ELSE <<>>
         /\ Seeking' /\ _preamble_count' = 0 /\ _first_edge'
<1>1. Separator(TRUE)
  BY DEF _on_bit, Accumulate, SeekPreamble
<1> QED
  BY <1>1 DEF Separator, EndPacket, Seeking, _reset_to_preamble

\* A bit completes what the bits above it began.
LEMMA BitShifts ==
  ASSUME NEW d \in 0..255, NEW b \in 0..7
  PROVE  (2 * (d \div 2^(b + 1)) + (IF (d \div 2^b) % 2 = 1 THEN 1 ELSE 0)) % 256
           = d \div 2^b
<1>0. CASE b = 0
  BY <1>0
<1>1. CASE b = 1
  BY <1>1
<1>2. CASE b = 2
  BY <1>2
<1>3. CASE b = 3
  BY <1>3
<1>4. CASE b = 4
  BY <1>4
<1>5. CASE b = 5
  BY <1>5
<1>6. CASE b = 6
  BY <1>6
<1>7. CASE b = 7
  BY <1>7
<1> QED
  BY <1>0, <1>1, <1>2, <1>3, <1>4, <1>5, <1>6, <1>7

LEMMA TopAndBottom ==
  ASSUME NEW d \in 0..255
  PROVE  d \div 2^8 = 0 /\ d \div 2^0 = d
OBVIOUS

\* A decoder that has missed the packet goes on missing it: a byte and a stop
\* bit are no preamble, so no start bit is taken for the packet's.
LEMMA MissedWaits ==
  ASSUME NEW k \in 0..8, Missed(k), UNCHANGED assembler, NoEdge \/ EdgeSeen,
         since < Silence, ~cutout
  PROVE  Missed(k)'
<1>1. UNCHANGED <<_state, _preamble_count>>
  BY DEF assembler
<1>2. wrapped => wrapped'
  BY <1>1 DEF NoEdge, EdgeSeen
<1>3. spoilt' = spoilt
  BY DEF NoEdge, EdgeSeen
<1> QED
  BY <1>1, <1>2, <1>3 DEF Missed, Seeking

LEMMA MissesOne ==
  ASSUME BitTypeOK, PreambleMin >= 10, NEW k \in 0..8, Missed(k), _on_bit(TRUE),
         EdgeSeen, since < Silence, ~cutout
  PROVE  /\ Seeking' /\ _preamble_count' = _preamble_count + 1
         /\ wrapped' \/ spoilt' = 1
         /\ received' = <<>> /\ UNCHANGED _first_edge
<1>1. Seeking /\ _preamble_count <= 8 /\ _preamble_count \in Nat
  BY DEF Missed, BitTypeOK
<1>2. _preamble_count # CounterSize - 1
  BY <1>1, BitDecoderAssumption
<1>3. /\ Seeking' /\ _preamble_count' = _preamble_count + 1
      /\ received' = <<>> /\ UNCHANGED _first_edge
  BY <1>1, <1>2, SeekOne
<1>4. wrapped => wrapped'
  BY <1>1, <1>3 DEF EdgeSeen, Seeking
<1>5. spoilt' = spoilt
  BY DEF EdgeSeen
<1> QED
  BY <1>3, <1>4, <1>5 DEF Missed

LEMMA MissesZero ==
  ASSUME BitTypeOK, PreambleMin >= 10, NEW k \in 0..8, Missed(k), _on_bit(FALSE),
         EdgeSeen, since < Silence, ~cutout
  PROVE  /\ Seeking' /\ _preamble_count' = 0
         /\ wrapped' \/ spoilt' = 1
         /\ received' = <<>> /\ UNCHANGED _first_edge
<1>1. Seeking /\ _preamble_count < PreambleMin
  BY BitDecoderAssumption DEF Missed, BitTypeOK
<1>2. /\ Seeking' /\ _preamble_count' = 0
      /\ received' = <<>> /\ UNCHANGED _first_edge
  BY <1>1, SeekZero
<1>3. wrapped => wrapped'
  BY <1>1, <1>2 DEF EdgeSeen, Seeking
<1>4. spoilt' = spoilt
  BY DEF EdgeSeen
<1> QED
  BY <1>2, <1>3, <1>4 DEF Missed
-----------------------------------------------------------------------------
(***************************************************************************)
(* What one tick does to the rest.                                         *)
(***************************************************************************)

\* A tick of a running encoder: who sees an edge, and when a cutout begins.
LEMMA TimerFacts ==
  ASSUME Shape, TimerIsr, running
  PROVE  /\ running' /\ (EdgeSeen \/ EdgeLost \/ NoEdge)
         /\ EdgeSeen \/ EdgeLost => toggle_next /\ dark = 0
         /\ NoEdge => ~toggle_next \/ dark > 0
         /\ EdgeSeen \/ NoEdge => spoilt' = Owed
         /\ EdgeLost => spoilt' = 2 /\ received' = <<>>
         /\ cutout' <=> railcom_cutout_arm_pending
         /\ ~railcom_cutout_arm_pending =>
              /\ Owed' = spoilt'
              /\ dark' = IF dark > 0 THEN dark - 1 ELSE dark
         /\ railcom_cutout_arm_pending => dark' = CutoutTicks
<1>1. running'
  BY DEF TimerIsr, Tick, TickStopped, TickWithinHalf, TickHalfBit, TickIdle,
         TickPickUp, TickPreamble, TickStartBit, TickData, TickEndBit, TickFullBit
<1>2. dark \in Nat
  BY CutoutTicksAssumption DEF Shape, TypeOK
<1>3. EdgeSeen \/ EdgeLost \/ NoEdge
  BY DEF TimerIsr
<1>4. EdgeSeen \/ EdgeLost => toggle_next /\ dark = 0
  BY DEF EdgeSeen, EdgeLost, Edge
<1>5. NoEdge => ~toggle_next \/ dark > 0
  BY <1>2 DEF NoEdge, Edge
<1>6. EdgeSeen \/ NoEdge => spoilt' = Owed
  BY DEF EdgeSeen, NoEdge, Owed
<1>7. EdgeLost => spoilt' = 2 /\ received' = <<>>
  BY DEF EdgeLost
<1>8. cutout' <=> railcom_cutout_arm_pending
  BY DEF TimerIsr, ArmsCutout
<1>9. ~railcom_cutout_arm_pending => Owed' = spoilt'
  BY <1>8 DEF Owed
<1>10. /\ ~railcom_cutout_arm_pending => dark' = IF dark > 0 THEN dark - 1 ELSE dark
       /\ railcom_cutout_arm_pending => dark' = CutoutTicks
  BY DEF TimerIsr, ArmsCutout
<1> QED
  BY <1>1, <1>3, <1>4, <1>5, <1>6, <1>7, <1>8, <1>9, <1>10

\* The first half of a bit, the middle of a zero's half, and a whole bit.
LEMMA TickParts ==
  ASSUME Shape, Tick, running
  PROVE  /\ current_bit_is_one /\ half_bit = 0 => TickHalfBit
         /\ ~current_bit_is_one /\ tick_counter = 0 => TickWithinHalf
         /\ ~current_bit_is_one /\ tick_counter = 1 /\ half_bit = 0 => TickHalfBit
         /\ HalfEnds /\ half_bit = 1 => ~TickWithinHalf /\ ~TickHalfBit /\ ~TickStopped
         /\ current_bit_is_one => HalfEnds /\ tick_counter = 0
         /\ tick_counter = 1 => HalfEnds
<1>1. half_bit \in 0..1 /\ tick_counter \in 0..1
  BY DEF Shape, TypeOK, EncTypeOK
<1>2. current_bit_is_one => tick_counter = 0
  BY DEF Shape, EncShape
<1>3. HalfEnds <=> current_bit_is_one \/ tick_counter = 1
  BY <1>1, <1>2 DEF HalfEnds, HalfTicks
<1>4. CASE TickStopped
  BY <1>4 DEF TickStopped
<1>5. CASE TickWithinHalf
  BY <1>1, <1>2, <1>3, <1>5 DEF TickWithinHalf, TickHalfBit, TickStopped
<1>6. CASE TickHalfBit
  BY <1>1, <1>2, <1>3, <1>6 DEF TickHalfBit, TickWithinHalf, TickStopped
<1>7. ASSUME HalfEnds, half_bit = 1
      PROVE  ~TickWithinHalf /\ ~TickHalfBit /\ ~TickStopped
  BY <1>7 DEF TickWithinHalf, TickHalfBit, TickStopped
<1>8. CASE ~TickStopped /\ ~TickWithinHalf /\ ~TickHalfBit
  <2>1. HalfEnds /\ half_bit = 1
    <3>1. BitEnds
      BY <1>8 DEF Tick, TickIdle, TickPickUp, TickPreamble, TickStartBit,
                  TickData, TickEndBit, TickFullBit
    <3> QED
      BY <1>1, <3>1 DEF BitEnds
  <2> QED
    BY <1>1, <1>2, <1>3, <1>8, <2>1
<1> QED
  BY <1>4, <1>5, <1>6, <1>8
-----------------------------------------------------------------------------
(***************************************************************************)
(* Before a packet.                                                        *)
(***************************************************************************)

\* The encoder idles or sends a preamble: it leads by one edge more at most.
LEMMA LeadStep ==
  ASSUME Shape, Tick, running, state \in {"IDLE", "PREAMBLE"},
         ~railcom_cutout_arm_pending
  PROVE  /\ Leading' /\ Lead \in Nat /\ Lead' \in Nat /\ Lead' <= Lead + 1
         /\ ~railcom_cutout_arm_pending'
         /\ state' = "START_BIT" => Lead' = 2 * active_packet'.preamble_bits + 1
         /\ (state = "IDLE" => current_bit_is_one) =>
              toggle_next /\ (state' = "IDLE" => current_bit_is_one')
<1>1. /\ half_bit \in 0..1 /\ preamble_count \in Nat
      /\ active_packet.preamble_bits \in Nat
  BY ActiveFacts DEF Shape, TypeOK, EncTypeOK
<1>2. state = "PREAMBLE" => /\ current_bit_is_one
                            /\ preamble_count \in 1..active_packet.preamble_bits
  BY DEF Shape, EncShape
<1>3. (state = "IDLE" => current_bit_is_one) => toggle_next
  BY <1>2 DEF Shape, EncShape, Regular, FirstTick, NewBit
<1>4. CASE TickWithinHalf
  <2>1. state = "IDLE" /\ ~current_bit_is_one
    BY <1>2, <1>4, TickParts DEF TickWithinHalf
  <2>2. /\ UNCHANGED <<state, half_bit, current_bit_is_one>>
        /\ ~railcom_cutout_arm_pending'
    BY <1>4 DEF TickWithinHalf
  <2> QED
    BY <1>1, <2>1, <2>2 DEF Lead, Leading
<1>5. CASE TickHalfBit
  <2>1. half_bit = 0 /\ half_bit' = 1 /\ ~railcom_cutout_arm_pending'
    BY <1>1, <1>5 DEF TickHalfBit
  <2>2. /\ UNCHANGED <<state, current_bit_is_one, preamble_count, active_packet>>
    BY <1>5 DEF TickHalfBit, position, buffer
  <2> QED
    BY <1>1, <1>2, <1>3, <2>1, <2>2 DEF Lead, Leading
<1>6. CASE TickIdle \/ TickPickUp
  <2>0. half_bit = 1
    <3>1. BitEnds
      BY <1>6 DEF TickIdle, TickPickUp, TickFullBit
    <3> QED
      BY <1>1, <3>1 DEF BitEnds
  <2>1. /\ half_bit' = 0 /\ state = "IDLE" /\ current_bit_is_one'
        /\ ~railcom_cutout_arm_pending'
    BY <1>6 DEF TickIdle, TickPickUp, TickFullBit, KeepsPacket
  <2>2. \/ state' = "IDLE"
        \/ state' = "PREAMBLE" /\ preamble_count' = active_packet'.preamble_bits
    BY <1>6 DEF TickIdle, TickPickUp, TickFullBit, buffer
  <2>3. Lead = 0 /\ Lead' = 1
    <3>1. active_packet' = active_packet
      BY <1>6 DEF TickIdle, TickPickUp, TickFullBit, buffer
    <3> QED
      BY <1>1, <2>0, <2>1, <2>2, <3>1 DEF Lead
  <2> QED
    BY <1>3, <2>1, <2>2, <2>3 DEF Leading
<1>7. CASE TickPreamble
  <2>0. half_bit = 1
    <3>1. BitEnds
      BY <1>7 DEF TickPreamble, TickFullBit
    <3> QED
      BY <1>1, <3>1 DEF BitEnds
  <2>1. /\ half_bit' = 0 /\ state = "PREAMBLE" /\ toggle_next'
        /\ ~railcom_cutout_arm_pending' /\ active_packet' = active_packet
        /\ preamble_count' = preamble_count - 1
    BY <1>7 DEF TickPreamble, TickFullBit, KeepsPacket, buffer
  <2>2. \/ state' = "START_BIT" /\ preamble_count' = 0 /\ byte_index' = 0
        \/ state' = "PREAMBLE"
    BY <1>7 DEF TickPreamble, TickFullBit
  <2> QED
    BY <1>1, <1>2, <1>3, <2>0, <2>1, <2>2 DEF Lead, Leading, FirstStart, NewBit
<1> QED
  <2>1. ~TickStopped /\ ~TickStartBit /\ ~TickData /\ ~TickEndBit
    BY DEF TickStopped, TickStartBit, TickData, TickEndBit
  <2> QED
    BY <1>4, <1>5, <1>6, <1>7, <2>1 DEF Tick

\* After a silence an edge only starts the clock (DccBitDecoder_edge).
LEMMA EdgeAfterSilence ==
  ASSUME Shape, EdgeSeen, since >= Silence
  PROVE  /\ Seeking' /\ _preamble_count' = 0 /\ _first_half_type' = "NONE"
         /\ ~_first_edge' /\ received' = <<>> /\ since' = 0
<1>1. since \in Nat /\ _first_edge \in BOOLEAN
  BY DEF Shape, TypeOK, BitTypeOK
<1>2. Elapsed >= HalfBitMax
  BY <1>1 DEF Elapsed, TickTime, Silence, HalfBitMax
<1>3. Elapsed \in Nat
  BY <1>1 DEF Elapsed, TickTime
<1>4. CASE _first_edge
  <2>1. /\ UNCHANGED <<_first_half_type, assembler>> /\ _first_edge' = FALSE
        /\ received' = <<>> /\ since' = 0
    BY <1>4 DEF EdgeSeen, DccBitDecoder_edge, NoBit
  <2> QED
    BY <1>4, <2>1 DEF Shape, DecShape, assembler, Seeking
<1>5. CASE ~_first_edge
  <2>1. /\ _first_half_type' = "NONE" /\ _reset_to_preamble
        /\ received' = <<>> /\ UNCHANGED _first_edge /\ since' = 0
    BY <1>2, <1>3, <1>5 DEF EdgeSeen, DccBitDecoder_edge, HalfBitMax
  <2> QED
    BY <1>5, <2>1 DEF _reset_to_preamble, Seeking
<1> QED
  BY <1>4, <1>5

\* The first tick after a start, which may find the encoder in a zero.
LEMMA FromStart ==
  ASSUME Shape, CutoutTicks # 0, TimerIsr, running, JustStarted, EdgeSeen
  PROVE  Leading' /\ (Visible' \/ OddBit') /\ received' = <<>>
<1>1. /\ Seeking' /\ _preamble_count' = 0 /\ _first_half_type' = "NONE"
      /\ ~_first_edge' /\ received' = <<>> /\ since' = 0
  BY EdgeAfterSilence DEF JustStarted
<1>2. /\ state = "IDLE" /\ half_bit = 0 /\ ~railcom_cutout_arm_pending
      /\ dark = 0
  BY DEF JustStarted, FirstTick, NewBit
<1>3. dark' = 0
  BY <1>2, TimerFacts
<1>4. Tick /\ tick_counter \in 0..1 /\ CutoutTicks \in Nat
  BY CutoutTicksAssumption DEF TimerIsr, Shape, TypeOK, EncTypeOK
<1>5. CASE current_bit_is_one \/ tick_counter = 1
  <2>1. TickHalfBit
    BY <1>2, <1>4, <1>5, TickParts
  <2>2. /\ state' = "IDLE" /\ half_bit' = 1 /\ toggle_next'
        /\ current_bit_is_one' = current_bit_is_one
        /\ ~railcom_cutout_arm_pending'
    BY <1>2, <2>1 DEF TickHalfBit
  <2>3. Leading' /\ Lead' = 0
    BY <2>2 DEF Leading, Lead
  <2>4. Seen' = CutoutTicks + 1
    BY <1>1, <1>4 DEF Seen, Done
  <2>5. CASE current_bit_is_one
    BY <1>1, <1>3, <1>4, <2>2, <2>3, <2>4, <2>5 DEF Visible
  <2>6. CASE ~current_bit_is_one
    BY <1>1, <1>3, <2>2, <2>3, <2>6 DEF OddBit, NewBit
  <2> QED
    BY <1>1, <2>3, <2>5, <2>6
<1>6. CASE ~current_bit_is_one /\ tick_counter = 0
  <2>1. TickWithinHalf
    BY <1>4, <1>6, TickParts
  <2>2. /\ state' = "IDLE" /\ half_bit' = 0 /\ ~toggle_next'
        /\ ~current_bit_is_one' /\ ~railcom_cutout_arm_pending'
    BY <1>2, <1>6, <2>1 DEF TickWithinHalf
  <2>3. Leading' /\ Lead' = 1
    BY <2>2 DEF Leading, Lead
  <2> QED
    BY <1>1, <1>3, <2>2, <2>3 DEF OddBit, NewBit
<1> QED
  BY <1>4, <1>5, <1>6

\* The encoder idles or sends a preamble into the cutout, or the cutout has
\* just ended: the first edge after it finds a decoder that has counted less.
LEMMA FromHidden ==
  ASSUME Shape, Wired, TimerIsr, running, Leading, Hidden, EdgeSeen \/ NoEdge
  PROVE  /\ Leading' /\ (Hidden' \/ Visible')
         /\ received' = <<>> \/ spoilt' # 0
<1>1. /\ CutoutTicks \in Nat /\ dark \in Nat /\ spoilt \in 0..2 /\ Tick
      /\ _preamble_count \in 0..CounterSize - 1 /\ _bit_count \in 0..8
  BY CutoutTicksAssumption DEF Shape, TypeOK, BitTypeOK, TimerIsr
<1>2. state \in {"IDLE", "PREAMBLE"} /\ ~railcom_cutout_arm_pending
  <2>1. CASE FirstStart /\ NewBit
    <3>1. Lead = 2 * active_packet.preamble_bits + 1
      BY <2>1 DEF Lead, FirstStart
    <3>2. active_packet \in Packets
      BY <2>1 DEF FirstStart, Shape, EncShape
    <3>3. 2 * active_packet.preamble_bits + 1 >= 2 * PreambleMin + CutoutTicks
      BY <3>2 DEF Wired
    <3>4. PreambleMin \in Nat /\ PreambleMin >= 10
      BY BitDecoderAssumption DEF Wired
    <3> QED
      BY <1>1, <3>1, <3>2, <3>3, <3>4, PacketFacts DEF Hidden
  <2> QED
    BY <2>1 DEF Leading
<1>3. state = "IDLE" => current_bit_is_one
  BY DEF Hidden
<1>4. /\ Leading' /\ Lead \in Nat /\ Lead' \in Nat /\ Lead' <= Lead + 1
      /\ toggle_next /\ (state' = "IDLE" => current_bit_is_one')
  BY <1>1, <1>2, <1>3, LeadStep
<1>5. /\ spoilt' = Owed /\ Owed' = spoilt' /\ Owed \in 0..2
      /\ dark' = IF dark > 0 THEN dark - 1 ELSE dark
  BY <1>1, <1>2, TimerFacts DEF Owed
<1>6. CASE NoEdge
  <2>1. dark > 0 /\ dark' = dark - 1
    BY <1>4, <1>5, <1>6, TimerFacts
  <2>2. /\ received' = <<>>
        /\ UNCHANGED <<_state, _preamble_count, _first_half_type>>
    BY <1>6 DEF NoEdge, assembler
  <2>3. CutoutTicks - dark' >= Lead'
    BY <1>1, <1>4, <2>1 DEF Hidden
  <2>4. Owed' = 0 => Seeking' /\ _first_half_type' = "NONE" /\ _preamble_count' <= 9
    BY <1>5, <2>2 DEF Hidden, Seeking
  <2> QED
    BY <1>4, <2>2, <2>3, <2>4 DEF Hidden
<1>7. CASE EdgeSeen
  <2>1. dark = 0 /\ dark' = 0 /\ since' = 0
    BY <1>5, <1>7, TimerFacts DEF EdgeSeen
  <2>2. CutoutTicks >= Lead
    BY <1>1, <2>1 DEF Hidden
  <2>3. Seen' \in Nat /\ Seen' >= CutoutTicks + 1
    <3>1. Shape'
      BY TimerShape
    <3>2. _preamble_count' \in Nat /\ _bit_count' \in Nat
      BY <3>1 DEF Shape, TypeOK, BitTypeOK
    <3>3. Done' \in Nat
      BY <3>2 DEF Done
    <3>4. CutoutTicks \in Nat
      BY <1>1
    <3>5. PICK done \in Nat : done = Done'
      BY <3>3
    <3>6. Seen' = CutoutTicks + 1 + 2 * done \/ Seen' = CutoutTicks + 2 + 2 * done
      BY <3>4, <3>5 DEF Seen
    <3> QED
      BY <3>4, <3>6
  <2>4. Owed' = 0 => /\ ~_first_edge' /\ Seeking' /\ received' = <<>>
                     /\ _first_half_type' = "LONG" => _preamble_count' <= 9
    <3> SUFFICES ASSUME Owed' = 0
                 PROVE  /\ ~_first_edge' /\ Seeking' /\ received' = <<>>
                        /\ _first_half_type' = "LONG" => _preamble_count' <= 9
      OBVIOUS
    <3>1. Seeking /\ _first_half_type = "NONE" /\ _preamble_count <= 9
      BY <1>5 DEF Hidden
    <3>2. \/ UNCHANGED assembler /\ _first_edge' = FALSE /\ received' = <<>>
          \/ /\ _reset_to_preamble /\ ~_first_edge /\ UNCHANGED _first_edge
             /\ received' = <<>>
          \/ /\ UNCHANGED assembler /\ ~_first_edge /\ UNCHANGED _first_edge
             /\ received' = <<>>
      BY <1>7, <3>1 DEF EdgeSeen, DccBitDecoder_edge, HalvesPair, NoBit
    <3>3. /\ ~_first_edge' /\ received' = <<>>
          /\ Seeking' /\ _preamble_count' \in {0, _preamble_count}
      BY <3>1, <3>2 DEF assembler, _reset_to_preamble, Seeking
    <3> QED
      BY <3>1, <3>3
  <2>5. Visible'
    BY <1>4, <2>1, <2>2, <2>3, <2>4, <1>1 DEF Visible
  <2>6. received' = <<>> \/ spoilt' # 0
    BY <1>5, <2>4
  <2> QED
    BY <1>4, <2>5, <2>6
<1> QED
  BY <1>6, <1>7

\* In step with the preamble every edge is counted, and none makes a zero.
LEMMA VisibleEdge ==
  ASSUME Shape, EdgeSeen, Visible
  PROVE  /\ since' = 0 /\ _first_half_type' # "LONG"
         /\ Seen \in Nat /\ (Seeking' \/ Seen' = Seen + 1)
         /\ Seeking => Seeking' /\ ~_first_edge'
         /\ Owed = 0 => /\ ~_first_edge' /\ Seeking' /\ received' = <<>>
                        /\ wrapped' \/ (~wrapped /\ Seen' = Seen + 1)
<1>1. /\ BitTypeOK /\ since = 0 /\ wrapped \in BOOLEAN
      /\ _preamble_count \in 0..CounterSize - 1 /\ _bit_count \in 0..8
      /\ CutoutTicks \in Nat /\ CounterSize \in Nat /\ CounterSize > 1
  BY CutoutTicksAssumption, BitDecoderAssumption
  DEF Shape, TypeOK, BitTypeOK, Visible
<1>2. since' = 0
  BY DEF EdgeSeen
<1>3. Done \in Nat /\ Seen \in Nat
  <2>1. Done \in Nat
    BY <1>1 DEF Done
  <2> QED
    BY <1>1, <2>1 DEF Seen
<1>4. wrapped' <=> (Wraps \/ (wrapped /\ _state' = _state))
  <2>1. since < Silence
    BY <1>1 DEF Silence, HalfBitMax, TickTime
  <2> QED
    BY <2>1 DEF EdgeSeen
<1>5. CASE _first_edge
  <2>1. UNCHANGED <<_first_half_type, assembler>>
    BY <1>5 DEF EdgeSeen, DccBitDecoder_edge, NoBit
  <2>2. Seeking' /\ _first_half_type' = "NONE"
    BY <1>5, <2>1 DEF Shape, DecShape, assembler, Seeking
  <2>3. ~_first_edge'
    BY <1>5 DEF EdgeSeen, DccBitDecoder_edge
  <2> QED
    BY <1>2, <1>3, <1>5, <2>2, <2>3 DEF Visible
<1>6. CASE ~_first_edge /\ _first_half_type # "SHORT"
  <2>1. /\ _first_half_type' = "SHORT" /\ received' = <<>> /\ ~_first_edge'
        /\ UNCHANGED <<_state, _preamble_count, _bit_count>>
    BY <1>1, <1>6, ShortEdge DEF assembler
  <2>2. Done' = Done
    BY <2>1 DEF Done, Seeking
  <2>3. Seen' = Seen + 1
    BY <1>1, <1>3, <1>6, <2>1, <2>2 DEF Seen
  <2>4. wrapped' \/ ~wrapped
    BY <1>4, <2>1
  <2> QED
    BY <1>2, <1>3, <2>1, <2>3, <2>4 DEF Visible, Seeking
<1>7. CASE ~_first_edge /\ _first_half_type = "SHORT" /\ Seeking
  <2>1. _on_bit(TRUE) /\ _first_half_type' = "NONE"
    BY <1>1, <1>7, ShortEdge
  <2>2. /\ Seeking' /\ received' = <<>> /\ ~_first_edge'
        /\ \/ _preamble_count' = _preamble_count + 1
           \/ _preamble_count = CounterSize - 1 /\ _preamble_count' = 0
    BY <1>1, <1>7, <2>1, SeekOne
  <2>3. CASE _preamble_count' = _preamble_count + 1
    <3>1. Done' = Done + 1
      BY <1>7, <2>2, <2>3 DEF Done
    <3>2. Seen' = Seen + 1
      BY <1>1, <1>3, <1>7, <2>1, <3>1 DEF Seen
    <3>3. wrapped' \/ ~wrapped
      BY <1>4, <1>7, <2>2 DEF Seeking
    <3> QED
      BY <1>2, <1>3, <2>1, <2>2, <3>2, <3>3
  <2>4. CASE _preamble_count = CounterSize - 1 /\ _preamble_count' = 0
    <3>1. wrapped'
      BY <1>4, <1>7, <2>4 DEF Wraps, Seeking
    <3> QED
      BY <1>2, <1>3, <2>1, <2>2, <3>1
  <2> QED
    BY <2>2, <2>3, <2>4
<1>8. CASE ~_first_edge /\ _first_half_type = "SHORT" /\ ~Seeking
  <2>1. _on_bit(TRUE) /\ _first_half_type' = "NONE"
    BY <1>1, <1>8, ShortEdge
  <2>2. Owed # 0
    BY <1>8 DEF Visible
  <2>3. CASE _state = "ACCUMULATING"
    <3>1. /\ _bit_count' = _bit_count + 1
          /\ _bit_count < 7 => _state' = "ACCUMULATING"
          /\ _bit_count >= 7 => _state' = "SEPARATOR"
      BY <1>1, <2>1, <2>3, TakeBit
    <3>2. _bit_count <= 7
      BY <2>3 DEF Shape, DecShape
    <3>3. Done' = Done + 1
      BY <1>1, <2>3, <3>1, <3>2 DEF Done, Seeking
    <3>4. Seen' = Seen + 1
      BY <1>1, <1>3, <1>8, <2>1, <3>3 DEF Seen
    <3> QED
      BY <1>2, <1>3, <1>8, <2>1, <2>2, <3>4
  <2>4. CASE _state = "SEPARATOR"
    <3>1. Separator(TRUE)
      BY <2>1, <2>4 DEF _on_bit, Accumulate, SeekPreamble
    <3>2. Seeking'
      BY <3>1 DEF Separator, EndPacket, _reset_to_preamble, Seeking
    <3> QED
      BY <1>2, <1>3, <1>8, <2>1, <2>2, <3>2
  <2> QED
    BY <1>1, <1>8, <2>3, <2>4 DEF BitTypeOK, Seeking
<1> QED
  BY <1>1, <1>5, <1>6, <1>7, <1>8 DEF BitTypeOK

\* The preamble goes on in step, or its first zero finds enough ones counted.
LEMMA FromVisible ==
  ASSUME Shape, Wired, TimerIsr, running, Leading, Visible, Owed # 2,
         EdgeSeen \/ NoEdge
  PROVE  /\ (Leading' /\ Visible') \/ (InFrame' /\ Frame')
         /\ received' = <<>> \/ spoilt' # 0
<1>1. /\ CutoutTicks \in Nat /\ spoilt \in 0..2 /\ Tick /\ dark = 0
  BY CutoutTicksAssumption DEF Shape, TypeOK, TimerIsr, Visible
<1>2. ~railcom_cutout_arm_pending
  BY DEF Leading, FirstStart, Shape, EncShape
<1>3. /\ spoilt' = Owed /\ Owed' = spoilt' /\ Owed \in {0, 1}
      /\ dark' = 0
  BY <1>1, <1>2, TimerFacts DEF Owed
<1>4. toggle_next
  <2>1. CASE FirstStart /\ NewBit
    BY <2>1 DEF NewBit
  <2>2. CASE state \in {"IDLE", "PREAMBLE"}
    BY <1>1, <1>2, <2>2, LeadStep DEF Visible
  <2> QED
    BY <2>1, <2>2 DEF Leading
<1>5. EdgeSeen
  BY <1>1, <1>4, TimerFacts
<1>6. received' = <<>> \/ spoilt' # 0
  BY <1>3, <1>5, VisibleEdge
<1>7. CASE state \in {"IDLE", "PREAMBLE"}
  <2>1. /\ Leading' /\ Lead \in Nat /\ Lead' \in Nat /\ Lead' <= Lead + 1
        /\ state' = "IDLE" => current_bit_is_one'
    BY <1>1, <1>2, <1>7, LeadStep DEF Visible
  <2>2. Seeking' \/ Seen' >= Lead'
    <3>1. Seeking' \/ (Seen' = Seen + 1 /\ ~Seeking)
      BY <1>5, VisibleEdge
    <3> QED
      BY <2>1, <1>5, <3>1, VisibleEdge DEF Visible
  <2>3. Owed' = 0 => /\ ~_first_edge' /\ Seeking' /\ _first_half_type' # "LONG"
                     /\ wrapped' \/ Seen' >= Lead'
    <3> SUFFICES ASSUME Owed = 0
                 PROVE  /\ ~_first_edge' /\ Seeking' /\ _first_half_type' # "LONG"
                        /\ wrapped' \/ Seen' >= Lead'
      BY <1>3
    <3>1. wrapped' \/ (~wrapped /\ Seen' = Seen + 1)
      BY <1>5, VisibleEdge
    <3>2. wrapped \/ Seen >= Lead
      BY DEF Visible
    <3>3. wrapped' \/ Seen' >= Lead'
      BY <1>5, <2>1, <3>1, <3>2, VisibleEdge
    <3> QED
      BY <1>5, <3>3, VisibleEdge
  <2>4. Visible'
    BY <1>3, <1>5, <2>1, <2>2, <2>3, VisibleEdge DEF Visible
  <2> QED
    BY <1>6, <2>1, <2>4
<1>8. CASE FirstStart /\ NewBit
  <2>1. /\ state = "START_BIT" /\ byte_index = 0 /\ half_bit = 0
        /\ ~current_bit_is_one /\ tick_counter = 0 /\ active_packet \in Packets
    BY <1>8 DEF FirstStart, NewBit, Shape, EncShape, Regular, FirstTick
  <2>2. TickWithinHalf
    BY <1>1, <2>1, TickParts
  <2>3. /\ state' = "START_BIT" /\ byte_index' = 0 /\ half_bit' = 0
        /\ ~toggle_next'
    BY <2>1, <2>2 DEF TickWithinHalf, position
  <2>4. /\ Lead = 2 * active_packet.preamble_bits + 1
        /\ active_packet.preamble_bits \in Nat
        /\ 2 * active_packet.preamble_bits + 1 >= 2 * PreambleMin + CutoutTicks
        /\ PreambleMin \in Nat /\ PreambleMin >= 10
    BY <2>1, PacketFacts, BitDecoderAssumption DEF Lead, Wired
  <2>5. Seeking
    <3> SUFFICES ASSUME ~Seeking PROVE FALSE
      OBVIOUS
    <3>1. Done \in 0..8
      BY DEF Done, Shape, TypeOK, BitTypeOK
    <3>2. Seen <= CutoutTicks + 18
      BY <1>1, <3>1 DEF Seen
    <3>3. Seen >= Lead
      BY DEF Visible
    <3> QED
      BY <1>1, <1>5, <2>4, <3>2, <3>3, VisibleEdge
  <2>6. Seeking' /\ ~_first_edge' /\ since' = 0 /\ _first_half_type' # "LONG"
    BY <1>5, <2>5, VisibleEdge
  <2>7. wrapped' \/ spoilt' = 1 \/ _preamble_count' >= PreambleMin
    <3> SUFFICES ASSUME ~wrapped', Owed = 0 PROVE _preamble_count' >= PreambleMin
      BY <1>3
    <3>1. ~wrapped /\ Seen' = Seen + 1 /\ Seen \in Nat
      BY <1>5, VisibleEdge
    <3>2. Seen >= Lead
      BY <3>1 DEF Visible
    <3>3. PICK count \in Nat : count = _preamble_count'
      BY TimerShape DEF Shape, TypeOK, BitTypeOK
    <3>4. Done' = count
      BY <2>6, <3>3 DEF Done
    <3>5. Seen' <= CutoutTicks + 2 + 2 * count
      BY <1>1, <3>4 DEF Seen
    <3>6. Seen >= 2 * PreambleMin + CutoutTicks
      BY <1>1, <2>4, <3>1, <3>2
    <3>7. 2 * count + CutoutTicks + 2 >= 2 * PreambleMin + CutoutTicks + 1
      BY <1>1, <2>4, <3>1, <3>5, <3>6
    <3>8. count >= PreambleMin
      BY <1>1, <2>4, <3>7
    <3> QED
      BY <3>3, <3>8
  <2>8. _first_half_type' \in {"NONE", "SHORT"}
    BY <2>6, TimerShape DEF Shape, TypeOK, BitTypeOK
  <2>9. ThisBit'
    BY <2>3, <2>6, <2>7, <2>8 DEF ThisBit, Position, BeforeStart, FirstStart
  <2>10. InFrame' /\ Frame'
    BY <1>3, <2>3, <2>6, <2>9 DEF InFrame, Frame, NewBit, OnBeat
  <2> QED
    BY <1>6, <2>10
<1> QED
  BY <1>7, <1>8 DEF Leading

\* A decoder that has counted nothing counts one bit at most.
LEMMA HuntEdge ==
  ASSUME Shape, EdgeSeen, ~_first_edge, Seeking, _preamble_count = 0
  PROVE  /\ Seeking' /\ ~_first_edge' /\ received' = <<>> /\ since' = 0
         /\ _preamble_count' \in {0, 1}
         /\ _first_half_type = "NONE" => _preamble_count' = 0
<1>1. since' = 0
  BY DEF EdgeSeen
<1>2. PreambleMin > 0 /\ CounterSize > 1
  BY BitDecoderAssumption
<1>3. DccBitDecoder_edge(Elapsed)
  BY DEF EdgeSeen
<1>4. CASE /\ _first_half_type' = "NONE" /\ _reset_to_preamble
           /\ received' = <<>> /\ UNCHANGED _first_edge
  BY <1>1, <1>4 DEF _reset_to_preamble, Seeking
<1>5. CASE NoBit /\ UNCHANGED _first_edge
  BY <1>1, <1>5 DEF NoBit, assembler, Seeking
<1>6. ASSUME NEW one \in BOOLEAN, SeekPreamble(one), _first_half_type # "NONE"
      PROVE  /\ Seeking' /\ ~_first_edge' /\ received' = <<>>
             /\ _preamble_count' \in {0, 1}
  <2>1. received' = <<>> /\ ~_first_edge'
    BY <1>6 DEF SeekPreamble
  <2>2. UNCHANGED _state /\ (_preamble_count' = 0 \/ _preamble_count' = CountPreamble)
    <3>1. ~(_preamble_count >= PreambleMin)
      BY <1>2, BitDecoderAssumption
    <3> QED
      BY <1>6, <3>1 DEF SeekPreamble
  <2>3. CountPreamble = 1
    BY <1>2, BitDecoderAssumption DEF CountPreamble
  <2> QED
    BY <2>1, <2>2, <2>3 DEF Seeking
<1>7. \/ _first_half_type' = "NONE" /\ _reset_to_preamble
         /\ received' = <<>> /\ UNCHANGED _first_edge
      \/ NoBit /\ UNCHANGED _first_edge
      \/ \E one \in BOOLEAN : _first_half_type # "NONE" /\ SeekPreamble(one)
  BY <1>3 DEF DccBitDecoder_edge, HalvesPair, _on_bit, Seeking, Accumulate, Separator
<1> QED
  BY <1>1, <1>4, <1>5, <1>6, <1>7

\* The rest of the zero a start cut into, and the bit after it.
LEMMA FromOddBit ==
  ASSUME Shape, Wired, TimerIsr, running, Leading, OddBit, EdgeSeen \/ NoEdge
  PROVE  Leading' /\ (Visible' \/ OddBit') /\ received' = <<>>
<1>1. /\ CutoutTicks \in Nat /\ Tick /\ dark = 0
      /\ half_bit \in 0..1 /\ tick_counter \in 0..1
  BY CutoutTicksAssumption DEF Shape, TypeOK, EncTypeOK, TimerIsr, OddBit
<1>2. ~railcom_cutout_arm_pending
  BY DEF Leading, FirstStart, Shape, EncShape
<1>3. dark' = 0
  BY <1>1, <1>2, TimerFacts
<1>4. EdgeSeen => toggle_next
  BY TimerFacts
<1>5. NoEdge => ~toggle_next
  BY <1>1, TimerFacts
<1>6. ~_first_edge /\ Seeking /\ _preamble_count = 0
  BY DEF OddBit
<1>7. NoEdge => /\ ~_first_edge' /\ Seeking' /\ _preamble_count' = 0
                /\ _first_half_type' = _first_half_type /\ received' = <<>>
  BY <1>6 DEF NoEdge, assembler, Seeking
<1>8. CASE current_bit_is_one /\ NewBit
  <2>1. state \in {"IDLE", "PREAMBLE"} /\ EdgeSeen
    BY <1>5, <1>8 DEF Leading, FirstStart, Shape, EncShape, NewBit
  <2>2. /\ Leading' /\ Lead \in Nat /\ Lead' \in Nat /\ Lead' <= Lead + 1
        /\ state' = "IDLE" => current_bit_is_one'
    BY <1>1, <1>2, <1>8, <2>1, LeadStep
  <2>3. /\ Seeking' /\ ~_first_edge' /\ received' = <<>> /\ since' = 0
        /\ _preamble_count' \in {0, 1}
    BY <1>6, <2>1, HuntEdge
  <2>4. Seen' >= CutoutTicks + 1
    <3>1. PICK count \in {0, 1} : count = _preamble_count'
      BY <2>3
    <3>2. Done' = count
      BY <2>3, <3>1 DEF Done
    <3>3. Seen' = CutoutTicks + 1 + 2 * count \/ Seen' = CutoutTicks + 2 + 2 * count
      BY <1>1, <3>2 DEF Seen
    <3> QED
      BY <1>1, <3>1, <3>3
  <2>5. Lead' <= 2 /\ CutoutTicks >= 1
    BY <1>1, <2>2 DEF OddBit, Wired
  <2>6. Seen' >= Lead'
    <3>1. Seen' \in Int
      BY <1>1, <2>3 DEF Seen, Done
    <3> QED
      BY <1>1, <2>2, <2>4, <2>5, <3>1
  <2> QED
    BY <1>3, <2>2, <2>3, <2>6 DEF Visible
<1>9. CASE /\ ~current_bit_is_one /\ state = "IDLE" /\ ~NewBit
           /\ (half_bit = 1 /\ ~toggle_next) \/ _first_half_type = "NONE"
  <2>0. IF toggle_next THEN tick_counter = 0 ELSE tick_counter = 1
    BY <1>9 DEF Shape, EncShape, Regular, FirstTick
  <2>1. CASE half_bit = 0
    <3>1. ~toggle_next /\ tick_counter = 1 /\ NoEdge
      BY <1>4, <1>9, <2>0, <2>1 DEF NewBit
    <3>2. TickHalfBit
      BY <1>1, <1>9, <2>1, <3>1, TickParts
    <3>3. /\ state' = "IDLE" /\ half_bit' = 1 /\ ~current_bit_is_one'
          /\ ~railcom_cutout_arm_pending' /\ toggle_next'
      BY <1>9, <2>1, <3>2 DEF TickHalfBit
    <3>4. Leading' /\ Lead' = 0
      BY <3>3 DEF Leading, Lead
    <3> QED
      BY <1>3, <1>7, <1>9, <2>1, <3>1, <3>3, <3>4 DEF OddBit, NewBit
  <2>2. CASE half_bit = 1 /\ toggle_next
    <3>1. EdgeSeen /\ _first_half_type = "NONE" /\ tick_counter = 0
      BY <1>5, <1>9, <2>0, <2>2
    <3>2. TickWithinHalf
      BY <1>1, <1>9, <3>1, TickParts
    <3>3. /\ state' = "IDLE" /\ half_bit' = 1 /\ ~current_bit_is_one'
          /\ ~railcom_cutout_arm_pending' /\ ~toggle_next'
      BY <1>9, <2>2, <3>2 DEF TickWithinHalf
    <3>4. Leading' /\ Lead' = 0
      BY <3>3 DEF Leading, Lead
    <3>5. /\ Seeking' /\ ~_first_edge' /\ received' = <<>> /\ _preamble_count' = 0
      BY <1>6, <3>1, HuntEdge
    <3> QED
      BY <1>3, <3>3, <3>4, <3>5 DEF OddBit, NewBit
  <2>3. CASE half_bit = 1 /\ ~toggle_next
    <3>1. NoEdge /\ tick_counter = 1
      BY <1>4, <2>0, <2>3
    <3>2. TickIdle \/ TickPickUp
      <4>1. ~TickWithinHalf /\ ~TickHalfBit /\ ~TickStopped
        BY <1>1, <2>3, <3>1, TickParts
      <4> QED
        BY <1>1, <1>9, <4>1 DEF Tick, TickPreamble, TickStartBit, TickData, TickEndBit
    <3>3. /\ state' \in {"IDLE", "PREAMBLE"} /\ half_bit' = 0 /\ current_bit_is_one'
          /\ ~railcom_cutout_arm_pending' /\ toggle_next'
      BY <3>2 DEF TickIdle, TickPickUp, TickFullBit, KeepsPacket
    <3>4. Leading' /\ Lead' <= 1
      <4>1. Lead = 0
        BY <1>9, <2>3 DEF Lead
      <4> QED
        BY <1>1, <1>2, <1>9, <4>1, LeadStep
    <3> QED
      BY <1>3, <1>7, <3>1, <3>3, <3>4 DEF OddBit, NewBit
  <2> QED
    BY <1>1, <2>1, <2>2, <2>3
<1> QED
  BY <1>8, <1>9 DEF OddBit
-----------------------------------------------------------------------------
(***************************************************************************)
(* In a packet.                                                            *)
(***************************************************************************)

\* The packet being sent fits the decoder's buffer and is made of bytes.
LEMMA SendingFacts ==
  ASSUME Shape, Wired, state # "IDLE"
  PROVE  /\ active_packet \in Packets /\ active_packet.data \in Seq(Nat)
         /\ Len(active_packet.data) \in 2..MaxBytes
         /\ \A k \in 1..Len(active_packet.data) : active_packet.data[k] \in 0..255
<1>1. active_packet \in Packets /\ ByteBits = 8
  BY DEF Shape, EncShape, Wired
<1>2. Len(active_packet.data) \in 2..MaxBytes
  BY <1>1 DEF Wired
<1>3. /\ active_packet.data \in Seq(Nat)
      /\ \A k \in 1..Len(active_packet.data) :
           active_packet.data[k] \in Nat /\ active_packet.data[k] < 2^8
  BY <1>1, PacketFacts
<1>4. ASSUME NEW k \in 1..Len(active_packet.data)
      PROVE  active_packet.data[k] \in 0..255
  <2>1. active_packet.data[k] \in Nat /\ active_packet.data[k] < 2^8
    BY <1>3
  <2>2. \A n \in Nat : n < 2^8 => n \in 0..255
    OBVIOUS
  <2> QED
    BY <2>1, <2>2
<1> QED
  BY <1>1, <1>2, <1>3, <1>4

\* A decoder that gets no bit keeps what it has of the packet.
LEMMA DecoderWaits ==
  ASSUME NEW i \in Nat, NEW b \in 0..7,
         UNCHANGED <<assembler, active_packet>>, NoEdge \/ EdgeSeen,
         since < Silence, ~cutout
  PROVE  /\ BeforeStart(i) => BeforeStart(i)'
         /\ BeforeData(i, b) => BeforeData(i, b)'
         /\ Splits(i) \/ Missed(8) => Splits(i)' \/ Missed(8)'
<1>1. /\ UNCHANGED <<_state, _preamble_count, _packet_buffer>>
      /\ UNCHANGED <<_current_byte, _bit_count, active_packet>>
  BY DEF assembler
<1>2. wrapped => wrapped'
  BY <1>1 DEF NoEdge, EdgeSeen
<1>3. spoilt' = spoilt
  BY DEF NoEdge, EdgeSeen
<1>4. Splits(i) => Splits(i)'
  BY <1>1 DEF Splits, Sent
<1>5. Missed(8) => Missed(8)'
  BY <1>1, <1>2, <1>3 DEF Missed, Seeking
<1>6. Missed(7 - b) => Missed(7 - b)'
  BY <1>1, <1>2, <1>3 DEF Missed, Seeking
<1>7. Takes(i, b) => Takes(i, b)'
  BY <1>1 DEF Takes, Sent, Data
<1>8. BeforeStart(i) => BeforeStart(i)'
  BY <1>1, <1>2, <1>3, <1>4, <1>5 DEF BeforeStart, Seeking
<1>9. BeforeData(i, b) => BeforeData(i, b)'
  BY <1>6, <1>7 DEF BeforeData
<1> QED
  BY <1>4, <1>5, <1>8, <1>9

\* A data bit: the decoder's byte grows by it, or is whole.
LEMMA DataArrives ==
  ASSUME Shape, Wired, EdgeSeen, ~_first_edge, ~cutout,
         UNCHANGED active_packet, state # "IDLE",
         NEW i \in Nat, i < Len(active_packet.data), NEW b \in 0..7,
         BeforeData(i, b), _first_half_type = Half(DataBit(i, b)),
         since = IF _first_half_type = "LONG" THEN 1 ELSE 0
  PROVE  /\ _first_half_type' = "NONE" /\ ~_first_edge' /\ received' = <<>>
         /\ b > 0 => BeforeData(i, b - 1)'
         /\ b = 0 => Splits(i + 1)' \/ Missed(8)'
<1>1. BitTypeOK /\ since < Silence
  BY DEF Shape, TypeOK, Silence, HalfBitMax, TickTime
<1>2. PICK one \in BOOLEAN : one <=> DataBit(i, b)
  BY DEF DataBit
<1>3. _on_bit(one) /\ _first_half_type' = "NONE"
  <2>1. CASE one
    <3>1. _first_half_type = "SHORT" /\ since = 0
      BY <1>2, <2>1 DEF Half
    <3>2. _on_bit(TRUE) /\ _first_half_type' = "NONE"
      BY <3>1, ShortEdge
    <3> QED
      BY <2>1, <3>2
  <2>2. CASE ~one
    <3>1. _first_half_type = "LONG" /\ since = 1
      BY <1>2, <2>2 DEF Half
    <3>2. _on_bit(FALSE) /\ _first_half_type' = "NONE"
      BY <3>1, LongEdge
    <3> QED
      BY <2>2, <3>2
  <2> QED
    BY <2>1, <2>2
<1>4. CASE Missed(7 - b)
  <2>1. 7 - b \in 0..8 /\ PreambleMin >= 10
    BY DEF Wired
  <2>2. /\ Seeking' /\ _preamble_count' \in {0, _preamble_count + 1}
        /\ wrapped' \/ spoilt' = 1
        /\ received' = <<>> /\ ~_first_edge'
    <3>1. CASE one
      BY <1>1, <1>3, <1>4, <2>1, <3>1, MissesOne
    <3>2. CASE ~one
      BY <1>1, <1>3, <1>4, <2>1, <3>2, MissesZero
    <3> QED
      BY <3>1, <3>2
  <2>3. _preamble_count <= 7 - b /\ _preamble_count \in Nat
    BY <1>1, <1>4 DEF Missed, BitTypeOK
  <2>4. b > 0 => Missed(7 - (b - 1))'
    BY <2>2, <2>3 DEF Missed
  <2>5. b = 0 => Missed(8)'
    BY <2>2, <2>3 DEF Missed
  <2> QED
    BY <1>3, <2>2, <2>4, <2>5 DEF BeforeData
<1>5. CASE Takes(i, b)
  <2> DEFINE d == active_packet.data[i + 1]
  <2>1. d \in 0..255 /\ active_packet.data \in Seq(Nat)
    BY SendingFacts
  <2>2. /\ _state = "ACCUMULATING" /\ _bit_count = 7 - b
        /\ _packet_buffer = Sent(i) /\ _current_byte = d \div 2^(b + 1)
    BY <1>5 DEF Takes, Data
  <2>3. /\ received' = <<>> /\ ~_first_edge'
        /\ _bit_count' = _bit_count + 1
        /\ _current_byte' = (2 * _current_byte + (IF one THEN 1 ELSE 0)) % 256
        /\ _bit_count < 7 => _state' = _state /\ _packet_buffer' = _packet_buffer
        /\ _bit_count >= 7 =>
             /\ _state' = "SEPARATOR"
             /\ _packet_buffer' = Append(_packet_buffer, _current_byte')
    BY <1>1, <1>3, <2>2, TakeBit
  <2>4. _current_byte' = d \div 2^b
    <3>1. one <=> (d \div 2^b) % 2 = 1
      BY <1>2 DEF DataBit
    <3>2. (2 * (d \div 2^(b + 1)) + (IF (d \div 2^b) % 2 = 1 THEN 1 ELSE 0)) % 256
            = d \div 2^b
      BY <2>1, BitShifts
    <3> HIDE DEF d
    <3> QED
      BY <2>2, <2>3, <3>1, <3>2
  <2>5. ASSUME b > 0 PROVE BeforeData(i, b - 1)'
    <3>1. /\ _state' = "ACCUMULATING" /\ _packet_buffer' = Sent(i)
          /\ _bit_count' = 7 - (b - 1)
      BY <2>2, <2>3, <2>5
    <3>2. (b - 1) + 1 = b
      OBVIOUS
    <3> QED
      BY <2>4, <3>1, <3>2 DEF BeforeData, Takes, Sent, Data
  <2>6. ASSUME b = 0 PROVE Splits(i + 1)'
    <3>1. _current_byte' = d
      <4>1. d \div 2^0 = d
        BY <2>1, TopAndBottom
      <4> QED
        BY <2>4, <2>6, <4>1
    <3>2. _state' = "SEPARATOR" /\ _packet_buffer' = Append(Sent(i), d)
      BY <2>2, <2>3, <2>6, <3>1
    <3>3. Append(Sent(i), d) = SubSeq(active_packet.data, 1, i + 1)
      BY <2>1 DEF Sent
    <3> QED
      BY <3>2, <3>3 DEF Splits, Sent
  <2> QED
    BY <1>3, <2>3, <2>5, <2>6
<1> QED
  BY <1>4, <1>5 DEF BeforeData

\* A start bit: the decoder begins a byte, or goes on missing the packet.
LEMMA StartArrives ==
  ASSUME Shape, Wired, EdgeSeen, ~_first_edge, ~cutout,
         UNCHANGED active_packet, state # "IDLE",
         NEW i \in Nat, i < Len(active_packet.data),
         BeforeStart(i), _first_half_type = "LONG", since = 1
  PROVE  /\ _first_half_type' = "NONE" /\ ~_first_edge' /\ received' = <<>>
         /\ BeforeData(i, 7)'
<1>1. BitTypeOK /\ since < Silence /\ _preamble_count \in Nat
  BY DEF Shape, TypeOK, BitTypeOK, Silence, HalfBitMax, TickTime
<1>2. _on_bit(FALSE) /\ _first_half_type' = "NONE"
  BY LongEdge
<1>3. /\ active_packet.data \in Seq(Nat) /\ active_packet.data[i + 1] \in 0..255
      /\ Len(active_packet.data) <= MaxBytes
  BY SendingFacts
<1>4. ASSUME /\ _state' = "ACCUMULATING" /\ _bit_count' = 0 /\ _current_byte' = 0
             /\ _packet_buffer' = Sent(i)
      PROVE  BeforeData(i, 7)'
  <2>1. active_packet.data[i + 1] \div 2^8 = 0
    BY <1>3, TopAndBottom
  <2>2. 7 + 1 = 8 /\ 7 - 7 = 0
    OBVIOUS
  <2> QED
    BY <1>4, <2>1, <2>2 DEF BeforeData, Takes, Sent, Data
<1>5. ASSUME NEW k \in 0..8, Missed(k)
      PROVE  received' = <<>> /\ ~_first_edge' /\ BeforeData(i, 7)'
  <2>1. PreambleMin >= 10
    BY DEF Wired
  <2>2. /\ Seeking' /\ _preamble_count' = 0 /\ (wrapped' \/ spoilt' = 1)
        /\ received' = <<>> /\ ~_first_edge'
    BY <1>1, <1>2, <1>5, <2>1, MissesZero
  <2>3. 0 <= 7 - 7
    OBVIOUS
  <2>4. Missed(7 - 7)'
    BY <2>2, <2>3 DEF Missed
  <2> QED
    BY <2>2, <2>4 DEF BeforeData
<1>6. CASE Seeking /\ i = 0
  <2>1. /\ received' = <<>> /\ ~_first_edge'
        /\ _preamble_count < PreambleMin => Seeking' /\ _preamble_count' = 0
        /\ _preamble_count >= PreambleMin =>
             /\ _state' = "ACCUMULATING" /\ _bit_count' = 0 /\ _current_byte' = 0
             /\ _packet_buffer' = <<>>
    BY <1>1, <1>2, <1>6, SeekZero
  <2>2. CASE _preamble_count >= PreambleMin
    <3>1. Sent(i) = <<>>
      BY <1>3, <1>6 DEF Sent
    <3> QED
      BY <1>2, <1>4, <2>1, <2>2, <3>1
  <2>3. CASE _preamble_count < PreambleMin
    <3>1. wrapped \/ spoilt = 1
      BY <1>1, <1>6, <2>3, BitDecoderAssumption DEF BeforeStart
    <3>2. Seeking' /\ _preamble_count' = 0
      BY <2>1, <2>3
    <3>3. wrapped' \/ spoilt' = 1
      <4>1. wrapped => wrapped'
        BY <1>1, <1>6, <3>2 DEF EdgeSeen, Seeking
      <4>2. spoilt' = spoilt
        BY DEF EdgeSeen
      <4> QED
        BY <3>1, <4>1, <4>2
    <3> QED
      BY <1>2, <2>1, <3>2, <3>3 DEF BeforeData, Missed
  <2> QED
    BY <1>1, <2>2, <2>3, BitDecoderAssumption
<1>7. CASE Splits(i)
  <2>1. _state = "SEPARATOR" /\ _packet_buffer = Sent(i)
    BY <1>7 DEF Splits
  <2>2. Len(Sent(i)) = i
    BY <1>3 DEF Sent
  <2>3. Len(_packet_buffer) < MaxBytes
    BY <1>3, <2>1, <2>2, BitDecoderAssumption
  <2>4. /\ received' = <<>> /\ ~_first_edge' /\ _packet_buffer' = Sent(i)
        /\ _state' = "ACCUMULATING" /\ _bit_count' = 0 /\ _current_byte' = 0
    BY <1>1, <1>2, <2>1, <2>3, NextByte
  <2> QED
    BY <1>2, <1>4, <2>4
<1> QED
  BY <1>2, <1>5, <1>6, <1>7 DEF BeforeStart

\* A bit is over: the next one begins, and the half that waits is the one whose
\* other half its first edge will end.
LEMMA BitOver ==
  ASSUME Shape, Wired, Tick, running, HalfEnds, half_bit = 1, InFrame,
         state # "END_BIT", Position, UNCHANGED assembler, NoEdge \/ EdgeSeen,
         since < Silence, ~cutout,
         _first_half_type' = Half(current_bit_is_one)
  PROVE  /\ InFrame' /\ NewBit' /\ LastHalf'
         /\ ~railcom_cutout_arm_pending'
<1>1. /\ byte_index \in Nat /\ bit_index \in 0..7
      /\ active_packet.data \in Seq(Nat) /\ state # "IDLE"
  BY SendingFacts DEF Shape, TypeOK, EncTypeOK, Wired, InFrame
<1>2. TickStartBit \/ TickData
  <2>1. ~TickWithinHalf /\ ~TickHalfBit /\ ~TickStopped
    BY TickParts
  <2> QED
    BY <2>1 DEF Tick, InFrame, TickIdle, TickPickUp, TickPreamble, TickEndBit
<1>3. /\ half_bit' = 0 /\ toggle_next' /\ active_packet' = active_packet
      /\ ~railcom_cutout_arm_pending'
  BY <1>2 DEF TickStartBit, TickData, TickFullBit, KeepsPacket, buffer
<1>4. NewBit'
  BY <1>3 DEF NewBit
<1>5. CASE TickStartBit
  <2>1. /\ state = "START_BIT" /\ state' = "DATA" /\ bit_index' = 7
        /\ byte_index' = byte_index
    BY <1>5 DEF TickStartBit, TickFullBit, Wired
  <2>2. ~current_bit_is_one
    BY <2>1 DEF Shape, EncShape
  <2>3. BeforeStart(byte_index)
    BY <2>1 DEF Position
  <2>4. PICK i \in Nat : i = byte_index
    BY <1>1
  <2>5. BeforeStart(i)'
    BY <1>3, <2>3, <2>4, DecoderWaits
  <2>6. LastHalf'
    BY <2>1, <2>2, <2>4, <2>5 DEF LastHalf, Half
  <2> QED
    BY <1>3, <1>4, <2>1, <2>6 DEF InFrame, FirstStart
<1>6. CASE TickData
  <2>1. state = "DATA" /\ BeforeData(byte_index, bit_index)
    BY <1>6 DEF TickData, Position
  <2>2. PICK i \in Nat, b \in 0..7 : i = byte_index /\ b = bit_index
    BY <1>1
  <2>3. BeforeData(i, b)'
    BY <1>3, <2>1, <2>2, DecoderWaits
  <2>4. _first_half_type' = Half(DataBit(i, b))'
    <3>1. current_bit_is_one <=> DataBit(i, b)
      BY <2>1, <2>2 DEF Shape, EncShape
    <3>2. DataBit(i, b)' <=> DataBit(i, b)
      BY <1>3 DEF DataBit
    <3> QED
      BY <3>1, <3>2 DEF Half
  <2>5. CASE b > 0
    <3>1. state' = "DATA" /\ bit_index' = b - 1 /\ byte_index' = i
      <4>1. bit_index > 0 /\ bit_index # 0
        BY <2>2, <2>5
      <4>2. state' = "DATA" /\ bit_index' = bit_index - 1 /\ byte_index' = byte_index
        BY <1>6, <4>1 DEF TickData, TickFullBit
      <4> QED
        BY <2>2, <4>2
    <3>2. (b - 1) + 1 = b /\ b - 1 < 7
      OBVIOUS
    <3>3. LastHalf'
      BY <2>3, <2>4, <3>1, <3>2 DEF LastHalf
    <3> QED
      BY <1>3, <1>4, <3>1, <3>3 DEF InFrame, FirstStart
  <2>6. CASE b = 0
    <3>1. state' \in {"START_BIT", "END_BIT"} /\ byte_index' = i + 1
      <4>1. bit_index = 0 /\ ~(bit_index > 0)
        BY <2>2, <2>6
      <4>2. state' \in {"START_BIT", "END_BIT"} /\ byte_index' = byte_index + 1
        BY <1>6, <4>1 DEF TickData, TickFullBit
      <4> QED
        BY <2>2, <4>2
    <3>2. (i + 1) - 1 = i /\ i + 1 # 0
      OBVIOUS
    <3>3. LastHalf'
      BY <2>3, <2>4, <2>6, <3>1, <3>2 DEF LastHalf
    <3> QED
      BY <1>3, <1>4, <3>1, <3>2, <3>3 DEF InFrame, FirstStart
  <2> QED
    BY <2>5, <2>6
<1> QED
  BY <1>2, <1>5, <1>6

LEMMA FrameFacts ==
  ASSUME Shape, Wired, DarkOK, running, InFrame, Frame
  PROVE  /\ state \in {"START_BIT", "DATA", "END_BIT"} /\ state # "IDLE"
         /\ ~railcom_cutout_arm_pending /\ ~cutout /\ ~_first_edge
         /\ dark = 0 /\ since \in {0, 1} /\ since < Silence
         /\ half_bit \in 0..1 /\ byte_index \in Nat /\ bit_index \in 0..7
         /\ IF toggle_next THEN tick_counter = 0
            ELSE tick_counter = 1 /\ ~current_bit_is_one
<1>1. state \in {"START_BIT", "DATA", "END_BIT"} /\ state # "IDLE"
  BY DEF InFrame
<1>2. ~railcom_cutout_arm_pending /\ ~cutout
  BY <1>1 DEF DarkOK, Shape, EncShape
<1>3. ~_first_edge /\ dark = 0 /\ since \in {0, 1}
  BY DEF Frame, OnBeat
<1>4. since < Silence
  BY <1>3 DEF Silence, HalfBitMax, TickTime
<1>5. half_bit \in 0..1 /\ byte_index \in Nat /\ bit_index \in 0..7
  BY DEF Shape, TypeOK, EncTypeOK, Wired
<1>6. IF toggle_next THEN tick_counter = 0
      ELSE tick_counter = 1 /\ ~current_bit_is_one
  BY <1>1 DEF Shape, EncShape, Regular, FirstTick
<1> QED
  BY <1>1, <1>2, <1>3, <1>4, <1>5, <1>6

\* While no bit is complete the decoder's place in the packet stays.
LEMMA PositionWaits ==
  ASSUME Shape, Wired, InFrame, Position, NoEdge \/ EdgeSeen,
         UNCHANGED <<state, byte_index, bit_index, active_packet, assembler>>,
         since < Silence, ~cutout
  PROVE  Position'
<1>0. byte_index \in Nat /\ bit_index \in 0..7
  BY DEF Shape, TypeOK, EncTypeOK, Wired
<1>1. PICK i \in Nat, b \in 0..7 : i = byte_index /\ b = bit_index
  BY <1>0
<1>2. /\ BeforeStart(i) => BeforeStart(i)'
      /\ BeforeData(i, b) => BeforeData(i, b)'
      /\ Splits(i) \/ Missed(8) => Splits(i)' \/ Missed(8)'
  BY DecoderWaits
<1>3. byte_index' = i /\ bit_index' = b /\ state' = state
  BY <1>1
<1> QED
  BY <1>1, <1>2, <1>3 DEF Position

\* The middle of a zero's halves: no edge.
LEMMA FrameQuiet ==
  ASSUME Shape, Wired, DarkOK, TimerIsr, running, InFrame, Frame, NoEdge
  PROVE  InFrame' /\ Frame' /\ received' = <<>>
<1>1. /\ state \in {"START_BIT", "DATA", "END_BIT"} /\ state # "IDLE"
      /\ ~railcom_cutout_arm_pending /\ ~cutout /\ ~_first_edge
      /\ dark = 0 /\ since \in {0, 1} /\ since < Silence /\ half_bit \in 0..1
  BY FrameFacts
<1>2. ~toggle_next /\ tick_counter = 1 /\ ~current_bit_is_one
  <2>1. ~toggle_next
    BY <1>1, TimerFacts
  <2> QED
    BY <2>1, FrameFacts
<1>3. Tick /\ dark' = 0
  BY <1>1, TimerFacts DEF TimerIsr
<1>4. since = 0 /\ ThisBit
  BY <1>2 DEF Frame, OnBeat, NewBit
<1>5. /\ received' = <<>> /\ since' = 1
      /\ UNCHANGED <<_first_edge, _first_half_type, assembler>>
  BY <1>1, <1>4 DEF NoEdge
<1>6. CASE half_bit = 0
  <2>1. TickHalfBit
    BY <1>2, <1>3, <1>6, TickParts
  <2>2. /\ half_bit' = 1 /\ toggle_next' /\ ~current_bit_is_one'
        /\ UNCHANGED <<state, byte_index, bit_index, active_packet>>
    BY <1>2, <1>6, <2>1 DEF TickHalfBit, position, buffer
  <2>3. Position'
    BY <1>1, <1>4, <1>5, <2>2, PositionWaits DEF ThisBit
  <2>4. _first_half_type = "NONE" \/ (FirstStart /\ _first_half_type = "SHORT")
    BY <1>4, <1>6 DEF ThisBit
  <2>5. ThisBit'
    BY <1>5, <2>2, <2>3, <2>4 DEF ThisBit, FirstStart
  <2> QED
    BY <1>1, <1>3, <1>5, <2>2, <2>5 DEF InFrame, Frame, NewBit, OnBeat
<1>7. CASE half_bit = 1
  <2>1. HalfEnds
    BY <1>2, <1>3, TickParts
  <2>2. _first_half_type = "LONG" /\ Position /\ state # "END_BIT"
    BY <1>2, <1>4, <1>7 DEF ThisBit, Shape, EncShape
  <2>3. _first_half_type' = "LONG" /\ _first_half_type' = Half(current_bit_is_one)
    BY <1>2, <1>5, <2>2 DEF Half
  <2>4. InFrame' /\ NewBit' /\ LastHalf'
    BY <1>1, <1>3, <1>5, <1>7, <2>1, <2>2, <2>3, BitOver
  <2> QED
    BY <1>1, <1>3, <1>5, <2>3, <2>4 DEF Frame, NewBit, OnBeat
<1> QED
  BY <1>1, <1>6, <1>7

\* A new bit's first edge completes the bit before it for the decoder.
LEMMA FrameNewBit ==
  ASSUME Shape, Wired, DarkOK, TimerIsr, running, InFrame, Frame, NewBit,
         EdgeSeen
  PROVE  InFrame' /\ Frame' /\ received' = <<>>
<1>1. /\ state \in {"START_BIT", "DATA", "END_BIT"} /\ state # "IDLE"
      /\ ~railcom_cutout_arm_pending /\ ~cutout /\ ~_first_edge /\ dark = 0
      /\ byte_index \in Nat /\ bit_index \in 0..7 /\ tick_counter = 0
      /\ half_bit = 0 /\ toggle_next
  BY FrameFacts DEF NewBit
<1>2. Tick /\ dark' = 0 /\ since' = 0
  BY <1>1, TimerFacts DEF TimerIsr, EdgeSeen
<1>3. LastHalf /\ since = IF _first_half_type = "LONG" THEN 1 ELSE 0
  BY <1>1 DEF Frame, OnBeat
<1>4. /\ UNCHANGED <<state, byte_index, bit_index, active_packet, current_bit_is_one>>
      /\ ~(half_bit' = 0 /\ toggle_next')
      /\ ~(half_bit' = 1 /\ ~toggle_next')
      /\ half_bit' = 1 => toggle_next' /\ current_bit_is_one
      /\ half_bit' \in 0..1
  <2>1. CASE current_bit_is_one
    <3>1. TickHalfBit
      BY <1>1, <1>2, <2>1, TickParts
    <3> QED
      BY <1>1, <2>1, <3>1 DEF TickHalfBit, position, buffer
  <2>2. CASE ~current_bit_is_one
    <3>1. TickWithinHalf
      BY <1>1, <1>2, <2>2, TickParts
    <3> QED
      BY <1>1, <2>2, <3>1 DEF TickWithinHalf, position, buffer
  <2> QED
    BY <2>1, <2>2
<1>5. /\ Position' /\ _first_half_type' = "NONE" /\ ~_first_edge'
      /\ received' = <<>>
  <2>0. PICK i \in Nat, b \in 0..7 : i = byte_index /\ b = bit_index
    BY <1>1
  <2>1. CASE state \in {"START_BIT", "END_BIT"}
    <3>1. i # 0 /\ i <= Len(active_packet.data) /\ Len(active_packet.data) \in Nat
      <4>1. Len(active_packet.data) \in 2..MaxBytes /\ MaxBytes \in Nat
        BY <1>1, SendingFacts, BitDecoderAssumption
      <4>2. state = "START_BIT" => i < Len(active_packet.data) /\ i # 0
        BY <1>1, <2>0 DEF InFrame, FirstStart, NewBit, Shape, EncShape
      <4>3. state = "END_BIT" => i = Len(active_packet.data)
        BY <2>0 DEF Shape, EncShape
      <4> QED
        BY <2>1, <4>1, <4>2, <4>3
    <3>2. PICK h \in Nat : i = h + 1 /\ i - 1 = h /\ h < Len(active_packet.data)
      <4>1. i - 1 \in Nat /\ i = (i - 1) + 1 /\ i - 1 < Len(active_packet.data)
        BY <3>1
      <4> QED
        BY <4>1
    <3>3. BeforeData(h, 0) /\ _first_half_type = Half(DataBit(h, 0))
      BY <1>3, <2>0, <2>1, <3>2 DEF LastHalf
    <3>4. /\ _first_half_type' = "NONE" /\ ~_first_edge' /\ received' = <<>>
          /\ Splits(h + 1)' \/ Missed(8)'
      BY <1>1, <1>3, <1>4, <3>2, <3>3, DataArrives
    <3>5. Splits(i)' \/ Missed(8)'
      BY <3>2, <3>4
    <3>6. byte_index' = i /\ state' = state /\ i > 0
      BY <1>4, <2>0, <3>1
    <3>7. Position'
      BY <2>1, <3>5, <3>6 DEF Position, BeforeStart
    <3> QED
      BY <3>4, <3>7
  <2>2. CASE state = "DATA"
    <3>1. i < Len(active_packet.data)
      BY <2>0, <2>2 DEF Shape, EncShape
    <3>2. byte_index' = i /\ bit_index' = b /\ state' = "DATA"
      BY <1>4, <2>0, <2>2
    <3>3. CASE b = 7
      <4>1. BeforeStart(i) /\ _first_half_type = "LONG"
        BY <1>3, <2>0, <2>2, <3>3 DEF LastHalf
      <4>2. /\ _first_half_type' = "NONE" /\ ~_first_edge' /\ received' = <<>>
            /\ BeforeData(i, 7)'
        BY <1>1, <1>3, <1>4, <3>1, <4>1, StartArrives
      <4> QED
        BY <3>2, <3>3, <4>2 DEF Position
    <3>4. CASE b < 7
      <4>1. PICK c \in 0..7 : c = b + 1 /\ c > 0 /\ c - 1 = b
        BY <3>4
      <4>2. BeforeData(i, c) /\ _first_half_type = Half(DataBit(i, c))
        BY <1>3, <2>0, <2>2, <3>4, <4>1 DEF LastHalf
      <4>3. /\ _first_half_type' = "NONE" /\ ~_first_edge' /\ received' = <<>>
            /\ BeforeData(i, c - 1)'
        BY <1>1, <1>3, <1>4, <3>1, <4>1, <4>2, DataArrives
      <4>4. BeforeData(i, b)'
        BY <4>1, <4>3
      <4> QED
        BY <3>2, <4>3, <4>4 DEF Position
    <3> QED
      BY <3>3, <3>4
  <2> QED
    BY <1>1, <2>1, <2>2
<1>6. ThisBit'
  BY <1>4, <1>5 DEF ThisBit
<1> QED
  BY <1>1, <1>2, <1>4, <1>5, <1>6 DEF InFrame, Frame, NewBit, OnBeat

\* The edge in the middle of a bit, and the packet's last but one.
LEMMA FrameHalf ==
  ASSUME Shape, Wired, DarkOK, TimerIsr, running, InFrame, Frame, ~NewBit,
         EdgeSeen
  PROVE  /\ received' = <<>>
         /\ \/ InFrame' /\ Frame'
            \/ railcom_cutout_arm_pending' /\ Ending'
<1>1. /\ state \in {"START_BIT", "DATA", "END_BIT"} /\ state # "IDLE"
      /\ ~railcom_cutout_arm_pending /\ ~cutout /\ ~_first_edge /\ dark = 0
      /\ byte_index \in Nat /\ bit_index \in 0..7 /\ since < Silence
      /\ half_bit \in 0..1
  BY FrameFacts
<1>2. toggle_next /\ tick_counter = 0 /\ half_bit = 1
  <2>1. toggle_next
    BY <1>1, TimerFacts
  <2> QED
    BY <1>1, <2>1, FrameFacts DEF NewBit
<1>3. Tick /\ dark' = 0 /\ since' = 0
  BY <1>1, TimerFacts DEF TimerIsr, EdgeSeen
<1>4. /\ Position
      /\ _first_half_type = "NONE" \/ (FirstStart /\ _first_half_type = "SHORT")
  BY <1>2 DEF Frame, ThisBit
<1>5. since = IF current_bit_is_one THEN 0 ELSE 1
  BY <1>2 DEF Frame, OnBeat
<1>6. CASE ~current_bit_is_one
  <2>1. /\ _first_half_type' = "LONG" /\ UNCHANGED <<assembler, _first_edge>>
        /\ received' = <<>>
    BY <1>1, <1>4, <1>5, <1>6, LongEdge
  <2>2. TickWithinHalf
    BY <1>2, <1>3, <1>6, TickParts
  <2>3. /\ half_bit' = 1 /\ ~toggle_next'
        /\ UNCHANGED <<state, byte_index, bit_index, active_packet>>
    BY <1>2, <2>2 DEF TickWithinHalf, position, buffer
  <2>4. Position'
    BY <1>1, <1>4, <2>1, <2>3, PositionWaits
  <2>5. ThisBit'
    BY <2>1, <2>3, <2>4 DEF ThisBit
  <2> QED
    BY <1>1, <1>3, <2>1, <2>3, <2>5 DEF InFrame, Frame, NewBit, OnBeat
<1>7. CASE current_bit_is_one
  <2>1. _first_half_type = "NONE" /\ since = 0
    BY <1>4, <1>5, <1>7 DEF FirstStart, Shape, EncShape
  <2>2. /\ _first_half_type' = "SHORT" /\ UNCHANGED <<assembler, _first_edge>>
        /\ received' = <<>>
    BY <1>1, <2>1, ShortEdge
  <2>3. HalfEnds
    BY <1>3, <1>7, TickParts
  <2>4. CASE state # "END_BIT"
    <3>1. _first_half_type' = Half(current_bit_is_one)
      BY <1>7, <2>2 DEF Half
    <3>2. InFrame' /\ NewBit' /\ LastHalf'
      BY <1>1, <1>2, <1>3, <1>4, <2>2, <2>3, <2>4, <3>1, BitOver
    <3> QED
      BY <1>1, <1>3, <2>2, <3>2 DEF Frame, NewBit, OnBeat
  <2>5. CASE state = "END_BIT"
    <3>1. TickEndBit
      <4>1. ~TickWithinHalf /\ ~TickHalfBit /\ ~TickStopped
        BY <1>2, <1>3, <2>3, TickParts
      <4> QED
        BY <1>3, <2>5, <4>1 DEF Tick, TickIdle, TickPickUp, TickPreamble,
                                TickStartBit, TickData
    <3>2. /\ railcom_cutout_arm_pending' /\ active_packet' = active_packet
          /\ Completes
      BY <2>5, <3>1 DEF TickEndBit, TickFullBit, Completes, buffer, Wired
    <3>3. finished' = active_packet.data
      BY <3>2 DEF TimerIsr
    <3>4. PICK i \in Nat : i = byte_index
      BY <1>1
    <3>5. /\ active_packet.data \in Seq(Nat)
          /\ Len(active_packet.data) >= 2 /\ i = Len(active_packet.data)
      <4>1. Len(active_packet.data) \in 2..MaxBytes /\ MaxBytes \in Nat
        BY <1>1, SendingFacts, BitDecoderAssumption
      <4> QED
        BY <1>1, <2>5, <3>4, <4>1, SendingFacts DEF Shape, EncShape
    <3>6. Splits(i)' \/ Missed(8)'
      <4>1. Splits(i) \/ Missed(8)
        BY <1>4, <2>5, <3>4 DEF Position
      <4>2. 0 \in 0..7
        OBVIOUS
      <4> QED
        BY <1>1, <2>2, <3>2, <4>1, <4>2, DecoderWaits
    <3>7. Splits(i)' => _state' = "SEPARATOR" /\ _packet_buffer' = finished'
      <4>1. SubSeq(active_packet.data, 1, i) = active_packet.data
        BY <3>5
      <4> QED
        BY <3>2, <3>3, <4>1 DEF Splits, Sent
    <3>8. Len(finished') >= 2
      BY <3>3, <3>5
    <3>9. Ending'
      BY <1>1, <1>3, <2>2, <3>6, <3>7, <3>8 DEF Ending
    <3> QED
      BY <2>2, <3>2, <3>9
  <2> QED
    BY <2>4, <2>5
<1> QED
  BY <1>6, <1>7

\* In a packet, whatever the tick.
LEMMA FromFrame ==
  ASSUME Shape, Wired, DarkOK, TimerIsr, running, InFrame, Frame,
         EdgeSeen \/ NoEdge
  PROVE  /\ received' = <<>>
         /\ \/ InFrame' /\ Frame'
            \/ railcom_cutout_arm_pending' /\ Ending'
BY FrameQuiet, FrameNewBit, FrameHalf

\* The tick that arms the cutout: the edge before it was the packet's last.
LEMMA CutoutBegins ==
  ASSUME Shape, Wired, TimerIsr, running, railcom_cutout_arm_pending, ~cutout,
         (Ending /\ spoilt # 2) \/ (spoilt = 2 /\ dark = 0)
  PROVE  /\ cutout' /\ DarkOK'
         /\ Owed' # 2 => Leading' /\ Hidden'
         /\ FramesAreThePackets' /\ CutoutOnLastEdge'
<1>1. /\ state = "IDLE" /\ half_bit = 0 /\ toggle_next /\ current_bit_is_one
      /\ CutoutTicks \in Nat /\ CutoutTicks # 0 /\ BitTypeOK /\ Tick /\ dark = 0
      /\ spoilt \in 0..2
  BY CutoutTicksAssumption
  DEF Shape, TypeOK, EncShape, NewBit, Wired, TimerIsr, Ending
<1>2. TickHalfBit
  BY <1>1, TickParts
<1>3. /\ state' = "IDLE" /\ half_bit' = 1 /\ running' /\ current_bit_is_one'
      /\ ~railcom_cutout_arm_pending'
  BY <1>1, <1>2 DEF TickHalfBit
<1>4. cutout' /\ dark' = CutoutTicks
  BY TimerFacts
<1>5. Leading' /\ Lead' = 0
  BY <1>3 DEF Leading, Lead
<1>6. DarkOK'
  BY <1>1, <1>3, <1>4, <1>5 DEF DarkOK
<1>7. EdgeSeen \/ (EdgeLost /\ spoilt = 0)
  BY <1>1, TimerFacts DEF EdgeLost
<1>8. CASE spoilt = 2 /\ EdgeSeen
  <2>1. spoilt' = 2 /\ Owed' = 1
    BY <1>4, <1>8 DEF EdgeSeen, Owed
  <2>2. Hidden'
    BY <1>1, <1>3, <1>4, <1>5, <2>1 DEF Hidden
  <2> QED
    BY <1>4, <1>5, <1>6, <2>1, <2>2 DEF FramesAreThePackets, CutoutOnLastEdge, Clean
<1>9. CASE EdgeLost
  <2>1. spoilt' = 2 /\ Owed' = 1
    BY <1>4, <1>9 DEF EdgeLost, Owed
  <2>2. Hidden'
    BY <1>1, <1>3, <1>4, <1>5, <2>1 DEF Hidden
  <2> QED
    BY <1>4, <1>5, <1>6, <2>1, <2>2 DEF FramesAreThePackets, CutoutOnLastEdge, Clean
<1>10. CASE Ending /\ spoilt \in {0, 1} /\ EdgeSeen
  <2>1. /\ _on_bit(TRUE) /\ _first_half_type' = "NONE"
    BY <1>10, ShortEdge DEF Ending
  <2>2. spoilt' = spoilt
    BY <1>10 DEF EdgeSeen
  <2>3. Owed' = 0
    BY <1>4, <1>10, <2>2 DEF Owed
  <2>4. finished' = finished
    <3>1. ~Completes
      BY <1>1 DEF Completes
    <3> QED
      BY <1>10, <3>1 DEF TimerIsr, Ending
  <2>5. CASE _state = "SEPARATOR" /\ _packet_buffer = finished /\ Len(finished) >= 2
    <3>1. received' = finished /\ Seeking' /\ _preamble_count' = 0
      BY <2>1, <2>5, LastBit DEF Wired
    <3>2. received' # <<>>
      BY <2>5, <3>1
    <3>3. Hidden'
      BY <1>1, <1>3, <1>4, <1>5, <2>1, <3>1 DEF Hidden
    <3> QED
      BY <1>4, <1>5, <1>6, <2>4, <3>1, <3>2, <3>3
      DEF FramesAreThePackets, CutoutOnLastEdge
  <2>6. CASE Missed(8)
    <3>1. /\ Seeking' /\ _preamble_count' = _preamble_count + 1
          /\ wrapped' \/ spoilt' = 1
          /\ received' = <<>>
      <4>1. since < Silence
        BY <1>10 DEF Ending, Silence, HalfBitMax, TickTime
      <4>2. PreambleMin >= 10 /\ 8 \in 0..8
        BY DEF Wired
      <4> QED
        BY <1>1, <1>10, <2>1, <2>6, <4>1, <4>2, MissesOne
    <3>2. _preamble_count' <= 9
      BY <1>1, <2>6, <3>1 DEF Missed, BitTypeOK
    <3>3. Hidden'
      BY <1>1, <1>3, <1>4, <1>5, <2>1, <3>1, <3>2 DEF Hidden
    <3> QED
      BY <1>4, <1>5, <1>6, <3>1, <3>3
      DEF FramesAreThePackets, CutoutOnLastEdge, Clean
  <2> QED
    BY <1>10, <2>5, <2>6 DEF Ending
<1> QED
  BY <1>1, <1>7, <1>8, <1>9, <1>10
-----------------------------------------------------------------------------
(***************************************************************************)
(* The invariant of both ends.                                             *)
(***************************************************************************)

\* What a cutout hides ends before the preamble does.
LEMMA CutoutEnds ==
  ASSUME Shape, Wired, DarkOK, TimerIsr, running, ~railcom_cutout_arm_pending
  PROVE  DarkOK'
<1>1. /\ ~cutout' /\ dark \in 0..CutoutTicks /\ CutoutTicks \in Nat /\ Tick
      /\ dark' = IF dark > 0 THEN dark - 1 ELSE dark
  BY TimerFacts, CutoutTicksAssumption DEF Shape, TypeOK, TimerIsr
<1> SUFFICES ASSUME dark' > 0
             PROVE  /\ state' \in {"IDLE", "PREAMBLE"}
                    /\ ~railcom_cutout_arm_pending'
                    /\ CutoutTicks - dark' >= Lead'
  BY <1>1 DEF DarkOK
<1>2. /\ dark > 0 /\ dark' = dark - 1 /\ dark \in Nat
      /\ state \in {"IDLE", "PREAMBLE"} /\ CutoutTicks - dark >= Lead
  BY <1>1 DEF DarkOK
<1>3. /\ Leading' /\ Lead \in Nat /\ Lead' \in Nat /\ Lead' <= Lead + 1
      /\ ~railcom_cutout_arm_pending'
      /\ state' = "START_BIT" => Lead' = 2 * active_packet'.preamble_bits + 1
  BY <1>1, <1>2, LeadStep
<1>4. CutoutTicks - dark' >= Lead'
  BY <1>1, <1>2, <1>3
<1>5. state' # "START_BIT"
  <2> SUFFICES ASSUME state' = "START_BIT" PROVE FALSE
    OBVIOUS
  <2>1. active_packet' \in Packets
    BY TimerShape DEF Shape, EncShape
  <2>2. /\ 2 * active_packet'.preamble_bits + 1 >= 2 * PreambleMin + CutoutTicks
        /\ active_packet'.preamble_bits \in Nat /\ PreambleMin \in Nat
        /\ PreambleMin >= 10
    BY <2>1, PacketFacts, BitDecoderAssumption DEF Wired
  <2> QED
    BY <1>1, <1>2, <1>3, <1>4, <2>2
<1>6. state' \in {"IDLE", "PREAMBLE"}
  BY <1>3, <1>5 DEF Leading, FirstStart
<1> QED
  BY <1>3, <1>4, <1>6

\* A tick that arms no cutout: the decoder gets no packet it need get right.
LEMMA QuietTick ==
  ASSUME Shape, Wired, WaveInv, TimerIsr, running, ~railcom_cutout_arm_pending
  PROVE  /\ Owed' # 2 => Follows'
         /\ received' = <<>> \/ spoilt' # 0
<1>1. /\ Owed' = spoilt' /\ (EdgeSeen \/ EdgeLost \/ NoEdge)
      /\ EdgeLost => spoilt' = 2 /\ received' = <<>>
      /\ EdgeSeen \/ NoEdge => spoilt' = Owed
  BY TimerFacts
<1>2. CASE EdgeLost
  BY <1>1, <1>2
<1>3. CASE (EdgeSeen \/ NoEdge) /\ Owed = 2
  BY <1>1, <1>3
<1>4. CASE (EdgeSeen \/ NoEdge) /\ Owed # 2
  <2>1. Follows /\ DarkOK /\ CutoutTicks # 0
    BY <1>4 DEF WaveInv, Wired
  <2>2. CASE JustStarted
    <3>1. ~NoEdge
      BY <2>2, TimerFacts DEF JustStarted, FirstTick, NewBit
    <3>2. Leading' /\ (Visible' \/ OddBit') /\ received' = <<>>
      BY <1>4, <2>1, <2>2, <3>1, FromStart
    <3> QED
      BY <3>2 DEF Follows
  <2>3. CASE InFrame /\ Frame
    <3>1. /\ received' = <<>>
          /\ \/ InFrame' /\ Frame'
             \/ railcom_cutout_arm_pending' /\ Ending'
      BY <1>4, <2>1, <2>3, FromFrame
    <3> QED
      BY <3>1 DEF Follows
  <2>4. CASE Leading /\ Hidden
    <3>1. /\ Leading' /\ (Hidden' \/ Visible')
          /\ received' = <<>> \/ spoilt' # 0
      BY <1>4, <2>4, FromHidden
    <3> QED
      BY <3>1 DEF Follows
  <2>5. CASE Leading /\ Visible
    <3>1. /\ (Leading' /\ Visible') \/ (InFrame' /\ Frame')
          /\ received' = <<>> \/ spoilt' # 0
      BY <1>4, <2>5, FromVisible
    <3> QED
      BY <3>1 DEF Follows
  <2>6. CASE Leading /\ OddBit
    <3>1. Leading' /\ (Visible' \/ OddBit') /\ received' = <<>>
      BY <1>4, <2>6, FromOddBit
    <3> QED
      BY <3>1 DEF Follows
  <2> QED
    BY <2>1, <2>2, <2>3, <2>4, <2>5, <2>6 DEF Follows
<1> QED
  BY <1>1, <1>2, <1>3, <1>4

LEMMA TimerKeeps ==
  ASSUME Shape, Wired, WaveInv, TimerIsr
  PROVE  WaveInv'
<1>1. CASE ~running
  <2>1. running' = FALSE
    BY <1>1 DEF TimerIsr, Tick, TickStopped, TickWithinHalf, TickHalfBit, TickIdle,
                TickPickUp, TickPreamble, TickStartBit, TickData, TickEndBit,
                TickFullBit, BitEnds
  <2>2. received' = <<>> /\ ~cutout'
    BY <1>1 DEF TimerIsr, EdgeSeen, EdgeLost, NoEdge, Edge, ArmsCutout
  <2> QED
    BY <2>1, <2>2 DEF WaveInv, DarkOK, FramesAreThePackets, CutoutOnLastEdge
<1>2. CASE running /\ railcom_cutout_arm_pending
  <2>1. /\ state = "IDLE" /\ NewBit
    BY <1>2 DEF Shape, EncShape
  <2>2. DarkOK /\ (Owed # 2 => Follows) /\ dark \in Nat /\ spoilt \in 0..2
    BY <1>2, CutoutTicksAssumption DEF WaveInv, Shape, TypeOK
  <2>3. ~cutout /\ dark = 0
    BY <1>2, <2>1, <2>2 DEF DarkOK, NewBit
  <2>4. Owed = spoilt
    BY <2>3 DEF Owed
  <2>5. Owed # 2 => Ending
    BY <1>2, <2>1, <2>2
    DEF Follows, JustStarted, FirstTick, InFrame, Leading, FirstStart
  <2>6. /\ DarkOK' /\ (Owed' # 2 => Leading' /\ Hidden')
        /\ FramesAreThePackets' /\ CutoutOnLastEdge'
    BY <1>2, <2>2, <2>3, <2>4, <2>5, CutoutBegins
  <2> QED
    BY <2>6 DEF WaveInv, Follows
<1>3. CASE running /\ ~railcom_cutout_arm_pending
  <2>1. DarkOK'
    BY <1>3, CutoutEnds DEF WaveInv
  <2>2. ~cutout'
    BY <1>3, TimerFacts
  <2>3. /\ Owed' # 2 => Follows'
        /\ received' = <<>> \/ spoilt' # 0
    BY <1>3, QuietTick
  <2> QED
    BY <2>1, <2>2, <2>3 DEF WaveInv, FramesAreThePackets, CutoutOnLastEdge, Clean
<1> QED
  BY <1>1, <1>2, <1>3

\* An idle encoder sends the same whatever is stored for it meanwhile.
LEMMA IdleKeeps ==
  ASSUME WaveInv, state = "IDLE",
         UNCHANGED <<state, running, clock, current_bit_is_one, toggle_next,
                     railcom_cutout_arm_pending, Wire>>
  PROVE  WaveInv'
<1> USE DEF clock, Wire, bitVars, assembler
<1>1. Lead' = Lead /\ (NewBit' <=> NewBit) /\ Owed' = Owed /\ (Seeking' <=> Seeking)
  BY DEF Lead, NewBit, Owed, Seeking
<1>2. JustStarted => JustStarted'
  BY <1>1 DEF JustStarted, FirstTick
<1>3. Ending => Ending'
  BY <1>1 DEF Ending, Missed
<1>4. Leading => Leading'
  BY DEF Leading, FirstStart
<1>5. Seen' = Seen
  BY <1>1 DEF Seen, Done
<1>6. /\ Hidden => Hidden'
      /\ Visible => Visible'
      /\ OddBit => OddBit'
  BY <1>1, <1>5 DEF Hidden, Visible, OddBit
<1>7. ~InFrame
  BY DEF InFrame
<1>8. Follows => Follows'
  BY <1>2, <1>3, <1>4, <1>6, <1>7 DEF Follows
<1>9. DarkOK => DarkOK'
  BY <1>1 DEF DarkOK
<1>10. /\ FramesAreThePackets => FramesAreThePackets'
       /\ CutoutOnLastEdge => CutoutOnLastEdge'
  BY DEF FramesAreThePackets, CutoutOnLastEdge, Clean
<1> QED
  BY <1>1, <1>8, <1>9, <1>10 DEF WaveInv

\* The main loop: it stores into a buffer only of an idle encoder, a stop
\* leaves nothing on the rails, and a start begins after a silence.
LEMMA LoopKeeps ==
  ASSUME Shape, WaveInv, LoadStarts \/ LoadEnds \/ EncoderStart \/ EncoderStop
  PROVE  WaveInv'
<1>1. CASE LoadStarts \/ LoadEnds
  <2>1. state = "IDLE"
    BY <1>1 DEF LoadStarts, LoadEnds, LoadEnd, IsIdle, Shape, EncShape
  <2>2. UNCHANGED <<state, running, clock, current_bit_is_one, toggle_next,
                    railcom_cutout_arm_pending, Wire>>
    BY <1>1 DEF LoadStarts, LoadEnds, LoadBegin, LoadEnd
  <2> QED
    BY <2>1, <2>2, IdleKeeps
<1>2. CASE EncoderStop
  <2>1. running' = FALSE /\ received' = <<>> /\ cutout' = FALSE
    BY <1>2 DEF EncoderStop, Stop
  <2> QED
    BY <2>1 DEF WaveInv, DarkOK, FramesAreThePackets, CutoutOnLastEdge
<1>3. CASE EncoderStart
  <2>1. /\ running' /\ state' = "IDLE" /\ half_bit' = 0 /\ toggle_next'
        /\ ~railcom_cutout_arm_pending' /\ since' = Silence /\ dark' = 0
    BY <1>3 DEF EncoderStart, Start
  <2>2. ~cutout
    BY <1>3 DEF EncoderStart, WaveInv, DarkOK
  <2>3. UNCHANGED <<received, finished, cutout, wrapped, spoilt>>
    BY <1>3 DEF EncoderStart, bitVars
  <2>4. since' >= Silence
    BY <2>1 DEF Silence, HalfBitMax, TickTime
  <2>5. JustStarted'
    BY <2>1, <2>2, <2>3, <2>4 DEF JustStarted, FirstTick, NewBit, Silence
  <2> QED
    BY <2>1, <2>2, <2>3, <2>5
    DEF WaveInv, DarkOK, Follows, FramesAreThePackets, CutoutOnLastEdge, Clean
<1> QED
  BY <1>1, <1>2, <1>3

LEMMA StutterKeeps == ASSUME WaveInv, UNCHANGED vars PROVE WaveInv'
<1> USE DEF vars, encVars, clock, position, buffer, bitVars, assembler
<1>1. /\ Lead' = Lead /\ (NewBit' <=> NewBit) /\ Owed' = Owed
      /\ (Seeking' <=> Seeking) /\ (FirstStart' <=> FirstStart)
  BY DEF Lead, NewBit, Owed, Seeking, FirstStart
<1>2. /\ JustStarted => JustStarted'
      /\ Leading => Leading'
  BY <1>1 DEF JustStarted, FirstTick, Leading
<1>3. Ending => Ending'
  BY <1>1 DEF Ending, Missed
<1>4. Seen' = Seen
  BY <1>1 DEF Seen, Done
<1>5. /\ Hidden => Hidden'
      /\ Visible => Visible'
      /\ OddBit => OddBit'
  BY <1>1, <1>4 DEF Hidden, Visible, OddBit
<1>6. InFrame /\ Frame => InFrame' /\ Frame'
  <2>1. InFrame => InFrame'
    BY <1>1 DEF InFrame
  <2>2. Frame => Frame'
    BY <1>1 DEF Frame, OnBeat, LastHalf, ThisBit, Position, BeforeStart, BeforeData,
                Takes, Splits, Missed, Sent, Data, Half, DataBit
  <2> QED
    BY <2>1, <2>2
<1>7. Follows => Follows'
  BY <1>2, <1>3, <1>5, <1>6 DEF Follows
<1>8. DarkOK => DarkOK'
  BY <1>1 DEF DarkOK
<1>9. /\ FramesAreThePackets => FramesAreThePackets'
      /\ CutoutOnLastEdge => CutoutOnLastEdge'
  BY DEF FramesAreThePackets, CutoutOnLastEdge, Clean
<1> QED
  BY <1>1, <1>7, <1>8, <1>9 DEF WaveInv

LEMMA WaveInvHolds == ASSUME Wired PROVE Spec => [](Shape /\ WaveInv)
<1>1. Init => Shape /\ WaveInv
  <2>1. Init => WaveInv
    BY DEF Init, EncInit, BitInit, WaveInv, DarkOK, FramesAreThePackets,
           CutoutOnLastEdge
  <2> QED
    BY <2>1, InitShape
<1>2. ASSUME Shape, WaveInv, [Next]_vars PROVE Shape' /\ WaveInv'
  <2>1. CASE TimerIsr
    BY <1>2, <2>1, TimerShape, TimerKeeps
  <2>2. CASE LoadStarts \/ LoadEnds \/ EncoderStart \/ EncoderStop
    BY <1>2, <2>2, LoopShape, LoopKeeps
  <2>3. CASE UNCHANGED vars
    BY <1>2, <2>3, StutterShape, StutterKeeps
  <2> QED
    BY <1>2, <2>1, <2>2, <2>3 DEF Next
<1> QED
  BY <1>1, <1>2, PTL DEF Spec
-----------------------------------------------------------------------------
\* In such an installation the bytes a decoder is given are those of the packet
\* the encoder has just reported complete, unless an edge lost in it or in the
\* packet before may still matter (dcc_bit_encoder.c against dcc_bit_decoder.c).
THEOREM FramesAreWhole == ASSUME Wired PROVE Spec => []FramesAreThePackets
<1>1. WaveInv => FramesAreThePackets
  BY DEF WaveInv
<1> QED
  BY <1>1, WaveInvHolds, PTL

\* ... and they are given on the tick that arms the cutout, for every packet
\* but one the decoder's counter wrapped in the preamble of.
THEOREM PacketsEndTogether == ASSUME Wired PROVE Spec => []CutoutOnLastEdge
<1>1. WaveInv => CutoutOnLastEdge
  BY DEF WaveInv
<1> QED
  BY <1>1, WaveInvHolds, PTL

\* Where it matters a decoder pairs the halves of a zero as they were sent
\* (DccBitDecoder_edge).
THEOREM HalvesArePaired == ASSUME Wired PROVE Spec => []HalvesMatch
<1>1. Shape /\ WaveInv => HalvesMatch
  <2> SUFFICES ASSUME Shape, WaveInv, Edge, since < Silence, Clean,
                      ~Seeking \/ _preamble_count >= PreambleMin,
                      _first_half_type = "LONG"
               PROVE  Elapsed = 2 * TickTime
    BY DEF HalvesMatch, Seeking
  <2>1. running /\ toggle_next /\ dark = 0 /\ Owed = 0 /\ since \in Nat
    BY DEF Edge, Clean, Owed, Shape, TypeOK
  <2>2. _preamble_count \in Nat /\ PreambleMin \in Nat /\ PreambleMin >= 10
    BY BitDecoderAssumption DEF Wired, Shape, TypeOK, BitTypeOK
  <2>3. Follows
    BY <2>1 DEF WaveInv
  <2>4. ~JustStarted
    BY <2>1 DEF JustStarted, Silence, HalfBitMax, TickTime
  <2>5. ~Ending
    BY DEF Ending
  <2>6. ~Hidden /\ ~Visible /\ ~OddBit
    BY <2>1, <2>2 DEF Hidden, Visible, OddBit
  <2>7. InFrame /\ Frame
    BY <2>3, <2>4, <2>5, <2>6 DEF Follows
  <2>8. half_bit = 0
    <3>1. half_bit \in 0..1
      BY DEF Shape, TypeOK, EncTypeOK
    <3>2. half_bit # 1
      BY <2>1, <2>7 DEF Frame, NewBit, ThisBit
    <3> QED
      BY <3>1, <3>2
  <2>9. since = 1
    BY <2>1, <2>7, <2>8 DEF Frame, OnBeat
  <2> QED
    BY <2>9 DEF Elapsed, TickTime
<1> QED
  BY <1>1, WaveInvHolds, PTL
=============================================================================
