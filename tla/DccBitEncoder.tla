--------------------------- MODULE DccBitEncoder ----------------------------
(***************************************************************************)
(* The bit encoder of one track, src/src/dcc/dcc_bit_encoder.c: the state  *)
(* machine the 58 microsecond timer ISR advances, and the load, start and  *)
(* stop operations the main loop performs on it between two ticks.         *)
(*                                                                         *)
(* The ISR toggles the output pin when toggle_next is set and only then    *)
(* calls tick_isr, which computes toggle_next for the following tick.      *)
(***************************************************************************)
EXTENDS Integers, Sequences

CONSTANTS
  Packets,      \* the packets the main loop may load
  ByteBits,     \* bits in a byte: 8 in the code
  CutoutWired   \* railcom_cutout_begin is not NULL

Packet == [first : 0..127, data : Seq(Nat), preamble_bits : Nat \ {0}]

ASSUME ByteBitsAssumption == ByteBits \in Nat \ {0}
ASSUME CutoutWiredAssumption == CutoutWired \in BOOLEAN
ASSUME PacketsAssumption ==
  /\ Packets \subseteq Packet
  /\ \A p \in Packets : /\ Len(p.data) > 0
                        /\ \A k \in 1..Len(p.data) : p.data[k] < 2^ByteBits

VARIABLES
  state, packet_loaded, running, half_bit, tick_counter, current_bit_is_one,
  toggle_next, railcom_cutout_arm_pending, preamble_count, byte_index,
  bit_index, active_packet,
  copying       \* load_packet is storing into active_packet

clock    == <<half_bit, tick_counter>>
position == <<preamble_count, byte_index, bit_index>>
buffer   == <<active_packet, copying>>
encVars  == <<state, packet_loaded, running, clock, current_bit_is_one,
              toggle_next, railcom_cutout_arm_pending, position, buffer>>

States == {"IDLE", "PREAMBLE", "START_BIT", "DATA", "END_BIT"}

EmptyPacket == [first |-> 0, data |-> <<>>, preamble_bits |-> 0]

EncInit ==
  /\ state = "IDLE"
  /\ packet_loaded = FALSE
  /\ running = FALSE
  /\ half_bit = 0
  /\ tick_counter = 0
  /\ current_bit_is_one = TRUE
  /\ toggle_next = FALSE
  /\ railcom_cutout_arm_pending = FALSE
  /\ preamble_count = 0 /\ byte_index = 0 /\ bit_index = 0
  /\ active_packet = EmptyPacket
  /\ copying = FALSE
-----------------------------------------------------------------------------
(***************************************************************************)
(* The main loop's operations.                                             *)
(***************************************************************************)
IsIdle == state = "IDLE"

\* Mutant: the flag is stored before the packet (no barrier).
LoadBegin_PublishesEarly ==
  /\ ~copying
  /\ copying' = TRUE
  /\ packet_loaded' = TRUE
  /\ UNCHANGED <<state, running, clock, current_bit_is_one, toggle_next,
                 railcom_cutout_arm_pending, position, active_packet>>

\* load_packet stores the packet; a tick may interrupt it ...
LoadBegin ==
  /\ ~copying
  /\ copying' = TRUE
  /\ UNCHANGED <<state, packet_loaded, running, clock, current_bit_is_one,
                 toggle_next, railcom_cutout_arm_pending, position,
                 active_packet>>

\* ... and publishes it when every byte is stored.
LoadEnd(p) ==
  /\ copying
  /\ copying' = FALSE
  /\ active_packet' = p
  /\ packet_loaded' = TRUE
  /\ UNCHANGED <<state, running, clock, current_bit_is_one, toggle_next,
                 railcom_cutout_arm_pending, position>>

\* Neither the tick counter nor the bit being sent is reset.
Start ==
  /\ running' = TRUE
  /\ state' = "IDLE"
  /\ half_bit' = 0
  /\ toggle_next' = TRUE
  /\ railcom_cutout_arm_pending' = FALSE
  /\ UNCHANGED <<packet_loaded, tick_counter, current_bit_is_one, position,
                 buffer>>

\* Mutant: stopping drops the packet.
Stop_DropsPacket ==
  /\ running' = FALSE
  /\ state' = "IDLE"
  /\ packet_loaded' = FALSE
  /\ toggle_next' = FALSE
  /\ railcom_cutout_arm_pending' = FALSE
  /\ UNCHANGED <<clock, current_bit_is_one, position, buffer>>

\* The packet in flight is abandoned but stays loaded.
Stop ==
  /\ running' = FALSE
  /\ state' = "IDLE"
  /\ toggle_next' = FALSE
  /\ railcom_cutout_arm_pending' = FALSE
  /\ UNCHANGED <<packet_loaded, clock, current_bit_is_one, position, buffer>>
-----------------------------------------------------------------------------
(***************************************************************************)
(* DccBitEncoder_tick_isr().                                               *)
(***************************************************************************)
\* A half-bit lasts one tick in a one-bit and two ticks in a zero-bit.
HalfTicks == IF current_bit_is_one THEN 1 ELSE 2

\* Mutant: one tick too many.
HalfEnds_OffByOne == tick_counter >= HalfTicks

HalfEnds == tick_counter + 1 >= HalfTicks
BitEnds  == running /\ HalfEnds /\ half_bit + 1 >= 2

\* The bit of the current byte at the position the next data bit takes.
DataBit(byte, bit) == (active_packet.data[byte + 1] \div 2^bit) % 2 = 1

\* This tick calls on_packet_complete.
Completes == BitEnds /\ state = "END_BIT"

\* Mutant: the cutout is armed by the end bit's handler itself.
ArmsCutout_AtHalfBit == Completes

\* This tick calls railcom_cutout_begin: the toggle before it was the end
\* bit's last edge.
ArmsCutout == running /\ railcom_cutout_arm_pending

TickStopped ==
  /\ ~running
  /\ toggle_next' = FALSE
  /\ UNCHANGED <<state, packet_loaded, running, clock, current_bit_is_one,
                 railcom_cutout_arm_pending, position, buffer>>

\* The second tick of a zero-bit's half does the toggling.
TickWithinHalf ==
  /\ running /\ ~HalfEnds
  /\ tick_counter' = tick_counter + 1
  /\ toggle_next' = FALSE
  /\ railcom_cutout_arm_pending' = FALSE
  /\ UNCHANGED <<state, packet_loaded, running, half_bit, current_bit_is_one,
                 position, buffer>>

\* Mutant: the second half starts with the ticks of the first.
TickHalfBit_CounterKept ==
  /\ running /\ HalfEnds /\ half_bit + 1 < 2
  /\ half_bit' = half_bit + 1
  /\ toggle_next' = TRUE
  /\ railcom_cutout_arm_pending' = FALSE
  /\ UNCHANGED <<state, packet_loaded, running, tick_counter,
                 current_bit_is_one, position, buffer>>

TickHalfBit ==
  /\ running /\ HalfEnds /\ half_bit + 1 < 2
  /\ tick_counter' = 0
  /\ half_bit' = half_bit + 1
  /\ toggle_next' = TRUE
  /\ railcom_cutout_arm_pending' = FALSE
  /\ UNCHANGED <<state, packet_loaded, running, current_bit_is_one, position,
                 buffer>>

\* A full bit has been clocked: next is the state whose bit comes now.
TickFullBit(next, bit_is_one) ==
  /\ BitEnds
  /\ tick_counter' = 0
  /\ half_bit' = 0
  /\ state' = next
  /\ current_bit_is_one' = bit_is_one
  /\ toggle_next' = TRUE
  /\ UNCHANGED <<running, buffer>>

KeepsPacket == railcom_cutout_arm_pending' = FALSE /\ UNCHANGED packet_loaded

TickIdle ==
  /\ state = "IDLE" /\ ~packet_loaded
  /\ TickFullBit("IDLE", TRUE)
  /\ KeepsPacket
  /\ UNCHANGED position

TickPickUp ==
  /\ state = "IDLE" /\ packet_loaded
  /\ TickFullBit("PREAMBLE", TRUE)
  /\ KeepsPacket
  /\ preamble_count' = active_packet.preamble_bits
  /\ UNCHANGED <<byte_index, bit_index>>

\* Mutant: the preamble is not counted down.
TickPreamble_NotCounted ==
  /\ state = "PREAMBLE"
  /\ TickFullBit("PREAMBLE", TRUE)
  /\ KeepsPacket
  /\ UNCHANGED position

TickPreamble ==
  /\ state = "PREAMBLE"
  /\ preamble_count' = preamble_count - 1
  /\ \/ /\ preamble_count' = 0
        /\ TickFullBit("START_BIT", FALSE)
        /\ byte_index' = 0
     \/ /\ preamble_count' # 0
        /\ TickFullBit("PREAMBLE", TRUE)
        /\ UNCHANGED byte_index
  /\ KeepsPacket
  /\ UNCHANGED bit_index

\* Mutant: the bytes begin one bit too low.
TickStartBit_SkipsBit ==
  /\ state = "START_BIT"
  /\ bit_index' = IF ByteBits > 1 THEN ByteBits - 2 ELSE 0
  /\ TickFullBit("DATA", DataBit(byte_index, bit_index'))
  /\ KeepsPacket
  /\ UNCHANGED <<preamble_count, byte_index>>

TickStartBit ==
  /\ state = "START_BIT"
  /\ bit_index' = ByteBits - 1
  /\ TickFullBit("DATA", DataBit(byte_index, ByteBits - 1))
  /\ KeepsPacket
  /\ UNCHANGED <<preamble_count, byte_index>>

TickData ==
  /\ state = "DATA"
  /\ \/ /\ bit_index > 0
        /\ bit_index' = bit_index - 1
        /\ TickFullBit("DATA", DataBit(byte_index, bit_index - 1))
        /\ UNCHANGED byte_index
     \/ /\ bit_index = 0
        /\ byte_index' = byte_index + 1
        /\ \/ /\ byte_index + 1 >= Len(active_packet.data)
              /\ TickFullBit("END_BIT", TRUE)
           \/ /\ byte_index + 1 < Len(active_packet.data)
              /\ TickFullBit("START_BIT", FALSE)
        /\ UNCHANGED bit_index
  /\ KeepsPacket
  /\ UNCHANGED preamble_count

\* _tick_handle_end_bit: the packet is released and the cutout armed for the
\* next tick, whose toggle is the packet's last edge.
TickEndBit ==
  /\ state = "END_BIT"
  /\ TickFullBit("IDLE", TRUE)
  /\ packet_loaded' = FALSE
  /\ railcom_cutout_arm_pending' = CutoutWired
  /\ UNCHANGED position

Tick ==
  \/ TickStopped
  \/ TickWithinHalf
  \/ TickHalfBit
  \/ TickIdle
  \/ TickPickUp
  \/ TickPreamble
  \/ TickStartBit
  \/ TickData
  \/ TickEndBit

EncTypeOK ==
  /\ state \in States
  /\ packet_loaded \in BOOLEAN
  /\ running \in BOOLEAN
  /\ half_bit \in 0..1
  /\ tick_counter \in 0..1
  /\ current_bit_is_one \in BOOLEAN
  /\ toggle_next \in BOOLEAN
  /\ railcom_cutout_arm_pending \in BOOLEAN
  /\ preamble_count \in Nat
  /\ byte_index \in Nat
  /\ bit_index \in 0..ByteBits - 1
  /\ active_packet \in Packets \cup {EmptyPacket}
  /\ copying \in BOOLEAN
=============================================================================
