--------------------------- MODULE DccBitDecoder ----------------------------
(***************************************************************************)
(* The bit decoder, src/src/dcc/dcc_bit_decoder.c: the edge ISR's state    *)
(* machine, from the time between two edges to half-bits, bits, bytes and  *)
(* frames.  Variables carry the names of its static ones.                  *)
(***************************************************************************)
EXTENDS Integers, Sequences

CONSTANTS
  PreambleMin,      \* DCC_PREAMBLE_BITS_DECODER_MIN
  CounterSize,      \* values of an 8-bit preamble counter
  MaxBytes,         \* DCC_PACKET_MAX_BYTES
  RailcomBuild      \* DCC_COMPILE_RAILCOM is defined

ASSUME BitDecoderAssumption ==
  /\ PreambleMin \in Nat \ {0}
  /\ CounterSize \in Nat /\ PreambleMin < CounterSize
  /\ MaxBytes \in Nat \ {0, 1}
  /\ RailcomBuild \in BOOLEAN

VARIABLES
  _first_edge,       \* the next edge only starts the clock
  _first_half_type,  \* half-bit waiting for its second half
  _state,
  _preamble_count,
  _packet_buffer,    \* the bytes completed, _byte_count of them
  _current_byte,
  _bit_count,
  received           \* what this edge gave to on_packet_received, or <<>>

assembler == <<_state, _preamble_count, _packet_buffer, _current_byte,
               _bit_count>>
bitVars   == <<_first_edge, _first_half_type, assembler, received>>

HalfBitThreshold == 80        \* DCC_DECODER_HALF_BIT_THRESHOLD_US
HalfBitMax       == 10000     \* DCC_DECODER_HALF_BIT_MAX_US

BitInit ==
  /\ _first_edge = TRUE
  /\ _first_half_type = "NONE"
  /\ _state = "SEEKING_PREAMBLE"
  /\ _preamble_count = 0
  /\ _packet_buffer = <<>> /\ _current_byte = 0 /\ _bit_count = 0
  /\ received = <<>>

StartByte == _state' = "ACCUMULATING" /\ _current_byte' = 0 /\ _bit_count' = 0

_reset_to_preamble ==
  /\ _state' = "SEEKING_PREAMBLE"
  /\ _preamble_count' = 0
  /\ _packet_buffer' = <<>> /\ _current_byte' = 0 /\ _bit_count' = 0
-----------------------------------------------------------------------------
\* An 8-bit counter that is not saturated.
CountPreamble == (_preamble_count + 1) % CounterSize

SeekPreamble(is_one) ==
  /\ _state = "SEEKING_PREAMBLE"
  /\ \/ /\ is_one
        /\ _preamble_count' = CountPreamble
        /\ UNCHANGED <<_state, _packet_buffer, _current_byte, _bit_count>>
     \/ /\ ~is_one /\ _preamble_count >= PreambleMin
        /\ StartByte
        /\ _packet_buffer' = <<>>
        /\ UNCHANGED _preamble_count
     \/ /\ ~is_one /\ _preamble_count < PreambleMin
        /\ _preamble_count' = 0
        /\ UNCHANGED <<_state, _packet_buffer, _current_byte, _bit_count>>
  /\ received' = <<>>
  /\ UNCHANGED _first_edge

Accumulate(is_one) ==
  LET byte == (2 * _current_byte + (IF is_one THEN 1 ELSE 0)) % 256
  IN /\ _state = "ACCUMULATING"
     /\ _current_byte' = byte
     /\ _bit_count' = _bit_count + 1
     /\ \/ /\ _bit_count + 1 < 8
           /\ UNCHANGED <<_state, _packet_buffer>>
        \/ /\ _bit_count + 1 >= 8
           /\ _packet_buffer' = Append(_packet_buffer, byte)
           /\ _state' = "SEPARATOR"
     /\ received' = <<>>
     /\ UNCHANGED <<_first_edge, _preamble_count>>

\* The end bit: in a RailCom build the next edge is only a baseline and the end
\* bit does not count for the next preamble.
EndPacket ==
  /\ received' = IF Len(_packet_buffer) >= 2 THEN _packet_buffer ELSE <<>>
  /\ IF RailcomBuild
     THEN /\ _reset_to_preamble
          /\ _first_edge' = TRUE
     ELSE /\ _state' = "SEEKING_PREAMBLE"
          /\ _preamble_count' = 1
          /\ UNCHANGED <<_packet_buffer, _current_byte, _bit_count, _first_edge>>

\* The bit after a byte: another start bit, or the end of the packet.
Separator(is_one) ==
  /\ _state = "SEPARATOR"
  /\ \/ is_one /\ EndPacket
     \/ /\ ~is_one /\ Len(_packet_buffer) >= MaxBytes
        /\ _reset_to_preamble
        /\ received' = <<>> /\ UNCHANGED _first_edge
     \/ /\ ~is_one /\ Len(_packet_buffer) < MaxBytes
        /\ StartByte
        /\ received' = <<>>
        /\ UNCHANGED <<_packet_buffer, _preamble_count, _first_edge>>

_on_bit(is_one) ==
  SeekPreamble(is_one) \/ Accumulate(is_one) \/ Separator(is_one)

NoBit == received' = <<>> /\ UNCHANGED assembler
-----------------------------------------------------------------------------
\* Mutant: the second half decides the bit, whatever the first one was.
HalvesPair_SecondDecides(half) == _first_half_type # "NONE"

\* The waiting half is the first half of this one's bit.
HalvesPair(half) == _first_half_type = half

\* DccBitDecoder_edge, elapsed microseconds after the edge before.
DccBitDecoder_edge(elapsed) ==
  LET half == IF elapsed < HalfBitThreshold THEN "SHORT" ELSE "LONG"
  IN \/ /\ _first_edge
        /\ _first_edge' = FALSE
        /\ NoBit /\ UNCHANGED _first_half_type
     \/ /\ ~_first_edge /\ elapsed >= HalfBitMax
        /\ _first_half_type' = "NONE"
        /\ _reset_to_preamble
        /\ received' = <<>> /\ UNCHANGED _first_edge
     \/ /\ ~_first_edge /\ elapsed < HalfBitMax /\ HalvesPair(half)
        /\ _on_bit(half = "SHORT")
        /\ _first_half_type' = "NONE"
     \/ /\ ~_first_edge /\ elapsed < HalfBitMax /\ ~HalvesPair(half)
        /\ _first_half_type' = half
        /\ NoBit /\ UNCHANGED _first_edge

BitTypeOK ==
  /\ _first_edge \in BOOLEAN
  /\ _first_half_type \in {"NONE", "SHORT", "LONG"}
  /\ _state \in {"SEEKING_PREAMBLE", "ACCUMULATING", "SEPARATOR"}
  /\ _preamble_count \in 0..CounterSize - 1
  /\ _packet_buffer \in Seq(0..255) /\ Len(_packet_buffer) <= MaxBytes
  /\ _current_byte \in 0..255
  /\ _bit_count \in 0..8
  /\ received \in Seq(0..255)
=============================================================================
