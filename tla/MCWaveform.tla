----------------------------- MODULE MCWaveform -----------------------------
(***************************************************************************)
(* DccWaveform with whole bytes and preambles of legal length: a reset     *)
(* packet (all zero bits) with the 16 bits a RailCom command station must  *)
(* send at least, and one with many ones and a tail of zeros, which a      *)
(* decoder that missed its start takes for half a preamble.                *)
(***************************************************************************)
EXTENDS DccWaveform

TwoPackets == {[first |-> 0, data |-> <<0, 0, 0>>, preamble_bits |-> 16],
               [first |-> 63, data |-> <<63, 255, 192>>, preamble_bits |-> 17]}
=============================================================================
