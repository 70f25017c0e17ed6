---------------------------- MODULE DccWaveform -----------------------------
(***************************************************************************)
(* The two ends of the rails: the command station's bit encoder and a      *)
(* decoder's bit decoder.                                                  *)
(*                                                                         *)
(* The decoder sees only the edges that reach it.  The encoder's ISR makes *)
(* them; a cutout hides those that fall into it, and dirty rails may lose  *)
(* one.  Comparing what the decoder assembles with what was loaded says    *)
(* what both ends are for: every packet arrives whole, once, unaltered.    *)
(*                                                                         *)
(* The main loop follows the scheduler's contract: it loads a packet only  *)
(* when the encoder is idle and its buffer free (DccMainTrack shows that   *)
(* the scheduler keeps it).  It may stop the encoder at any time, and      *)
(* starts it again when the rails have been silent long enough for a       *)
(* decoder to notice.                                                      *)
(***************************************************************************)
EXTENDS DccBitEncoder, DccBitDecoder

CONSTANT CutoutTicks    \* edges after a packet's last one that a cutout hides

ASSUME CutoutTicksAssumption == CutoutTicks \in Nat

VARIABLES
  since,     \* ticks since the last edge the decoder saw
  dark,      \* ticks until the cutout ends
  finished,  \* the packet reported complete whose end bit is still going out
  cutout,    \* the last tick called railcom_cutout_begin
  wrapped,   \* the preamble counter has wrapped since the last start bit
  spoilt     \* packets that a lost edge may still cost

vars == <<encVars, bitVars, since, dark, finished, cutout, wrapped, spoilt>>

TickTime == 58                          \* microseconds
Silence  == HalfBitMax \div TickTime    \* ticks without an edge: no signal

Init ==
  /\ EncInit /\ BitInit
  /\ since = 0 /\ dark = 0 /\ finished = <<>> /\ cutout = FALSE
  /\ wrapped = FALSE /\ spoilt = 0
-----------------------------------------------------------------------------
\* The rails change and the decoder sees it.
Edge == running /\ toggle_next /\ dark = 0

Elapsed == TickTime * (since + 1)

Wraps == /\ _state = "SEEKING_PREAMBLE" /\ _preamble_count = CounterSize - 1
         /\ _preamble_count' = 0

EdgeSeen ==
  /\ Edge
  /\ DccBitDecoder_edge(Elapsed)
  /\ since' = 0
  /\ wrapped' = (since < Silence /\ (Wraps \/ (wrapped /\ _state' = _state)))
  /\ spoilt' = IF cutout /\ spoilt > 0 THEN spoilt - 1 ELSE spoilt

\* One edge is lost, and none again until the decoder must have recovered.
EdgeLost ==
  /\ Edge /\ spoilt = 0
  /\ spoilt' = 2
  /\ since' = since + 1
  /\ received' = <<>>
  /\ UNCHANGED <<_first_edge, _first_half_type, assembler, wrapped>>

NoEdge ==
  /\ ~Edge
  /\ since' = IF running /\ ~_first_edge THEN since + 1 ELSE since
  /\ spoilt' = IF cutout /\ spoilt > 0 THEN spoilt - 1 ELSE spoilt
  /\ received' = <<>>
  /\ UNCHANGED <<_first_edge, _first_half_type, assembler, wrapped>>

TimerIsr ==
  /\ EdgeSeen \/ EdgeLost \/ NoEdge
  /\ Tick
  /\ finished' = IF Completes THEN active_packet.data
                 ELSE IF received # <<>> THEN <<>> ELSE finished
  /\ cutout' = ArmsCutout
  /\ dark' = IF ArmsCutout THEN CutoutTicks
             ELSE IF running /\ dark > 0 THEN dark - 1 ELSE dark
-----------------------------------------------------------------------------
Wire == <<bitVars, since, dark, finished, cutout, wrapped, spoilt>>

LoadStarts == IsIdle /\ ~packet_loaded /\ LoadBegin /\ UNCHANGED Wire
LoadEnds   == \E p \in Packets : LoadEnd(p) /\ UNCHANGED Wire

EncoderStop ==
  /\ ~copying /\ running /\ Stop
  /\ received' = <<>> /\ finished' = <<>> /\ cutout' = FALSE
  /\ UNCHANGED <<_first_edge, _first_half_type, assembler, since, dark,
                 wrapped, spoilt>>

EncoderStart ==
  /\ ~copying /\ ~running /\ Start
  /\ since' = Silence
  /\ dark' = 0
  /\ UNCHANGED <<bitVars, finished, cutout, wrapped, spoilt>>

Next == TimerIsr \/ LoadStarts \/ LoadEnds \/ EncoderStart \/ EncoderStop

Spec     == Init /\ [][Next]_vars
FairSpec == Spec /\ WF_vars(TimerIsr)
-----------------------------------------------------------------------------
TypeOK ==
  /\ EncTypeOK
  /\ BitTypeOK
  /\ finished \in Seq(Nat)
  /\ since \in Nat /\ dark \in 0..CutoutTicks /\ spoilt \in 0..2
  /\ cutout \in BOOLEAN /\ wrapped \in BOOLEAN

\* Undisturbed: no edge has been lost that may still matter.
Clean == spoilt = 0

\* The decoder's on_packet_received gets exactly the bytes of the packet the
\* encoder has just reported complete: never a packet cut short or sent twice,
\* a byte of the one before or a mixture, whatever loads, stops and starts fall
\* between the ticks; and two packets after an edge was lost it is so again.
FramesAreThePackets == received # <<>> /\ Clean => received = finished

\* Every packet reported complete is received, with its last edge: on the tick
\* that arms the cutout, so that T_CS is measured from there.  It takes a
\* preamble of which the cutout leaves enough (dcc_types.h, 16 bits) and a
\* decoder that has recovered from a lost edge and from a wrapped counter.
CutoutOnLastEdge ==
  /\ received # <<>> /\ Clean => cutout
  /\ cutout /\ Clean /\ ~wrapped => received # <<>>

\* The decoder never meets half a zero where it matters: inside a packet, and
\* while a preamble lets a start bit begin one, a long half is followed by
\* another one of the same length.  (Hunting for a preamble it does meet them,
\* when a packet it missed ends in a zero and a cutout hides the rest.)
HalvesMatch ==
  /\ Edge /\ since < Silence /\ Clean
  /\ _state # "SEEKING_PREAMBLE" \/ _preamble_count >= PreambleMin
  /\ _first_half_type = "LONG"
  => Elapsed = 2 * TickTime

\* A packet handed to a running encoder goes out: it is never left loaded while
\* the encoder keeps clocking idle bits.
LoadedIsSent == packet_loaded /\ running ~> ~packet_loaded \/ ~running
=============================================================================
