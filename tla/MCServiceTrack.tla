--------------------------- MODULE MCServiceTrack ---------------------------
(***************************************************************************)
(* DccServiceTrack with the packet counts of the code, and acknowledgement *)
(* spans of two or three samples in which one sample may drop out.         *)
(***************************************************************************)
EXTENDS DccServiceTrack

\* A verify, and a write with its recovery packets.
VerifyAndWrite ==
  {[is_write |-> FALSE, command_repeat |-> 5, recovery_count |-> 0],
   [is_write |-> TRUE,  command_repeat |-> 5, recovery_count |-> 6]}
=============================================================================
