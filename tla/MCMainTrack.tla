---------------------------- MODULE MCMainTrack -----------------------------
(***************************************************************************)
(* DccMainTrack with two slots, a throttle on an aliasing address and a    *)
(* one-shot for another, and bytes of two bits.                            *)
(***************************************************************************)
EXTENDS DccMainTrack

TwoCommands ==
  {[address |-> 112, tag |-> "SPEED", priority |-> 1,
    auto_refresh |-> TRUE, repeat_count |-> 2],
   [address |-> 3, tag |-> "CV", priority |-> 4,
    auto_refresh |-> FALSE, repeat_count |-> 1]}
HookInserts == {cmd \in TwoCommands : cmd.auto_refresh}
=============================================================================
