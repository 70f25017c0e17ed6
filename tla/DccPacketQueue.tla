--------------------------- MODULE DccPacketQueue --------------------------
(***************************************************************************)
(* What the packet queue between the edge interrupt and the main loop      *)
(* promises (abstract specification): packets are handled one at a time in *)
(* the order they were received, each at most once and whole.  At most     *)
(* Capacity wait, the one being handled among them; a packet that finds no *)
(* room is dropped, and no packet already waiting is.                      *)
(***************************************************************************)
EXTENDS Naturals, Sequences

CONSTANTS Packets, Capacity, NoPacket

VARIABLES
  waiting,    \* packets received and not yet handled
  handling    \* the packet the main loop is handling, or NoPacket

Init == waiting = <<>> /\ handling = NoPacket

Receive ==
  /\ Len(waiting) < Capacity
  /\ \E p \in Packets : waiting' = Append(waiting, p)
  /\ UNCHANGED handling

Drop == Len(waiting) = Capacity /\ UNCHANGED <<waiting, handling>>

Take ==
  /\ handling = NoPacket /\ waiting # <<>>
  /\ handling' = Head(waiting)
  /\ UNCHANGED waiting

Release ==
  /\ handling # NoPacket
  /\ waiting' = Tail(waiting)
  /\ handling' = NoPacket

Next == Receive \/ Drop \/ Take \/ Release

Spec == Init /\ [][Next]_<<waiting, handling>>
=============================================================================
