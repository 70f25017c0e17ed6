-------------------------- MODULE DccPacketDecoder -------------------------
(***************************************************************************)
(* What one packet does to a decoder: the rules CVs are written by         *)
(* (dcc_cv_storage.c), and the matching and dispatch of a packet with the  *)
(* address it caches from the CVs (dcc_packet_decoder.c).  Everything here *)
(* runs in the main loop, one packet after the other.                      *)
(*                                                                         *)
(* A packet is its address, the instruction it carries and whether its     *)
(* error detection byte is right.  The bytes of a packet to a short        *)
(* address from 112 to 127 are also a service-mode instruction: such a     *)
(* packet has both readings.  Instructions that change no decoder state    *)
(* but a speed or a function ("DRIVE") or nothing at all ("OTHER") are not *)
(* told apart further.                                                     *)
(***************************************************************************)
EXTENDS Integers, FiniteSetsExt

CONSTANTS
  Defaults,         \* the CVs the decoder has and what factory_reset stores
  Unsupported,      \* CV29 bits the application clears, it knows no such feature
  ResetsForService  \* DCC_SERVICE_MODE_RESET_PRE_COUNT

ASSUME ResetsAssumption == ResetsForService \in Nat \ {0}
ASSUME DefaultsAssumption ==
  /\ Defaults \in [DOMAIN Defaults -> 0..255]
  /\ {1, 8, 11, 15, 16, 17, 18, 19, 29, 513, 521, 541} \subseteq DOMAIN Defaults

VARIABLES
  cvs,                 \* the CVs, kept by the application
  cache,               \* _my_address, _my_address_type, _use_output_address,
                       \*   _consist_address
  reset_count,         \* consecutive resets, saturating; all that matters is
                       \*   whether they reach ResetsForService
  service_mode_active

packetVars == <<cvs, cache, reset_count, service_mode_active>>

Bit(byte, i) == (byte \div 2^i) % 2 = 1
SetBit(byte, i, on) ==
  IF Bit(byte, i) = on THEN byte ELSE IF on THEN byte + 2^i ELSE byte - 2^i
-----------------------------------------------------------------------------
(***************************************************************************)
(* CV storage.                                                             *)
(***************************************************************************)
LockKeys == {15, 16}
Locked   == cvs[15] # cvs[16]

\* The reserved bit 6 of CV29 and the features the application does not have.
FilterConfig(value) ==
  MapThenSumSet(LAMBDA i : 2^i,
                {i \in 0..7 : Bit(value, i)} \ ({6} \cup Unsupported))

IsFactoryReset(cv, value) == cv = 8 /\ value = 8

\* Mutant: CV29 is stored before the lock is looked at.
Accepts_ConfigFirst(cv, value) ==
  cv \in LockKeys \cup {29} \/ IsFactoryReset(cv, value) \/ ~Locked

\* DccCvStorage_write returns true.
Accepts(cv, value) == cv \in LockKeys \/ IsFactoryReset(cv, value) \/ ~Locked

Stored(cv, value) ==
  IF ~Accepts(cv, value) THEN cvs
  ELSE IF IsFactoryReset(cv, value) THEN Defaults
  ELSE [cvs EXCEPT ![cv] = IF cv = 29 THEN FilterConfig(value) ELSE value]
-----------------------------------------------------------------------------
(***************************************************************************)
(* The address cache.                                                      *)
(***************************************************************************)
IsAccessory(type) == type \in {"ACCESSORY", "ACCESSORY_EXTENDED"}

\* An accessory decoder's own address: 11 bits and four added when it counts
\* outputs, board number otherwise.
AccessoryAddress(c) ==
  IF Bit(c[541], 6) THEN ((256 * (c[521] % 8)) + c[513] + 3) % 2048
                    ELSE (64 * (c[521] % 8)) + (c[513] % 64)

\* What _update_address_cv_cache resolves from the CVs c, all of them readable.
Resolve(c) ==
  IF Bit(c[541], 7)
  THEN [type    |-> IF Bit(c[541], 5) THEN "ACCESSORY_EXTENDED" ELSE "ACCESSORY",
        address |-> AccessoryAddress(c),
        outputs |-> Bit(c[541], 6),
        consist |-> 0]
  ELSE [type    |-> IF Bit(c[29], 5) THEN "LONG" ELSE "SHORT",
        address |-> IF Bit(c[29], 5) THEN (256 * (c[17] % 64)) + c[18] ELSE c[1],
        outputs |-> FALSE,
        consist |-> c[19] % 128]

\* The CVs whose writing refreshes the cache, and those of an accessory
\* decoder's own programming instructions.
AddressCvs          == {1, 8, 17, 18, 19, 21, 22, 29, 513, 521, 541}
\* Mutant: CV541 is missing.
AccessoryAddressCvs_NoConfig == AddressCvs \ {19, 21, 22, 541}
AccessoryAddressCvs          == AddressCvs \ {19, 21, 22}

\* _cv_write_and_notify and its accessory twin: a value is stored if the rules
\* allow it, and the cache follows.
WriteCv(cv, value, watched) ==
  /\ cvs' = Stored(cv, value)
  /\ cache' = IF Accepts(cv, value) /\ cv \in watched THEN Resolve(cvs')
                                                     ELSE cache

\* The refresh ends with on_address_changed, except in an accessory decoder.
PushesAddress(cv, value, watched) ==
  /\ Accepts(cv, value) /\ cv \in watched
  /\ ~IsAccessory(Resolve(Stored(cv, value)).type)
-----------------------------------------------------------------------------
(***************************************************************************)
(* Instructions.  A byte is written whole, a bit of it is set with the     *)
(* byte 111KDBBB (position BBB, value D), and consist control writes CV19. *)
(***************************************************************************)
WithBit(cv, value) == SetBit(cvs[cv], value % 8, Bit(value, 3))

ByteWritten(i) ==
  CASE i.op = "BIT"     -> WithBit(i.cv, i.value)
    [] i.op = "CONSIST" -> IF i.value % 128 = 0 THEN 0 ELSE i.value
    [] OTHER            -> i.value

Writes(i) == i.op \in {"WRITE", "BIT", "CONSIST"}

Execute(i, watched) ==
  IF Writes(i) THEN WriteCv(i.cv, ByteWritten(i), watched)
               ELSE UNCHANGED <<cvs, cache>>

\* A service-mode instruction is acknowledged when it writes or matches.
Acknowledges(i) ==
  \/ Writes(i) /\ Accepts(i.cv, ByteWritten(i))
  \/ i.op = "VERIFY" /\ cvs[i.cv] = i.value
  \/ i.op = "VERIFY_BIT" /\ Bit(cvs[i.cv], i.value % 8) = Bit(i.value, 3)
-----------------------------------------------------------------------------
(***************************************************************************)
(* One packet.                                                             *)
(***************************************************************************)
NoService == [op |-> "NONE"]
IsReset(p)   == p.type = "RESET"
IsService(p) == p.service # NoService /\ service_mode_active

\* Whose packet it is.  A short number is compared with the decoder's number
\* whatever kind of address that is.
IsOurs(p) ==
  CASE p.type = "BROADCAST" -> ~IsAccessory(cache.type)
    [] p.type = "SHORT" ->
         /\ ~IsAccessory(cache.type)
         /\ \/ p.address = cache.address
            \/ p.address = cache.consist /\ p.instruction.op = "DRIVE"
    [] p.type = "LONG" -> cache.type = "LONG" /\ p.address = cache.address
    [] p.type = "ACCESSORY" ->
         /\ IsAccessory(cache.type)
         /\ IF cache.outputs THEN p.address = cache.address
                             ELSE p.address \div 4 = cache.address
    [] OTHER -> FALSE

\* Neither ignored nor counted as a reset nor a service-mode packet.
Leaves(p) == p.valid /\ p.type \notin {"IDLE", "RESET"} /\ ~IsService(p)

\* on_addressed_packet is called: the packet re-arms the packet time-out.
Rearms(p) == Leaves(p) /\ p.type # "ACCESSORY" /\ IsOurs(p)

\* The resets counted and the gate they open; idle packets may come between.
CountReset ==
  /\ reset_count' = IF reset_count < ResetsForService THEN reset_count + 1
                                                      ELSE reset_count
  /\ service_mode_active' = (service_mode_active \/ reset_count' = ResetsForService)

LeaveServiceMode == reset_count' = 0 /\ service_mode_active' = FALSE

Gate(p) ==
  IF Leaves(p) THEN LeaveServiceMode
  ELSE IF p.valid /\ IsReset(p) THEN CountReset
  ELSE UNCHANGED <<reset_count, service_mode_active>>

\* The instruction the packet has for this decoder.
Carried(p) ==
  IF p.valid /\ IsService(p) THEN p.service
  ELSE IF Leaves(p) /\ IsOurs(p) THEN p.instruction
  ELSE NoService

WatchedBy(p) == IF p.type = "ACCESSORY" THEN AccessoryAddressCvs ELSE AddressCvs

\* DccPacketDecoder_process_packet.
Process(p) == Gate(p) /\ Execute(Carried(p), WatchedBy(p))

PushesBy(p) ==
  LET i == Carried(p)
  IN Writes(i) /\ PushesAddress(i.cv, ByteWritten(i), WatchedBy(p))

PacketInit ==
  /\ cvs = Defaults /\ cache = Resolve(Defaults)
  /\ reset_count = 0 /\ service_mode_active = FALSE
-----------------------------------------------------------------------------
\* While the lock's two keys differ no CV changes but the keys themselves and,
\* all together, by a factory reset, whichever way a write comes in: a
\* programming instruction on either track, a single bit, consist control, an
\* accessory decoder's instruction or the application.
LockHolds ==
  [][Locked /\ cvs' # Defaults =>
       \A cv \in DOMAIN cvs \ LockKeys : cvs'[cv] = cvs[cv]]_cvs
=============================================================================
