---------------------------- MODULE DccScheduler ----------------------------
(***************************************************************************)
(* The main-track packet scheduler, src/src/dcc/dcc_scheduler.c.           *)
(*                                                                         *)
(* A pool of slots holds one-shot commands and auto-refresh commands.      *)
(* Each packet cycle DccScheduler_run() ages the refresh slots, picks one  *)
(* slot (or an idle packet) and hands it to the single-buffered bit        *)
(* encoder; the encoder's ISR reports the packet's end, which starts the   *)
(* next cycle.  Here the encoder is reduced to what its interface promises *)
(* (load_packet fills its buffer, later on_packet_complete is called       *)
(* once); DccMainTrack composes the scheduler with the real encoder and    *)
(* shows that it implements this module.                                   *)
(*                                                                         *)
(* A run of the handler has two steps, because the application's           *)
(* on_packet_sent hook is called between handing the packet over           *)
(* (Send...) and charging the slot for it (Charge).                        *)
(***************************************************************************)
EXTENDS Integers

CONSTANTS
  SlotCount,      \* USER_DEFINED_DCC_SCHEDULER_SLOT_COUNT
  Commands,       \* the commands the application may insert
  HookCommands,   \* the commands its on_packet_sent hook may insert
  Removable,      \* the addresses it may remove from the auto-refresh
  PromptSends,    \* DCC_REFRESH_PROMPT_SENDS
  ColdCycles,     \* DCC_REFRESH_COLD_CYCLES, 0 = flat ring
  ColdMaxCycles,  \* DCC_REFRESH_COLD_MAX_CYCLES
  UnsentLimit     \* where unsent_cycles saturates (UINT16_MAX in the code)

\* dcc_tag_enum: the sub-key for duplicate combining.
Tags == {"SPEED", "FUNC_GROUP_1", "FUNC_GROUP_2A", "FUNC_GROUP_2B",
         "FUNC_F13_F20", "FUNC_F21_F28", "FUNC_F29_F36", "FUNC_F37_F44",
         "FUNC_F45_F52", "FUNC_F53_F60", "FUNC_F61_F68", "ACCESSORY", "CV",
         "CONSIST", "BINARY_STATE", "ANALOG_FUNC"}

(***************************************************************************)
(* A command is what the application hands to insert: the packet, reduced  *)
(* to its repeat count and to its first byte, which for the short          *)
(* addresses modelled is the address itself, and the combining key.        *)
(***************************************************************************)
Command == [address : 1..127, tag : Tags, priority : 0..5,
            auto_refresh : BOOLEAN, repeat_count : 0..255]

ASSUME SlotCountAssumption == SlotCount \in Nat \ {0}
ASSUME CommandsAssumption  == /\ Commands \subseteq Command
                              /\ HookCommands \subseteq Commands
ASSUME PacingAssumption    ==
  /\ PromptSends \in 0..255
  /\ ColdCycles \in Nat /\ ColdMaxCycles \in Nat /\ UnsentLimit \in Nat
  /\ ColdCycles > 0 => PromptSends >= 1 /\ ColdMaxCycles >= ColdCycles

VARIABLES
  slots,                      \* the slot pool
  refresh_index,              \* cursor of the burst pass and the flat ring
  refresh_cold_index,         \* cursor of the overdue and due passes
  refresh_last_was_overdue,   \* the last refresh send was an overdue one
  last_addr_byte,             \* first byte of the last packet loaded, 0 if idle
  first_packet_sent,
  packet_complete_flag,       \* set by the ISR, consumed by the run
  charging,                   \* the slot whose packet has been handed over
  charging_one_shot,          \* which branch of the run handed it over
  buffered,                   \* the encoder holds a packet (packet_loaded)
  track                       \* first byte of the packet it holds or held

vars == <<slots, refresh_index, refresh_cold_index, refresh_last_was_overdue,
          last_addr_byte, first_packet_sent, packet_complete_flag, charging,
          charging_one_shot, buffered, track>>

handed == <<charging, charging_one_shot>>
cursors == <<refresh_index, refresh_cold_index, refresh_last_was_overdue>>

Slots  == 0 .. SlotCount - 1
NoSlot == SlotCount
Idle   == 0                   \* first byte 0x00 stands for the idle packet

Slot == [active : BOOLEAN, address : 0..127, tag : Tags, priority : 0..5,
         auto_refresh : BOOLEAN, repeat_count : 0..255,
         prompt_sends_left : 0..255, unsent_cycles : Nat]

BlankSlot == [active |-> FALSE, address |-> 0, tag |-> "SPEED", priority |-> 0,
              auto_refresh |-> FALSE, repeat_count |-> 0,
              prompt_sends_left |-> 0, unsent_cycles |-> 0]

Init ==
  /\ slots = [i \in Slots |-> BlankSlot]
  /\ refresh_index = 0
  /\ refresh_cold_index = 0
  /\ refresh_last_was_overdue = FALSE
  /\ last_addr_byte = Idle
  /\ first_packet_sent = FALSE
  /\ packet_complete_flag = FALSE
  /\ charging = NoSlot
  /\ charging_one_shot = FALSE
  /\ buffered = FALSE
  /\ track = Idle
-----------------------------------------------------------------------------
(***************************************************************************)
(* The application's commands.                                             *)
(***************************************************************************)
Lowest(i, S) == i \in S /\ \A j \in S : i <= j

\* Mutant: a refresh command and a one-shot never combine.
SameKey_KindToo(cmd) == {i \in Slots : /\ slots[i].active
                                       /\ slots[i].address = cmd.address
                                       /\ slots[i].tag = cmd.tag
                                       /\ slots[i].auto_refresh = cmd.auto_refresh}

\* The slots an insert combines with: active, same address and same tag.
SameKey(cmd) == {i \in Slots : /\ slots[i].active
                               /\ slots[i].address = cmd.address
                               /\ slots[i].tag = cmd.tag}

FreeSlots == {i \in Slots : ~slots[i].active}

\* The slot's new contents; unsent_cycles restarts only in a slot just taken.
Filled(slot, cmd, unsent) ==
  [active |-> TRUE, address |-> cmd.address, tag |-> cmd.tag,
   priority |-> cmd.priority, auto_refresh |-> cmd.auto_refresh,
   repeat_count |-> cmd.repeat_count, prompt_sends_left |-> PromptSends,
   unsent_cycles |-> unsent]

\* An accepted insert.  A refused one (a one-shot with repeat count 0, or no
\* slot free) changes nothing.
Insert(cmd) ==
  /\ cmd.auto_refresh \/ cmd.repeat_count > 0
  /\ \/ \E i \in Slots :
          /\ Lowest(i, SameKey(cmd))
          /\ slots' = [slots EXCEPT ![i] = Filled(@, cmd, @.unsent_cycles)]
          /\ refresh_index' = IF /\ cmd.auto_refresh
                                 /\ slots[i].auto_refresh
                                 /\ ColdCycles = 0
                              THEN i ELSE refresh_index
     \/ \E i \in Slots :
          /\ SameKey(cmd) = {}
          /\ Lowest(i, FreeSlots)
          /\ slots' = [slots EXCEPT ![i] = Filled(@, cmd, 0)]
          /\ UNCHANGED refresh_index
  /\ UNCHANGED <<refresh_cold_index, refresh_last_was_overdue, last_addr_byte,
                 first_packet_sent, packet_complete_flag, handed, buffered,
                 track>>

AppInsert == charging = NoSlot /\ \E cmd \in Commands : Insert(cmd)

RemoveAddress(a) ==
  /\ charging = NoSlot
  /\ slots' = [i \in Slots |->
                 IF slots[i].active /\ slots[i].address = a
                 THEN [slots[i] EXCEPT !.active = FALSE] ELSE slots[i]]
  /\ UNCHANGED <<cursors, last_addr_byte, first_packet_sent,
                 packet_complete_flag, handed, buffered, track>>

\* remove_all_auto_refresh: every slot goes, the one-shots too.
Clear ==
  /\ charging = NoSlot
  /\ slots' = [i \in Slots |-> [slots[i] EXCEPT !.active = FALSE]]
  /\ refresh_index' = 0
  /\ refresh_cold_index' = 0
  /\ refresh_last_was_overdue' = FALSE
  /\ UNCHANGED <<last_addr_byte, first_packet_sent, packet_complete_flag,
                 handed, buffered, track>>
-----------------------------------------------------------------------------
(***************************************************************************)
(* Choosing the next packet.  pool is the slot pool after ageing.          *)
(***************************************************************************)
IsRefresh(slot) == slot.active /\ slot.auto_refresh

Aged(pool) ==
  [i \in Slots |->
     IF ColdCycles > 0 /\ IsRefresh(pool[i]) /\ pool[i].unsent_cycles < UnsentLimit
     THEN [pool[i] EXCEPT !.unsent_cycles = @ + 1] ELSE pool[i]]

OneShots(pool) == {i \in Slots : /\ pool[i].active
                                 /\ ~pool[i].auto_refresh
                                 /\ pool[i].repeat_count > 0}

\* The most urgent one-shot; the lower index wins a tie.
BestOneShot(i, pool) ==
  /\ i \in OneShots(pool)
  /\ \A j \in OneShots(pool) :
       \/ pool[i].priority < pool[j].priority
       \/ pool[i].priority = pool[j].priority /\ i <= j

InPass(slot, pass) ==
  /\ IsRefresh(slot)
  /\ CASE pass = "OVERDUE" -> slot.unsent_cycles >= ColdMaxCycles
       [] pass = "PROMPT"  -> slot.prompt_sends_left > 0
       [] pass = "DUE"     -> /\ slot.prompt_sends_left = 0
                              /\ slot.unsent_cycles >= ColdCycles
       [] OTHER            -> TRUE

Members(pool, pass) == {i \in Slots : InPass(pool[i], pass)}

\* Mutant: changed commands always go before overdue ones.
RefreshPass_PromptFirst(pool) ==
  IF ColdCycles = 0 THEN "ANY"
  ELSE IF Members(pool, "PROMPT") # {} THEN "PROMPT"
  ELSE IF Members(pool, "OVERDUE") # {} THEN "OVERDUE"
  ELSE "DUE"

\* The pass the next refresh packet comes from.  Right after an overdue send
\* a waiting burst goes first.
RefreshPass(pool) ==
  IF ColdCycles = 0 THEN "ANY"
  ELSE IF refresh_last_was_overdue /\ Members(pool, "PROMPT") # {} THEN "PROMPT"
  ELSE IF Members(pool, "OVERDUE") # {} THEN "OVERDUE"
  ELSE IF Members(pool, "PROMPT") # {} THEN "PROMPT"
  ELSE "DUE"

Cursor(pass) == IF pass \in {"OVERDUE", "DUE"} THEN refresh_cold_index
                                               ELSE refresh_index

\* How many slots a scan that starts at cursor c passes before it meets i.
ScanDistance(c, i) == IF i >= c THEN i - c ELSE i - c + SlotCount

NextInRing(i, c, S) ==
  i \in S /\ \A j \in S : ScanDistance(c, i) <= ScanDistance(c, j)

\* Mutant: the cursor does not wrap.
After_NoWrap(i) == i + 1

After(i) == IF i + 1 = SlotCount THEN 0 ELSE i + 1

\* _select_refresh picks slot i: its pass's cursor moves past it, whether or
\* not the packet is then sent.
SelectRefresh(i, pool) ==
  LET pass == RefreshPass(pool)
  IN  /\ NextInRing(i, Cursor(pass), Members(pool, pass))
      /\ refresh_index' = IF pass \in {"ANY", "PROMPT"} THEN After(i)
                                                        ELSE refresh_index
      /\ refresh_cold_index' = IF pass \in {"OVERDUE", "DUE"} THEN After(i)
                                                        ELSE refresh_cold_index
      /\ refresh_last_was_overdue' = (pass = "OVERDUE")

NoRefresh(pool) ==
  /\ Members(pool, RefreshPass(pool)) = {}
  /\ refresh_last_was_overdue' = FALSE
  /\ UNCHANGED <<refresh_index, refresh_cold_index>>

Aliases(byte) == byte \in 112..127          \* 0x70..0x7F

\* Mutant: the range of aliasing bytes starts one too late.
TooSoon_OffByOne(byte) == byte \in 113..127 /\ byte = last_addr_byte

\* S-9.2 section C footnote 11: this packet would follow one to the same
\* short address 112-127 at once.
TooSoon(byte) == Aliases(byte) /\ byte = last_addr_byte
-----------------------------------------------------------------------------
(***************************************************************************)
(* DccScheduler_run().                                                     *)
(***************************************************************************)
\* Mutant: the completion flag is read but not cleared.
CycleStarts_FlagKept ==
  /\ charging = NoSlot
  /\ first_packet_sent => packet_complete_flag
  /\ UNCHANGED packet_complete_flag
  /\ first_packet_sent' = TRUE

\* The handshake: after the first packet a run waits for the completion flag
\* and clears it.  The encoder is idle whenever the flag is set.
CycleStarts ==
  /\ charging = NoSlot
  /\ first_packet_sent => packet_complete_flag
  /\ packet_complete_flag' = FALSE
  /\ first_packet_sent' = TRUE

\* load_packet followed by the last_addr_byte assignment.
Load(byte) ==
  /\ buffered' = TRUE
  /\ track' = byte
  /\ last_addr_byte' = byte

LoadIdle == Load(Idle) /\ UNCHANGED handed

\* The chosen slot's packet goes out, or the idle spacer in its place.
LoadSlot(i, address, one_shot) ==
  \/ TooSoon(address) /\ LoadIdle
  \/ /\ ~TooSoon(address)
     /\ Load(address)
     /\ charging' = i
     /\ charging_one_shot' = one_shot

SendOneShot ==
  LET pool == Aged(slots)
  IN  /\ CycleStarts
      /\ slots' = pool
      /\ \E i \in Slots : /\ BestOneShot(i, pool)
                          /\ LoadSlot(i, pool[i].address, TRUE)
      /\ UNCHANGED cursors

SendRefresh ==
  LET pool == Aged(slots)
  IN  /\ CycleStarts
      /\ OneShots(pool) = {}
      /\ slots' = pool
      /\ \E i \in Slots : /\ SelectRefresh(i, pool)
                          /\ LoadSlot(i, pool[i].address, FALSE)

SendIdle ==
  LET pool == Aged(slots)
  IN  /\ CycleStarts
      /\ OneShots(pool) = {}
      /\ NoRefresh(pool)
      /\ slots' = pool
      /\ LoadIdle

\* The application's on_packet_sent hook, called with the packet handed over.
HookInsert == charging # NoSlot /\ \E cmd \in HookCommands : Insert(cmd)

\* Mutant: a one-shot that has run out is not freed.
ChargedOneShot_NotFreed(slot) ==
  [slot EXCEPT !.repeat_count = (@ - 1) % 256]

\* A one-shot has one repeat fewer, and its slot is freed after the last.
ChargedOneShot(slot) ==
  LET left == (slot.repeat_count - 1) % 256
  IN  [slot EXCEPT !.repeat_count = left, !.active = @ /\ left # 0]

ChargedRefresh(slot) ==
  [slot EXCEPT !.prompt_sends_left = IF @ > 0 THEN @ - 1 ELSE @,
               !.unsent_cycles = 0]

\* The rest of the run: the slot pays for the packet it sent.
Charge ==
  /\ charging # NoSlot
  /\ slots' = [slots EXCEPT ![charging] =
                 IF charging_one_shot THEN ChargedOneShot(@)
                                      ELSE ChargedRefresh(@)]
  /\ charging' = NoSlot
  /\ charging_one_shot' = FALSE
  /\ UNCHANGED <<cursors, last_addr_byte, first_packet_sent,
                 packet_complete_flag, buffered, track>>

\* The encoder's ISR: the packet's end bit has started its second half.
PacketComplete ==
  /\ buffered
  /\ buffered' = FALSE
  /\ packet_complete_flag' = TRUE
  /\ UNCHANGED <<slots, cursors, last_addr_byte, first_packet_sent, handed,
                 track>>

Run == SendOneShot \/ SendRefresh \/ SendIdle \/ Charge

Next ==
  \/ AppInsert
  \/ \E a \in Removable : RemoveAddress(a)
  \/ Clear
  \/ Run
  \/ HookInsert
  \/ PacketComplete

Spec == Init /\ [][Next]_vars

\* DccConfig_run() is called for ever and the encoder clocks every packet out.
FairSpec == Spec /\ WF_vars(Run) /\ WF_vars(PacketComplete)
-----------------------------------------------------------------------------
TypeOK ==
  /\ slots \in [Slots -> Slot]
  /\ refresh_index \in Slots
  /\ refresh_cold_index \in Slots
  /\ refresh_last_was_overdue \in BOOLEAN
  /\ last_addr_byte \in 0..127
  /\ first_packet_sent \in BOOLEAN
  /\ packet_complete_flag \in BOOLEAN
  /\ charging \in Slots \cup {NoSlot}
  /\ charging_one_shot \in BOOLEAN
  /\ buffered \in BOOLEAN
  /\ track \in 0..127

\* Duplicate combining: however inserts, removals, one-shots running out and
\* slots being reused interleave, two active slots never hold the same
\* address and tag, so a stale command cannot alternate with its successor.
UniqueKeys ==
  \A i, j \in Slots :
    /\ slots[i].active /\ slots[j].active
    /\ slots[i].address = slots[j].address /\ slots[i].tag = slots[j].tag
    => i = j

\* No slot is lost for good: an active one-shot still has sends to make, so it
\* is selectable and is freed in the end; with a count of 0 it would be
\* neither sent nor freed (the reason insert refuses one).
NoDeadOneShot ==
  \A i \in Slots :
    slots[i].active /\ ~slots[i].auto_refresh => slots[i].repeat_count > 0

\* The scheduler and the encoder's ISR never wait for each other: once the
\* first packet is out, either the encoder holds a packet that will complete
\* or its completion is waiting to be consumed, and never both (a packet
\* handed over while one is in the buffer would overwrite it).
Handoff ==
  IF first_packet_sent THEN buffered # packet_complete_flag
                       ELSE ~buffered /\ ~packet_complete_flag

\* What reaches the rails: of two packets in a row at most one is addressed to
\* a given short address 112-127, whichever slots they come from and whatever
\* is inserted, removed or cleared in between.
AliasSpacing ==
  [][~buffered /\ buffered' => ~(Aliases(track') /\ track' = track)]_vars

\* The starvation bound.  With no one-shots, no two slots for one address
\* 112-127 and no more slots than the ceiling, a refresh slot is never unsent
\* for longer than the ceiling plus the turns the other slots take: each of
\* them may be overdue before it, and each of those sends may let one changed
\* command through.
UnsentBound ==
  \A i \in Slots :
    IsRefresh(slots[i]) => slots[i].unsent_cycles < ColdMaxCycles + 2 * (SlotCount - 1)

\* However often the application changes other commands, every refresh slot
\* that stays in the pool is sent again and again (dcc_defines.h:147-149).  Two
\* slots for one address 112-127 break it, while one of them keeps changing.
EveryRefreshSent ==
  \A i \in Slots : []<>(~IsRefresh(slots[i]) \/ charging = i)
=============================================================================
