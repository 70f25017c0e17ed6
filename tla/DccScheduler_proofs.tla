-------------------------- MODULE DccScheduler_proofs --------------------------
(***************************************************************************)
(* Theorems about the packet scheduler, for any number of slots, any       *)
(* commands and any pacing constants.                                      *)
(***************************************************************************)
EXTENDS DccScheduler, TLAPS

\* What _select_refresh and the one-shot branch have in common once a slot is
\* chosen; every step of the run but Charge is one of these.
SendsPacket == SendOneShot \/ SendRefresh \/ SendIdle

USE DEF Slots, NoSlot, Idle
-----------------------------------------------------------------------------
(***************************************************************************)
(* Types.                                                                  *)
(***************************************************************************)

\* Filling a slot with a command gives a slot (insert's field assignments).
LEMMA FilledType ==
  ASSUME NEW cmd \in Commands, NEW unsent \in Nat, NEW slot
  PROVE  Filled(slot, cmd, unsent) \in Slot
BY CommandsAssumption, PacingAssumption DEF Filled, Slot, Command

\* The slot the pool starts with is a slot, and not an active one.
LEMMA BlankSlotType == BlankSlot \in Slot /\ ~BlankSlot.active
BY DEF BlankSlot, Slot, Tags

\* A slot with another unsent count is a slot with the same command.
LEMMA UnsentSlot ==
  ASSUME NEW slot \in Slot, NEW unsent \in Nat
  PROVE  LET other == [slot EXCEPT !.unsent_cycles = unsent]
         IN  /\ other \in Slot
             /\ other.active = slot.active
             /\ other.address = slot.address
             /\ other.tag = slot.tag
             /\ other.auto_refresh = slot.auto_refresh
             /\ other.repeat_count = slot.repeat_count
BY DEF Slot

\* Ageing changes nothing but unsent_cycles (_age_refresh_slots).
LEMMA AgedSlots ==
  ASSUME NEW pool \in [Slots -> Slot]
  PROVE  /\ Aged(pool) \in [Slots -> Slot]
         /\ \A i \in Slots :
              /\ Aged(pool)[i].active = pool[i].active
              /\ Aged(pool)[i].address = pool[i].address
              /\ Aged(pool)[i].tag = pool[i].tag
              /\ Aged(pool)[i].auto_refresh = pool[i].auto_refresh
              /\ Aged(pool)[i].repeat_count = pool[i].repeat_count
<1>1. ASSUME NEW i \in Slots
      PROVE  /\ Aged(pool)[i] \in Slot
             /\ Aged(pool)[i].active = pool[i].active
             /\ Aged(pool)[i].address = pool[i].address
             /\ Aged(pool)[i].tag = pool[i].tag
             /\ Aged(pool)[i].auto_refresh = pool[i].auto_refresh
             /\ Aged(pool)[i].repeat_count = pool[i].repeat_count
  <2>1. pool[i] \in Slot
    OBVIOUS
  <2>2. CASE Aged(pool)[i] = pool[i]
    BY <2>1, <2>2
  <2>3. CASE Aged(pool)[i] = [pool[i] EXCEPT !.unsent_cycles = @ + 1]
    <3>1. pool[i].unsent_cycles + 1 \in Nat
      BY <2>1 DEF Slot
    <3> QED
      BY <2>1, <2>3, <3>1, UnsentSlot
  <2> QED
    BY <2>2, <2>3 DEF Aged
<1>2. DOMAIN Aged(pool) = Slots
  BY DEF Aged
<1>3. Aged(pool) = [i \in Slots |-> Aged(pool)[i]]
  BY DEF Aged
<1> QED
  BY <1>1, <1>3

\* A charged slot is a slot with the same key, active only if it was.
LEMMA ChargedSlot ==
  ASSUME NEW slot \in Slot
  PROVE  /\ ChargedOneShot(slot) \in Slot
         /\ ChargedRefresh(slot) \in Slot
         /\ ChargedOneShot(slot).active =>
              slot.active /\ ChargedOneShot(slot).repeat_count > 0
         /\ ChargedRefresh(slot).active = slot.active
         /\ ChargedRefresh(slot).repeat_count = slot.repeat_count
         /\ \A charged \in {ChargedOneShot(slot), ChargedRefresh(slot)} :
              /\ charged.address = slot.address
              /\ charged.tag = slot.tag
              /\ charged.auto_refresh = slot.auto_refresh
<1> DEFINE left == (slot.repeat_count - 1) % 256
           live == slot.active /\ left # 0
<1>1. left \in 0..255 /\ live \in BOOLEAN
  BY DEF Slot
<1>2. ChargedOneShot(slot)
        = [slot EXCEPT !.repeat_count = left, !.active = live]
  BY DEF ChargedOneShot
<1>3. live => slot.active /\ left > 0
  BY <1>1
<1>4. /\ ChargedOneShot(slot) \in Slot
      /\ ChargedOneShot(slot).active = live
      /\ ChargedOneShot(slot).repeat_count = left
      /\ ChargedOneShot(slot).address = slot.address
      /\ ChargedOneShot(slot).tag = slot.tag
      /\ ChargedOneShot(slot).auto_refresh = slot.auto_refresh
  <2> HIDE DEF left, live
  <2> DEFINE counted == [slot EXCEPT !.repeat_count = left]
  <2>1. counted \in Slot /\ counted.repeat_count = left
    BY <1>1 DEF Slot
  <2>2. /\ counted.address = slot.address /\ counted.tag = slot.tag
        /\ counted.auto_refresh = slot.auto_refresh
    BY DEF Slot
  <2>3. ChargedOneShot(slot) = [counted EXCEPT !.active = live]
    BY <1>2
  <2> HIDE DEF counted
  <2> QED
    BY <1>1, <2>1, <2>2, <2>3 DEF Slot
<1>5. /\ ChargedRefresh(slot) \in Slot
      /\ ChargedRefresh(slot).active = slot.active
      /\ ChargedRefresh(slot).repeat_count = slot.repeat_count
      /\ ChargedRefresh(slot).address = slot.address
      /\ ChargedRefresh(slot).tag = slot.tag
      /\ ChargedRefresh(slot).auto_refresh = slot.auto_refresh
  <2> DEFINE sends  == IF slot.prompt_sends_left > 0
                       THEN slot.prompt_sends_left - 1
                       ELSE slot.prompt_sends_left
             prompt == [slot EXCEPT !.prompt_sends_left = sends]
  <2>1. sends \in 0..255
    BY DEF Slot
  <2>2. ChargedRefresh(slot) = [prompt EXCEPT !.unsent_cycles = 0]
    BY DEF ChargedRefresh
  <2> HIDE DEF sends
  <2>3. /\ prompt \in Slot
        /\ prompt.active = slot.active
        /\ prompt.repeat_count = slot.repeat_count
        /\ prompt.address = slot.address
        /\ prompt.tag = slot.tag
        /\ prompt.auto_refresh = slot.auto_refresh
    BY <2>1 DEF Slot
  <2> HIDE DEF prompt
  <2> QED
    BY <2>2, <2>3, UnsentSlot
<1>6. ASSUME NEW charged \in {ChargedOneShot(slot), ChargedRefresh(slot)}
      PROVE  /\ charged.address = slot.address
             /\ charged.tag = slot.tag
             /\ charged.auto_refresh = slot.auto_refresh
  BY <1>4, <1>5
<1> HIDE DEF left, live
<1>7. ChargedOneShot(slot).active =>
        slot.active /\ ChargedOneShot(slot).repeat_count > 0
  BY <1>3, <1>4
<1> QED
  BY <1>4, <1>5, <1>6, <1>7

\* A cursor moved past a slot is a slot again.
LEMMA AfterType == ASSUME NEW i \in Slots PROVE After(i) \in Slots
BY SlotCountAssumption DEF After

\* What a step that inserts nothing may do to the pool: a slot keeps its key
\* and kind, is active only if it was, and counts down to 0 only when freed.
Thins ==
  /\ slots' \in [Slots -> Slot]
  /\ \A i \in Slots :
       /\ slots'[i].active => slots[i].active
       /\ slots'[i].address = slots[i].address
       /\ slots'[i].tag = slots[i].tag
       /\ slots'[i].auto_refresh = slots[i].auto_refresh
       /\ slots'[i].active /\ slots[i].repeat_count > 0
            => slots'[i].repeat_count > 0

\* What an insert does to it: slot i is filled with cmd, the first slot with
\* that key or a slot taken because no active slot has it.
FillsSlot(i, cmd) ==
  /\ slots' \in [Slots -> Slot]
  /\ \A j \in Slots \ {i} : slots'[j] = slots[j]
  /\ slots'[i].address = cmd.address /\ slots'[i].tag = cmd.tag
  /\ slots'[i].auto_refresh = cmd.auto_refresh
  /\ slots'[i].repeat_count = cmd.repeat_count
  /\ cmd.auto_refresh \/ cmd.repeat_count > 0
  /\ i \in SameKey(cmd) \/ SameKey(cmd) = {}

\* An accepted insert fills one slot with the command, and keeps the cursor a slot.
LEMMA InsertFills ==
  ASSUME TypeOK, NEW cmd \in Commands, Insert(cmd)
  PROVE  /\ \E i \in Slots : FillsSlot(i, cmd)
         /\ refresh_index' \in Slots
<1>1. ASSUME NEW i \in Slots, NEW unsent \in Nat,
             slots' = [slots EXCEPT ![i] = Filled(@, cmd, unsent)],
             i \in SameKey(cmd) \/ SameKey(cmd) = {}
      PROVE  FillsSlot(i, cmd)
  <2>1. Filled(slots[i], cmd, unsent) \in Slot
    BY FilledType
  <2>2. slots' \in [Slots -> Slot]
    BY <1>1, <2>1 DEF TypeOK
  <2>3. slots'[i] = Filled(slots[i], cmd, unsent)
    BY <1>1 DEF TypeOK
  <2>4. \A j \in Slots \ {i} : slots'[j] = slots[j]
    BY <1>1 DEF TypeOK
  <2>5. cmd.auto_refresh \/ cmd.repeat_count > 0
    BY DEF Insert
  <2> QED
    BY <1>1, <2>2, <2>3, <2>4, <2>5 DEF FillsSlot, Filled
<1>2. CASE \E i \in Slots : /\ Lowest(i, SameKey(cmd))
                            /\ slots' = [slots EXCEPT ![i] = Filled(@, cmd, @.unsent_cycles)]
                            /\ refresh_index' \in {i, refresh_index}
  <2>1. PICK i \in Slots : /\ Lowest(i, SameKey(cmd))
                           /\ slots' = [slots EXCEPT ![i] = Filled(@, cmd, @.unsent_cycles)]
                           /\ refresh_index' \in {i, refresh_index}
    BY <1>2
  <2>2. slots[i].unsent_cycles \in Nat
    BY DEF TypeOK, Slot
  <2>3. slots' = [slots EXCEPT ![i] = Filled(@, cmd, slots[i].unsent_cycles)]
    BY <2>1
  <2>4. i \in SameKey(cmd)
    BY <2>1 DEF Lowest
  <2>5. FillsSlot(i, cmd)
    BY <1>1, <2>2, <2>3, <2>4
  <2> QED
    BY <2>1, <2>5 DEF TypeOK
<1>3. CASE \E i \in Slots : /\ SameKey(cmd) = {}
                            /\ slots' = [slots EXCEPT ![i] = Filled(@, cmd, 0)]
                            /\ refresh_index' = refresh_index
  BY <1>1, <1>3 DEF TypeOK
<1> QED
  BY <1>2, <1>3 DEF Insert
-----------------------------------------------------------------------------
(***************************************************************************)
(* Every step inserts or thins.                                            *)
(***************************************************************************)

\* A run that sends changes the pool by ageing it alone.
LEMMA SendThins ==
  ASSUME TypeOK, SendsPacket
  PROVE  Thins
<1>1. slots' = Aged(slots)
  BY DEF SendsPacket, SendOneShot, SendRefresh, SendIdle
<1>2. slots \in [Slots -> Slot]
  BY DEF TypeOK
<1> QED
  BY <1>1, <1>2, AgedSlots DEF Thins

\* Charging a slot for its packet may free it, and changes no other slot.
LEMMA ChargeThins ==
  ASSUME TypeOK, Charge
  PROVE  Thins
<1>1. charging \in Slots
  BY DEF TypeOK, Charge
<1>2. slots[charging] \in Slot
  BY <1>1 DEF TypeOK
<1>3. PICK charged \in {ChargedOneShot(slots[charging]),
                        ChargedRefresh(slots[charging])} :
        slots' = [slots EXCEPT ![charging] = charged]
  BY DEF Charge
<1>4. /\ charged \in Slot
      /\ charged.active => slots[charging].active
      /\ charged.address = slots[charging].address
      /\ charged.tag = slots[charging].tag
      /\ charged.auto_refresh = slots[charging].auto_refresh
      /\ charged.active /\ slots[charging].repeat_count > 0
           => charged.repeat_count > 0
  BY <1>2, <1>3, ChargedSlot
<1>5. slots' \in [Slots -> Slot] /\ slots'[charging] = charged
  BY <1>1, <1>3, <1>4 DEF TypeOK
<1>6. \A i \in Slots \ {charging} : slots'[i] = slots[i]
  BY <1>3 DEF TypeOK
<1> QED
  BY <1>4, <1>5, <1>6 DEF Thins

\* Freeing a slot leaves its command in place.
LEMMA FreedSlot ==
  ASSUME NEW slot \in Slot
  PROVE  LET freed == [slot EXCEPT !.active = FALSE]
         IN  /\ freed \in Slot
             /\ ~freed.active
             /\ freed.address = slot.address
             /\ freed.tag = slot.tag
             /\ freed.auto_refresh = slot.auto_refresh
             /\ freed.repeat_count = slot.repeat_count
<1>1. ASSUME NEW live \in BOOLEAN
      PROVE  LET other == [slot EXCEPT !.active = live]
             IN  /\ other \in Slot
                 /\ other.active = live
                 /\ other.address = slot.address
                 /\ other.tag = slot.tag
                 /\ other.auto_refresh = slot.auto_refresh
                 /\ other.repeat_count = slot.repeat_count
  BY DEF Slot
<1> QED
  BY <1>1

\* Freeing any slots thins the pool (remove_address and clear).
LEMMA RemoveThins ==
  ASSUME TypeOK,
         slots' \in {[i \in Slots |-> IF i \in freed
                                      THEN [slots[i] EXCEPT !.active = FALSE]
                                      ELSE slots[i]] : freed \in SUBSET Slots}
  PROVE  Thins
<1>1. PICK freed \in SUBSET Slots :
        slots' = [i \in Slots |-> IF i \in freed
                                  THEN [slots[i] EXCEPT !.active = FALSE]
                                  ELSE slots[i]]
  OBVIOUS
<1>2. ASSUME NEW i \in Slots
      PROVE  /\ slots'[i] \in Slot
             /\ slots'[i].active => slots[i].active
             /\ slots'[i].address = slots[i].address
             /\ slots'[i].tag = slots[i].tag
             /\ slots'[i].auto_refresh = slots[i].auto_refresh
             /\ slots'[i].repeat_count = slots[i].repeat_count
  <2>1. slots[i] \in Slot
    BY DEF TypeOK
  <2>2. CASE i \in freed
    <3>1. slots'[i] = [slots[i] EXCEPT !.active = FALSE]
      BY <1>1, <2>2
    <3> QED
      BY <2>1, <3>1, FreedSlot
  <2>3. CASE i \notin freed
    BY <1>1, <2>1, <2>3
  <2> QED
    BY <2>2, <2>3
<1>3. slots' \in [Slots -> Slot]
  BY <1>1, <1>2
<1> QED
  BY <1>2, <1>3 DEF Thins

\* Every step thins the pool or fills one slot of it.
LEMMA StepCases ==
  ASSUME TypeOK, [Next]_vars
  PROVE  \/ Thins
         \/ \E cmd \in Commands : \E i \in Slots : FillsSlot(i, cmd)
<1>1. CASE UNCHANGED vars
  BY <1>1 DEF vars, Thins, TypeOK
<1>2. CASE AppInsert
  BY <1>2, InsertFills DEF AppInsert
<1>3. ASSUME NEW a \in Removable, RemoveAddress(a)
      PROVE  Thins
  <2>1. slots' = [i \in Slots |->
                    IF i \in {k \in Slots : slots[k].active /\ slots[k].address = a}
                    THEN [slots[i] EXCEPT !.active = FALSE] ELSE slots[i]]
    BY <1>3 DEF RemoveAddress
  <2> QED
    BY <2>1, RemoveThins
<1>4. CASE Clear
  <2>1. slots' = [i \in Slots |-> IF i \in Slots
                                  THEN [slots[i] EXCEPT !.active = FALSE]
                                  ELSE slots[i]]
    BY <1>4 DEF Clear
  <2> QED
    BY <2>1, RemoveThins
<1>5. CASE Run
  BY <1>5, SendThins, ChargeThins DEF Run, SendsPacket
<1>6. CASE HookInsert
  BY <1>6, InsertFills, CommandsAssumption DEF HookInsert
<1>7. CASE PacketComplete
  BY <1>7 DEF PacketComplete, Thins, TypeOK
<1> QED
  BY <1>1, <1>2, <1>3, <1>4, <1>5, <1>6, <1>7 DEF Next
-----------------------------------------------------------------------------
(***************************************************************************)
(* The theorems.                                                           *)
(***************************************************************************)

\* insert stores a command's fields, ageing and charging keep a slot's fields
\* in their ranges, and both cursors stay inside the pool as they wrap.
LEMMA TypeStep ==
  ASSUME TypeOK, [Next]_vars
  PROVE  TypeOK'
<1> USE DEF TypeOK
<1>1. slots' \in [Slots -> Slot]
  BY StepCases DEF Thins, FillsSlot
<1>2. CASE UNCHANGED vars
  BY <1>2 DEF vars, cursors, handed
<1>3. CASE AppInsert
  <2>1. PICK cmd \in Commands : Insert(cmd)
    BY <1>3 DEF AppInsert
  <2>2. refresh_index' \in Slots
    BY <2>1, InsertFills
  <2> QED
    BY <1>1, <2>1, <2>2 DEF Insert, handed
<1>4. CASE \E a \in Removable : RemoveAddress(a)
  BY <1>1, <1>4 DEF RemoveAddress, cursors, handed
<1>5. CASE Clear
  <2>1. 0 \in Slots
    BY SlotCountAssumption
  <2> QED
    BY <1>1, <1>5, <2>1 DEF Clear, handed
<1>6. CASE HookInsert
  <2>1. PICK cmd \in Commands : Insert(cmd)
    BY <1>6, CommandsAssumption DEF HookInsert
  <2>2. refresh_index' \in Slots
    BY <2>1, InsertFills
  <2> QED
    BY <1>1, <2>1, <2>2 DEF Insert, handed
<1>7. CASE PacketComplete
  BY <1>7 DEF PacketComplete, cursors, handed
<1>8. CASE Charge
  BY <1>1, <1>8 DEF Charge, cursors
<1>9. CASE SendsPacket
  <2>1. /\ packet_complete_flag' \in BOOLEAN
        /\ first_packet_sent' \in BOOLEAN
    BY <1>9 DEF SendsPacket, SendOneShot, SendRefresh, SendIdle, CycleStarts
  <2>2. ASSUME NEW i \in Slots, NEW one_shot \in BOOLEAN,
               LoadSlot(i, Aged(slots)[i].address, one_shot)
        PROVE  /\ last_addr_byte' \in 0..127 /\ track' \in 0..127
               /\ buffered' \in BOOLEAN
               /\ charging' \in Slots \cup {NoSlot}
               /\ charging_one_shot' \in BOOLEAN
    <3> DEFINE byte == Aged(slots)[i].address
    <3>1. Aged(slots)[i] \in Slot
      BY AgedSlots
    <3>2. byte \in 0..127
      BY <3>1 DEF Slot
    <3> HIDE DEF byte
    <3>3. CASE LoadIdle
      BY <3>3 DEF LoadIdle, Load, handed
    <3>4. CASE Load(byte) /\ charging' = i /\ charging_one_shot' = one_shot
      BY <3>2, <3>4 DEF Load
    <3> QED
      BY <2>2, <3>3, <3>4 DEF LoadSlot, byte
  <2>3. CASE SendOneShot
    BY <1>1, <2>1, <2>2, <2>3 DEF SendOneShot, cursors
  <2>4. CASE SendRefresh
    <3>1. PICK i \in Slots : /\ SelectRefresh(i, Aged(slots))
                             /\ LoadSlot(i, Aged(slots)[i].address, FALSE)
      BY <2>4 DEF SendRefresh
    <3>2. /\ refresh_index' \in Slots /\ refresh_cold_index' \in Slots
          /\ refresh_last_was_overdue' \in BOOLEAN
      BY <3>1, AfterType DEF SelectRefresh
    <3> QED
      BY <1>1, <2>1, <2>2, <3>1, <3>2 DEF TypeOK
  <2>5. CASE SendIdle
    <3>1. UNCHANGED <<refresh_index, refresh_cold_index, handed>>
      BY <2>5 DEF SendIdle, NoRefresh, LoadIdle
    <3>2. refresh_last_was_overdue' \in BOOLEAN /\ buffered' \in BOOLEAN
      BY <2>5 DEF SendIdle, NoRefresh, LoadIdle, Load
    <3>3. last_addr_byte' \in 0..127 /\ track' \in 0..127
      BY <2>5 DEF SendIdle, LoadIdle, Load
    <3> QED
      BY <1>1, <2>1, <3>1, <3>2, <3>3 DEF handed
  <2> QED
    BY <1>9, <2>3, <2>4, <2>5 DEF SendsPacket
<1> QED
  BY <1>2, <1>3, <1>4, <1>5, <1>6, <1>7, <1>8, <1>9 DEF Next, Run, SendsPacket

\* The scheduler's fields keep their types.
THEOREM SchedulerTypes == Spec => []TypeOK
<1>1. Init => TypeOK
  <2>1. 0 \in Slots
    BY SlotCountAssumption
  <2>2. [i \in Slots |-> BlankSlot] \in [Slots -> Slot]
    BY BlankSlotType
  <2>3. Init => /\ refresh_last_was_overdue \in BOOLEAN
                /\ first_packet_sent \in BOOLEAN
                /\ packet_complete_flag \in BOOLEAN
                /\ charging_one_shot \in BOOLEAN
                /\ buffered \in BOOLEAN
    BY DEF Init
  <2> QED
    BY <2>1, <2>2, <2>3 DEF Init, TypeOK
<1> QED
  BY <1>1, TypeStep, PTL DEF Spec

\* Duplicate combining (dcc_scheduler.c, insert and _find_slot): no two active
\* slots ever hold the same address and tag.
THEOREM SchedulerUniqueKeys == Spec => []UniqueKeys
<1>1. Init => UniqueKeys
  BY BlankSlotType DEF Init, UniqueKeys
<1>2. ASSUME TypeOK, UniqueKeys, [Next]_vars
      PROVE  UniqueKeys'
  <2>1. CASE Thins
    BY <1>2, <2>1 DEF Thins, UniqueKeys
  <2>2. ASSUME NEW cmd \in Commands, NEW k \in Slots, FillsSlot(k, cmd)
        PROVE  UniqueKeys'
    <3>1. ASSUME NEW j \in Slots \ {k}, slots[j].active
          PROVE  ~(slots[j].address = cmd.address /\ slots[j].tag = cmd.tag)
      <4>1. j \in SameKey(cmd) => j = k
        BY <1>2, <2>2 DEF FillsSlot, SameKey, UniqueKeys
      <4> QED
        BY <3>1, <4>1 DEF SameKey
    <3> QED
      BY <1>2, <2>2, <3>1 DEF FillsSlot, UniqueKeys
  <2> QED
    BY <1>2, <2>1, <2>2, StepCases
<1> QED
  BY <1>1, <1>2, SchedulerTypes, PTL DEF Spec

\* No slot is lost (dcc_scheduler.c, the repeat_count check of insert and the
\* freeing in run): an active one-shot always has sends left to make.
THEOREM SchedulerNoDeadOneShot == Spec => []NoDeadOneShot
<1>1. Init => NoDeadOneShot
  BY BlankSlotType DEF Init, NoDeadOneShot
<1>2. ASSUME TypeOK, NoDeadOneShot, [Next]_vars
      PROVE  NoDeadOneShot'
  <2>1. CASE Thins
    BY <1>2, <2>1 DEF Thins, NoDeadOneShot
  <2>2. ASSUME NEW cmd \in Commands, NEW k \in Slots, FillsSlot(k, cmd)
        PROVE  NoDeadOneShot'
    BY <1>2, <2>2 DEF FillsSlot, NoDeadOneShot
  <2> QED
    BY <1>2, <2>1, <2>2, StepCases
<1> QED
  BY <1>1, <1>2, SchedulerTypes, PTL DEF Spec

\* The double handshake of run and the encoder (packet_complete_flag and
\* packet_loaded): from the first packet on exactly one of the two waits.
THEOREM SchedulerHandoff == Spec => []Handoff
<1>1. Init => Handoff
  BY DEF Init, Handoff
<1>2. ASSUME TypeOK, Handoff, [Next]_vars
      PROVE  Handoff'
  <2> USE <1>2 DEF Handoff
  <2>1. CASE UNCHANGED vars
    BY <2>1 DEF vars
  <2>2. CASE AppInsert \/ HookInsert
    BY <2>2 DEF AppInsert, HookInsert, Insert
  <2>3. CASE \E a \in Removable : RemoveAddress(a)
    BY <2>3 DEF RemoveAddress
  <2>4. CASE Clear
    BY <2>4 DEF Clear
  <2>5. CASE SendsPacket
    BY <2>5 DEF SendsPacket, SendOneShot, SendRefresh, SendIdle, CycleStarts,
                LoadSlot, LoadIdle, Load
  <2>6. CASE Charge
    BY <2>6 DEF Charge
  <2>7. CASE PacketComplete
    BY <2>7 DEF PacketComplete, TypeOK
  <2> QED
    BY <2>1, <2>2, <2>3, <2>4, <2>5, <2>6, <2>7 DEF Next, Run, SendsPacket
<1> QED
  BY <1>1, <1>2, SchedulerTypes, PTL DEF Spec

\* The scheduler's memory of the last packet is the packet on the track
\* (last_addr_byte is assigned wherever load_packet is called).
RemembersTrack == last_addr_byte = track

\* Alias spacing (_aliases and the two checks in run): two packets in a row are
\* never addressed to the same short address 112-127.
THEOREM SchedulerAliasSpacing == Spec => AliasSpacing
<1>1. Init => RemembersTrack
  BY DEF Init, RemembersTrack
<1>2. ASSUME RemembersTrack, [Next]_vars
      PROVE  /\ RemembersTrack'
             /\ [~buffered /\ buffered' => ~(Aliases(track') /\ track' = track)]_vars
  <2> USE <1>2 DEF RemembersTrack
  <2>1. CASE UNCHANGED vars
    BY <2>1 DEF vars
  <2>2. CASE AppInsert \/ HookInsert
    BY <2>2 DEF AppInsert, HookInsert, Insert
  <2>3. CASE \E a \in Removable : RemoveAddress(a)
    BY <2>3 DEF RemoveAddress
  <2>4. CASE Clear
    BY <2>4 DEF Clear
  <2>5. CASE SendsPacket
    <3>1. /\ RemembersTrack'
          /\ track' = Idle \/ ~TooSoon(track')
      BY <2>5 DEF SendsPacket, SendOneShot, SendRefresh, SendIdle, LoadSlot,
                  LoadIdle, Load
    <3>2. ~(Aliases(track') /\ track' = track)
      BY <3>1 DEF TooSoon, Aliases
    <3> QED
      BY <3>1, <3>2
  <2>6. CASE Charge
    BY <2>6 DEF Charge
  <2>7. CASE PacketComplete
    BY <2>7 DEF PacketComplete
  <2> QED
    BY <2>1, <2>2, <2>3, <2>4, <2>5, <2>6, <2>7 DEF Next, Run, SendsPacket
<1> QED
  BY <1>1, <1>2, PTL DEF Spec, AliasSpacing
-----------------------------------------------------------------------------
(***************************************************************************)
(* The starvation bound of the packet scheduler, for any number of slots   *)
(* up to the ceiling and any pacing: however the application inserts,      *)
(* changes and removes refresh commands, no slot stays unsent for longer   *)
(* than UnsentBound says.                                                  *)
(*                                                                         *)
(* The measure is a slot's age plus two cycles for every slot the cold     *)
(* cursor passes before it: an overdue send takes one turn off the second  *)
(* and may be followed by one prompt send, which the flag                  *)
(* refresh_last_was_overdue pays for.  What has to be shown is that no     *)
(* slot is overdue with a full round still before it; that could only be   *)
(* the slot just behind the cursor, and it is either fresh (ColdSentFresh) *)
(* or shares its age with the slot at the cursor, which happens only to    *)
(* slots that are waiting for their first prompt send (PairWaits).         *)
(***************************************************************************)
\* What the bound needs of the constants: at least two slots, no more slots
\* than the ceiling (dcc_defines.h says so too), the cold tier in use, and an
\* age counter that reaches the ceiling.
Paced == /\ SlotCount >= 2 /\ ColdMaxCycles >= 3 /\ SlotCount <= ColdMaxCycles
         /\ ColdCycles > 0 /\ UnsentLimit >= ColdMaxCycles

\* What it needs of the application: no one-shots, which go before everything,
\* and one slot for each address that aliases a service-mode command, since two
\* of them keep each other off the track.
RefreshOnly == /\ \A cmd \in Commands : cmd.auto_refresh
               /\ \A cmd, other \in Commands :
                    Aliases(cmd.address) /\ cmd.address = other.address
                      => cmd.tag = other.tag

-----------------------------------------------------------------------------
(***************************************************************************)
(* The ring.                                                               *)
(***************************************************************************)

\* A scan from c meets c first and the slot just behind c last (_select_refresh).
LEMMA ScanEnds ==
  ASSUME NEW c \in Slots, NEW i \in Slots
  PROVE  /\ ScanDistance(c, i) \in 0 .. SlotCount - 1
         /\ ScanDistance(c, i) = 0 <=> i = c
         /\ ScanDistance(c, i) = SlotCount - 1 <=> c = After(i)
<1> USE SlotCountAssumption DEF ScanDistance
<1>1. ScanDistance(c, i) \in 0 .. SlotCount - 1
  OBVIOUS
<1>2. ScanDistance(c, i) = 0 <=> i = c
  OBVIOUS
<1>3. CASE i + 1 = SlotCount
  BY <1>3 DEF After
<1>4. CASE i + 1 # SlotCount
  BY <1>4 DEF After
<1> QED
  BY <1>1, <1>2, <1>3, <1>4

\* Moving the cursor past slot k brings every slot the scan meets after k
\* nearer by the slots up to and including k.
LEMMA ScanPast ==
  ASSUME NEW c \in Slots, NEW k \in Slots, NEW i \in Slots \ {k}
  PROVE  /\ ScanDistance(c, k) # ScanDistance(c, i)
         /\ ScanDistance(c, k) <= ScanDistance(c, i) =>
              ScanDistance(After(k), i)
                = ScanDistance(c, i) - ScanDistance(c, k) - 1
BY SlotCountAssumption DEF ScanDistance, After

\* A cursor is behind exactly one slot.
LEMMA AfterOnce ==
  ASSUME NEW i \in Slots, NEW k \in Slots
  PROVE  /\ After(i) = After(k) => i = k
         /\ SlotCount >= 2 => After(i) # i
BY SlotCountAssumption DEF After
-----------------------------------------------------------------------------
(***************************************************************************)
(* The invariant.                                                          *)
(***************************************************************************)
Refreshed(i)  == IsRefresh(slots[i])
Changed(i)    == slots[i].prompt_sends_left > 0
Address(i)    == slots[i].address

\* A slot's age; a slot whose packet has been handed over counts as sent.
Unsent(i)     == IF charging = i THEN 0 ELSE slots[i].unsent_cycles
Overdue(i)    == Refreshed(i) /\ Unsent(i) >= ColdMaxCycles

\* The slots the cold scan, and the prompt scan, pass before they meet i.
ColdTurn(i)   == ScanDistance(refresh_cold_index, i)
PromptTurn(i) == ScanDistance(refresh_index, i)
Repaid        == IF refresh_last_was_overdue THEN 1 ELSE 0

\* Every active slot holds one of the application's commands.
KeysOfCommands ==
  \A i \in Slots : slots[i].active =>
    \E cmd \in Commands : /\ slots[i].address = cmd.address
                          /\ slots[i].tag = cmd.tag
                          /\ slots[i].auto_refresh = cmd.auto_refresh

\* The slot being charged is the refresh slot whose packet went out last.
ChargedIsLast ==
  charging # NoSlot => /\ ~charging_one_shot
                       /\ Refreshed(charging)
                       /\ Address(charging) = last_addr_byte

\* After a packet for an aliasing address its slot has age 0, and every other
\* slot of age 0 was inserted since.
LastFresh ==
  Aliases(last_addr_byte) =>
    \A i \in Slots : Refreshed(i) =>
      IF Address(i) = last_addr_byte THEN Unsent(i) = 0
                                     ELSE Unsent(i) = 0 => Changed(i)

\* The slot just behind the cold cursor is fresh while others are overdue.
ColdSentFresh ==
  \A i \in Slots :
    /\ refresh_cold_index = After(i)
    /\ Refreshed(i)
    /\ Repaid = 1 \/ \E j \in Slots \ {i} : Overdue(j)
    => Unsent(i) + Repaid <= 1

\* Slot i will be sent as a changed command by the time it is overdue.
Waits(i) == /\ charging # i
            /\ Changed(i)
            /\ Unsent(i) + PromptTurn(i) <= ColdMaxCycles - 1

\* It will be sent before that, or slot k will.
WaitsAfter(i, k) == /\ Waits(i)
                    /\ \/ PromptTurn(k) < PromptTurn(i)
                       \/ Unsent(i) + PromptTurn(i) <= ColdMaxCycles - 2

\* The slots just behind and at the cold cursor have one age only while one
\* of them waits for a prompt send in time.
PairWaits ==
  \A i \in Slots : LET j == After(i) IN
    /\ refresh_cold_index = j
    /\ Refreshed(i) /\ Refreshed(j)
    /\ Unsent(i) = Unsent(j) /\ Unsent(i) <= ColdMaxCycles - 1
    => Waits(i) \/ WaitsAfter(j, i)

\* An overdue slot's age and the cycles until its turn stay below the bound,
\* or it is the next prompt send.
InTurn(i)   == Unsent(i) + 2 * ColdTurn(i) + Repaid
                 <= ColdMaxCycles + 2 * (SlotCount - 2)
SentNext(i) == /\ Repaid = 1 /\ Changed(i) /\ PromptTurn(i) = 0
               /\ Unsent(i) <= ColdMaxCycles
OverdueWithin == \A i \in Slots : Overdue(i) => InTurn(i) \/ SentNext(i)

StarvationInv == /\ KeysOfCommands /\ ChargedIsLast /\ LastFresh
                 /\ ColdSentFresh /\ PairWaits /\ OverdueWithin /\ UnsentBound

\* A slot's age is a number.
LEMMA UnsentType ==
  ASSUME TypeOK, NEW i \in Slots
  PROVE  Unsent(i) \in Nat /\ slots[i].unsent_cycles \in Nat
BY DEF TypeOK, Slot, Unsent

\* Both turns are places in the ring, and the flag counts as one or none.
LEMMA TurnType ==
  ASSUME TypeOK, NEW i \in Slots
  PROVE  /\ ColdTurn(i) \in 0 .. SlotCount - 1
         /\ PromptTurn(i) \in 0 .. SlotCount - 1
         /\ Repaid \in 0 .. 1
BY ScanEnds DEF TypeOK, ColdTurn, PromptTurn, Repaid

\* No two refresh slots hold one aliasing address.
LEMMA AliasOnce ==
  ASSUME KeysOfCommands, UniqueKeys, RefreshOnly,
         NEW i \in Slots, NEW j \in Slots, Refreshed(i), Refreshed(j),
         Aliases(Address(i)), Address(i) = Address(j)
  PROVE  i = j
<1>1. PICK cmd \in Commands : /\ slots[i].address = cmd.address
                              /\ slots[i].tag = cmd.tag
  BY DEF KeysOfCommands, Refreshed, IsRefresh
<1>2. PICK other \in Commands : /\ slots[j].address = other.address
                                /\ slots[j].tag = other.tag
  BY DEF KeysOfCommands, Refreshed, IsRefresh
<1>3. slots[i].tag = slots[j].tag
  BY <1>1, <1>2 DEF RefreshOnly, Address
<1> QED
  BY <1>3 DEF UniqueKeys, Refreshed, IsRefresh, Address

\* Inserting stores a command and no other step changes a slot's command.
LEMMA KeysStep ==
  ASSUME TypeOK, KeysOfCommands, [Next]_vars
  PROVE  KeysOfCommands'
<1>1. CASE Thins
  BY <1>1 DEF Thins, KeysOfCommands
<1>2. ASSUME NEW cmd \in Commands, NEW k \in Slots, FillsSlot(k, cmd)
      PROVE  KeysOfCommands'
  BY <1>2 DEF FillsSlot, KeysOfCommands
<1> QED
  BY <1>1, <1>2, StepCases
-----------------------------------------------------------------------------
(***************************************************************************)
(* Between two sends: inserts, removals and charging.                      *)
(***************************************************************************)

\* A slot that stays in the pool keeps its age, and its prompt sends unless it
\* is the slot being charged.
Kept(i) == /\ Refreshed(i)
           /\ Address(i)' = Address(i)
           /\ Unsent(i)' = Unsent(i)
           /\ slots'[i].unsent_cycles <= slots[i].unsent_cycles
           /\ Changed(i) /\ charging # i => Changed(i)' /\ charging' # i

\* A slot just taken starts with age 0 and prompt sends to make.
Fresh(i) == slots'[i].unsent_cycles = 0 /\ Changed(i)' /\ charging' # i

\* What such a step does, as far as the invariant can see.
BetweenSends ==
  /\ \A i \in Slots : charging' = i => /\ charging = i
                                      /\ charging_one_shot' = charging_one_shot
                                      /\ Kept(i) /\ Refreshed(i)'
  /\ \/ \A i \in Slots : ~Refreshed(i)'
     \/ /\ UNCHANGED <<cursors, last_addr_byte>>
        /\ \A i \in Slots : Refreshed(i)' => Kept(i) \/ Fresh(i)

\* A slot that a step leaves alone is kept.
LEMMA SameKept ==
  ASSUME TypeOK, NEW i \in Slots, Refreshed(i), slots'[i] = slots[i],
         charging' = charging
  PROVE  Kept(i) /\ Refreshed(i)'
BY UnsentType DEF Kept, Refreshed, Address, Unsent, Changed

\* An insert keeps every slot but the one it takes.
LEMMA InsertBetween ==
  ASSUME TypeOK, Paced, RefreshOnly, KeysOfCommands, ChargedIsLast,
         NEW cmd \in Commands, Insert(cmd)
  PROVE  BetweenSends
<1>1. UNCHANGED <<cursors, last_addr_byte>> /\ UNCHANGED handed
  BY DEF Insert, Paced, cursors, handed
<1>2. ASSUME NEW k \in Slots, NEW unsent \in Nat,
             slots' = [slots EXCEPT ![k] = Filled(@, cmd, unsent)],
             \/ k \in SameKey(cmd) /\ unsent = slots[k].unsent_cycles
             \/ ~slots[k].active /\ unsent = 0
      PROVE  BetweenSends
  <2>1. slots'[k] = Filled(slots[k], cmd, unsent)
    BY <1>2 DEF TypeOK
  <2>2. /\ slots'[k].unsent_cycles = unsent
        /\ slots'[k].prompt_sends_left = PromptSends
        /\ slots'[k].address = cmd.address
        /\ IsRefresh(slots'[k])
    BY <2>1 DEF Filled, IsRefresh, RefreshOnly
  <2>3. Changed(k)'
    BY <2>2, PacingAssumption DEF Changed, Paced
  <2>4. ASSUME k \in SameKey(cmd), unsent = slots[k].unsent_cycles
        PROVE  Kept(k)
    <3>1. Refreshed(k) /\ Address(k)' = Address(k)
      BY <2>2, <2>4 DEF SameKey, KeysOfCommands, RefreshOnly, Refreshed, IsRefresh, Address
    <3>2. Unsent(k)' = Unsent(k) /\ slots'[k].unsent_cycles <= slots[k].unsent_cycles
      BY <1>1, <2>2, <2>4, UnsentType DEF Unsent, handed
    <3>3. charging' = charging
      BY <1>1 DEF handed
    <3> QED
      BY <2>3, <3>1, <3>2, <3>3 DEF Kept
  <2>5. ASSUME ~slots[k].active, unsent = 0
        PROVE  Fresh(k) /\ charging # k
    <3>1. charging # k
      BY <2>5 DEF ChargedIsLast, Refreshed, IsRefresh
    <3> QED
      BY <1>1, <2>2, <2>3, <2>5, <3>1 DEF Fresh, handed
  <2>6. Kept(k) \/ (Fresh(k) /\ charging # k)
    BY <1>2, <2>4, <2>5
  <2>7. ASSUME NEW i \in Slots \ {k}, Refreshed(i)
        PROVE  Kept(i) /\ Refreshed(i)'
    <3>1. slots'[i] = slots[i]
      BY <1>2 DEF TypeOK
    <3> QED
      BY <1>1, <2>7, <3>1, SameKept DEF handed
  <2>8. ASSUME NEW i \in Slots, Refreshed(i)'
        PROVE  Kept(i) \/ Fresh(i)
    <3>1. i # k => slots'[i] = slots[i]
      BY <1>2 DEF TypeOK
    <3> QED
      BY <2>6, <2>7, <2>8, <3>1 DEF Refreshed
  <2>9. ASSUME NEW i \in Slots, charging = i
        PROVE  Kept(i) /\ Refreshed(i)'
    <3>1. Refreshed(i)
      BY <2>9 DEF ChargedIsLast
    <3>2. Refreshed(k)'
      BY <2>2 DEF Refreshed
    <3> QED
      BY <2>6, <2>7, <2>9, <3>1, <3>2
  <2> QED
    BY <1>1, <2>8, <2>9 DEF BetweenSends, handed
<1>3. CASE \E k \in Slots : /\ k \in SameKey(cmd)
                            /\ slots' = [slots EXCEPT ![k] = Filled(@, cmd, @.unsent_cycles)]
  <2>1. PICK k \in Slots : /\ k \in SameKey(cmd)
                           /\ slots' = [slots EXCEPT ![k] = Filled(@, cmd, @.unsent_cycles)]
    BY <1>3
  <2>2. slots' = [slots EXCEPT ![k] = Filled(@, cmd, slots[k].unsent_cycles)]
    BY <2>1
  <2> QED
    BY <1>2, <2>1, <2>2, UnsentType
<1>4. CASE \E k \in Slots : /\ ~slots[k].active
                            /\ slots' = [slots EXCEPT ![k] = Filled(@, cmd, 0)]
  BY <1>2, <1>4
<1> QED
  BY <1>3, <1>4 DEF Insert, Lowest, FreeSlots

\* The rest of a send: the slot pays for the packet that counted already.
LEMMA ChargeBetween ==
  ASSUME TypeOK, ChargedIsLast, Charge
  PROVE  BetweenSends
<1>1. PICK k \in Slots : charging = k
  BY DEF Charge, TypeOK
<1>2. /\ charging' = NoSlot /\ Refreshed(k)
      /\ slots' = [slots EXCEPT ![k] = ChargedRefresh(@)]
      /\ UNCHANGED <<cursors, last_addr_byte>>
  BY <1>1 DEF Charge, ChargedIsLast
<1>3. slots[k] \in Slot /\ slots'[k] = ChargedRefresh(slots[k])
  BY <1>2 DEF TypeOK
<1>4. slots'[k].unsent_cycles = 0
  <2>1. \A left \in 0..255 : [slots[k] EXCEPT !.prompt_sends_left = left] \in Slot
    BY <1>3 DEF Slot
  <2>2. \A slot \in Slot : [slot EXCEPT !.unsent_cycles = 0].unsent_cycles = 0
    BY DEF Slot
  <2> DEFINE left == IF slots[k].prompt_sends_left > 0
                     THEN slots[k].prompt_sends_left - 1
                     ELSE slots[k].prompt_sends_left
             counted == [slots[k] EXCEPT !.prompt_sends_left = left]
  <2>3. ChargedRefresh(slots[k]) = [counted EXCEPT !.unsent_cycles = 0]
    BY DEF ChargedRefresh
  <2>4. left \in 0..255
    BY <1>3 DEF Slot
  <2> HIDE DEF left
  <2>5. counted \in Slot
    BY <2>1, <2>4
  <2> HIDE DEF counted
  <2> QED
    BY <1>3, <2>2, <2>3, <2>5
<1>5. Kept(k)
  <2>1. Address(k)' = Address(k)
    BY <1>3, ChargedSlot DEF Address
  <2>2. Unsent(k)' = 0 /\ Unsent(k) = 0
    BY <1>1, <1>4 DEF Unsent
  <2> QED
    BY <1>1, <1>2, <1>4, <2>1, <2>2, UnsentType DEF Kept
<1>6. ASSUME NEW i \in Slots \ {k}, Refreshed(i)'
      PROVE  Kept(i)
  <2>1. slots'[i] = slots[i]
    BY <1>2 DEF TypeOK
  <2> QED
    BY <1>1, <1>2, <1>6, <2>1, UnsentType DEF Kept, Refreshed, Address, Unsent, Changed
<1> QED
  BY <1>2, <1>5, <1>6 DEF BetweenSends

\* Removals empty slots, and the encoder touches none.
LEMMA RemoveBetween ==
  ASSUME TypeOK, NEW a, RemoveAddress(a)
  PROVE  BetweenSends
<1>1. charging = NoSlot /\ charging' = NoSlot /\ UNCHANGED <<cursors, last_addr_byte>>
  BY DEF RemoveAddress, handed
<1>2. ASSUME NEW i \in Slots, Refreshed(i)'
      PROVE  Kept(i)
  <2>1. CASE slots[i].active /\ slots[i].address = a
    <3>1. slots'[i] = [slots[i] EXCEPT !.active = FALSE] /\ slots[i] \in Slot
      BY <2>1 DEF RemoveAddress, TypeOK
    <3> QED
      BY <1>2, <3>1, FreedSlot DEF Refreshed, IsRefresh
  <2>2. CASE ~(slots[i].active /\ slots[i].address = a)
    <3>1. slots'[i] = slots[i]
      BY <2>2 DEF RemoveAddress, TypeOK
    <3> QED
      BY <1>1, <1>2, <3>1, SameKept DEF Refreshed
  <2> QED
    BY <2>1, <2>2
<1> QED
  BY <1>1, <1>2 DEF BetweenSends

\* remove_all_auto_refresh leaves no slot in the pool.
LEMMA ClearBetween ==
  ASSUME TypeOK, Clear
  PROVE  BetweenSends
<1>1. ASSUME NEW i \in Slots
      PROVE  ~Refreshed(i)'
  <2>1. slots'[i] = [slots[i] EXCEPT !.active = FALSE] /\ slots[i] \in Slot
    BY DEF Clear, TypeOK
  <2> QED
    BY <2>1, FreedSlot DEF Refreshed, IsRefresh
<1> QED
  BY <1>1 DEF BetweenSends, Clear, handed

\* A step that leaves the pool, the cursors and the hand-over alone.
LEMMA QuietBetween ==
  ASSUME TypeOK, ChargedIsLast,
         UNCHANGED <<slots, cursors, last_addr_byte, handed>>
  PROVE  BetweenSends
<1>1. ASSUME NEW i \in Slots, Refreshed(i)
      PROVE  Kept(i) /\ Refreshed(i)'
  BY <1>1, SameKept DEF handed
<1>2. charging # NoSlot => charging \in Slots /\ Refreshed(charging)
  BY DEF ChargedIsLast, TypeOK
<1>3. \A i \in Slots : Refreshed(i)' => Refreshed(i)
  BY DEF Refreshed
<1> QED
  BY <1>1, <1>2, <1>3 DEF BetweenSends, handed

\* Every step sends a packet or is one of these.
LEMMA BetweenOrSends ==
  ASSUME TypeOK, Paced, RefreshOnly, KeysOfCommands, ChargedIsLast, [Next]_vars
  PROVE  BetweenSends \/ SendsPacket
<1>1. CASE UNCHANGED vars
  BY <1>1, QuietBetween DEF vars, cursors, handed
<1>2. CASE AppInsert \/ HookInsert
  BY <1>2, InsertBetween, CommandsAssumption DEF AppInsert, HookInsert
<1>3. CASE \E a \in Removable : RemoveAddress(a)
  BY <1>3, RemoveBetween
<1>4. CASE Clear
  BY <1>4, ClearBetween
<1>5. CASE Run
  BY <1>5, ChargeBetween DEF Run, SendsPacket
<1>6. CASE PacketComplete
  BY <1>6, QuietBetween DEF PacketComplete
<1> QED
  BY <1>1, <1>2, <1>3, <1>4, <1>5, <1>6 DEF Next

\* The invariant survives such a step: a kept slot is as old as it was and a
\* fresh one has age 0 and waits for its first prompt send.
LEMMA BetweenKeeps ==
  ASSUME TypeOK, TypeOK', Paced, StarvationInv, BetweenSends
  PROVE  /\ ChargedIsLast' /\ LastFresh' /\ ColdSentFresh'
         /\ PairWaits' /\ OverdueWithin' /\ UnsentBound'
<1> USE DEF StarvationInv
<1>1. ChargedIsLast'
  <2>1. SUFFICES ASSUME NEW i \in Slots, charging' = i
                 PROVE  /\ ~charging_one_shot' /\ Refreshed(i)'
                        /\ Address(i)' = last_addr_byte'
    BY DEF ChargedIsLast, TypeOK, Refreshed, Address
  <2>2. /\ charging = i /\ charging_one_shot' = charging_one_shot
        /\ Kept(i) /\ Refreshed(i)'
    BY <2>1 DEF BetweenSends
  <2>3. ~charging_one_shot /\ Address(i) = last_addr_byte
    BY <2>2 DEF ChargedIsLast, Address
  <2>4. last_addr_byte' = last_addr_byte
    BY <2>2 DEF BetweenSends
  <2> QED
    BY <2>2, <2>3, <2>4 DEF Kept
<1>2. CASE \A i \in Slots : ~Refreshed(i)'
  <2>1. \A i \in Slots : ~Overdue(i)' /\ ~IsRefresh(slots[i])'
    BY <1>2 DEF Overdue, Refreshed
  <2> QED
    BY <1>1, <1>2, <2>1 DEF LastFresh, ColdSentFresh, PairWaits, OverdueWithin, UnsentBound
<1>3. CASE /\ UNCHANGED <<cursors, last_addr_byte>>
           /\ \A i \in Slots : Refreshed(i)' => Kept(i) \/ Fresh(i)
  <2>1. /\ Repaid' = Repaid
        /\ refresh_cold_index' = refresh_cold_index
        /\ \A i \in Slots : ColdTurn(i)' = ColdTurn(i) /\ PromptTurn(i)' = PromptTurn(i)
    BY <1>3 DEF cursors, Repaid, ColdTurn, PromptTurn
  <2>2. \A i \in Slots : /\ Unsent(i) \in Nat
                         /\ ColdTurn(i) \in 0 .. SlotCount - 1
                         /\ PromptTurn(i) \in 0 .. SlotCount - 1
                         /\ Repaid \in 0 .. 1
    BY UnsentType, TurnType
  <2>3. \A i \in Slots : Fresh(i) => Unsent(i)' = 0
    BY DEF Fresh, Unsent
  <2>4. ASSUME NEW i \in Slots, Overdue(i)'
        PROVE  Kept(i) /\ Overdue(i) /\ charging # i
    <3>1. Kept(i)
      BY <1>3, <2>3, <2>4, PacingAssumption DEF Overdue, Paced
    <3> QED
      BY <2>4, <3>1, PacingAssumption DEF Kept, Overdue, Unsent, Paced
  <2>5. LastFresh'
    <3> SUFFICES ASSUME Aliases(last_addr_byte), NEW i \in Slots, Refreshed(i)'
                 PROVE  IF Address(i)' = last_addr_byte THEN Unsent(i)' = 0
                        ELSE Unsent(i)' = 0 => Changed(i)'
      BY <1>3 DEF LastFresh
    <3>1. CASE Fresh(i)
      BY <2>3, <3>1 DEF Fresh
    <3>2. CASE Kept(i)
      <4>1. IF Address(i) = last_addr_byte THEN Unsent(i) = 0
            ELSE Unsent(i) = 0 => Changed(i)
        BY <3>2 DEF Kept, LastFresh
      <4>2. charging = i => Address(i) = last_addr_byte
        BY DEF ChargedIsLast, Address
      <4> QED
        BY <3>2, <4>1, <4>2 DEF Kept
    <3> QED
      BY <1>3, <3>1, <3>2
  <2>6. ColdSentFresh'
    <3> SUFFICES ASSUME NEW i \in Slots, refresh_cold_index = After(i), Refreshed(i)',
                        Repaid = 1 \/ \E j \in Slots \ {i} : Overdue(j)'
                 PROVE  Unsent(i)' + Repaid <= 1
      BY <2>1 DEF ColdSentFresh
    <3>1. CASE Fresh(i)
      BY <2>2, <2>3, <3>1
    <3>2. CASE Kept(i)
      <4>1. Repaid = 1 \/ \E j \in Slots \ {i} : Overdue(j)
        BY <2>4
      <4>2. Unsent(i) + Repaid <= 1
        BY <3>2, <4>1 DEF ColdSentFresh, Kept
      <4> QED
        BY <3>2, <4>2 DEF Kept
    <3> QED
      BY <1>3, <3>1, <3>2
  <2>7. PairWaits'
    <3> SUFFICES ASSUME NEW i \in Slots, NEW j \in Slots,
                        j = After(i), refresh_cold_index = j,
                        Refreshed(i)', Refreshed(j)',
                        Unsent(i)' = Unsent(j)', Unsent(i)' <= ColdMaxCycles - 1
                 PROVE  Waits(i)' \/ WaitsAfter(j, i)'
      BY <2>1, AfterType DEF PairWaits
    <3>1. i # j
      BY AfterOnce DEF Paced
    <3>2. CASE Fresh(i)
      <4>1. Unsent(i)' + PromptTurn(i)' <= ColdMaxCycles - 1
        BY <2>1, <2>2, <2>3, <3>2, PacingAssumption, SlotCountAssumption DEF Paced
      <4> QED
        BY <3>2, <4>1 DEF Waits, Fresh
    <3>3. CASE Kept(i) /\ Fresh(j)
      <4>1. Unsent(j)' = 0 /\ Changed(j)' /\ charging' # j
        BY <2>3, <3>3 DEF Fresh
      <4>2. PromptTurn(i) # PromptTurn(j)
        BY <3>1, ScanPast DEF PromptTurn, TypeOK
      <4>3. \/ PromptTurn(i) < PromptTurn(j)
            \/ PromptTurn(j) <= ColdMaxCycles - 2
        <5> DEFINE a == PromptTurn(i)
                   b == PromptTurn(j)
        <5>1. a # b /\ a \in 0 .. SlotCount - 1 /\ b \in 0 .. SlotCount - 1
          BY <2>2, <4>2
        <5>2. SlotCount \in Nat /\ ColdMaxCycles \in Nat /\ SlotCount <= ColdMaxCycles
          BY PacingAssumption, SlotCountAssumption DEF Paced
        <5> HIDE DEF a, b
        <5>3. a < b \/ b <= ColdMaxCycles - 2
          BY <5>1, <5>2
        <5> QED
          BY <5>3 DEF a, b
      <4>4. PromptTurn(j) <= ColdMaxCycles - 1
        BY <2>2, PacingAssumption, SlotCountAssumption DEF Paced
      <4> QED
        <5>1. Unsent(j)' + PromptTurn(j)' <= ColdMaxCycles - 1
          BY <2>1, <2>2, <4>1, <4>4
        <5>2. \/ PromptTurn(i)' < PromptTurn(j)'
              \/ Unsent(j)' + PromptTurn(j)' <= ColdMaxCycles - 2
          BY <2>1, <2>2, <4>1, <4>3
        <5> QED
          BY <4>1, <5>1, <5>2 DEF Waits, WaitsAfter
    <3>4. CASE Kept(i) /\ Kept(j)
      <4>1. Waits(i) \/ WaitsAfter(j, i)
        BY <3>4 DEF PairWaits, Kept
      <4>2. Waits(i) => Waits(i)'
        BY <2>1, <3>4 DEF Waits, Kept
      <4>3. WaitsAfter(j, i) => WaitsAfter(j, i)'
        BY <2>1, <3>4 DEF WaitsAfter, Waits, Kept
      <4> QED
        BY <4>1, <4>2, <4>3
    <3> QED
      BY <1>3, <3>2, <3>3, <3>4
  <2>8. OverdueWithin'
    <3> SUFFICES ASSUME NEW i \in Slots, Overdue(i)'
                 PROVE  InTurn(i)' \/ SentNext(i)'
      BY DEF OverdueWithin
    <3>1. Kept(i) /\ charging # i /\ (InTurn(i) \/ SentNext(i))
      BY <2>4 DEF OverdueWithin
    <3>2. InTurn(i) => InTurn(i)'
      BY <2>1, <3>1 DEF InTurn, Kept
    <3>3. SentNext(i) => SentNext(i)'
      BY <2>1, <3>1 DEF SentNext, Kept
    <3> QED
      BY <3>1, <3>2, <3>3
  <2>9. UnsentBound'
    <3> SUFFICES ASSUME NEW i \in Slots, Refreshed(i)'
                 PROVE  slots'[i].unsent_cycles < ColdMaxCycles + 2 * (SlotCount - 1)
      BY DEF UnsentBound, Refreshed
    <3>1. CASE Fresh(i)
      BY <3>1, PacingAssumption, SlotCountAssumption DEF Fresh, Paced
    <3>2. CASE Kept(i)
      <4>1. slots[i].unsent_cycles < ColdMaxCycles + 2 * (SlotCount - 1)
        BY <3>2 DEF Kept, UnsentBound, Refreshed
      <4>2. /\ slots[i].unsent_cycles \in Nat /\ slots'[i].unsent_cycles \in Nat
            /\ slots'[i].unsent_cycles <= slots[i].unsent_cycles
        BY <3>2 DEF Kept, TypeOK, Slot
      <4> QED
        BY <4>1, <4>2, PacingAssumption, SlotCountAssumption
    <3> QED
      BY <1>3, <3>1, <3>2
  <2> QED
    BY <1>1, <2>5, <2>6, <2>7, <2>8, <2>9
<1> QED
  BY <1>2, <1>3 DEF BetweenSends
-----------------------------------------------------------------------------
(***************************************************************************)
(* A send.                                                                 *)
(***************************************************************************)

\* Ageing, for one refresh slot: a cycle older, up to the limit.
Ages(i) == /\ slots'[i].unsent_cycles \in Nat \ {0}
           /\ slots'[i].unsent_cycles >= slots[i].unsent_cycles
           /\ slots'[i].unsent_cycles <= slots[i].unsent_cycles + 1
           /\ slots[i].unsent_cycles < ColdMaxCycles =>
                slots'[i].unsent_cycles = slots[i].unsent_cycles + 1

\* The slots the passes choose from, after ageing.
Late(i) == Refreshed(i) /\ slots'[i].unsent_cycles >= ColdMaxCycles
Fast(i) == Refreshed(i) /\ Changed(i)

\* The pass that slot k is taken from, and what it does to the cursors.
FromOverdue(k) == /\ Late(k)
                  /\ \A i \in Slots : Late(i) => ColdTurn(k) <= ColdTurn(i)
                  /\ Repaid = 1 => \A i \in Slots : ~Fast(i)
                  /\ refresh_cold_index' = After(k)
                  /\ refresh_index' = refresh_index
                  /\ refresh_last_was_overdue' = TRUE
FromPrompt(k)  == /\ Fast(k)
                  /\ \A i \in Slots : Fast(i) => PromptTurn(k) <= PromptTurn(i)
                  /\ Repaid = 1 \/ \A i \in Slots : ~Late(i)
                  /\ refresh_cold_index' = refresh_cold_index
                  /\ refresh_index' = After(k)
                  /\ refresh_last_was_overdue' = FALSE
FromDue(k)     == /\ Refreshed(k)
                  /\ \A i \in Slots : ~Late(i) /\ ~Fast(i)
                  /\ refresh_cold_index' = After(k)
                  /\ refresh_index' = refresh_index
                  /\ refresh_last_was_overdue' = FALSE
FromNone       == /\ \A i \in Slots : ~Late(i) /\ ~Fast(i)
                  /\ UNCHANGED <<refresh_cold_index, refresh_index>>
                  /\ refresh_last_was_overdue' = FALSE
                  /\ charging' = NoSlot /\ last_addr_byte' = Idle

\* Its packet goes out, or the idle packet that keeps two of them apart.
Loads(k) == \/ /\ charging' = k /\ ~charging_one_shot'
               /\ last_addr_byte' = Address(k)
            \/ /\ charging' = NoSlot /\ last_addr_byte' = Idle
               /\ Aliases(Address(k)) /\ Address(k) = last_addr_byte

\* What a run does before the hook, as far as the invariant can see.
Cycle ==
  /\ charging = NoSlot
  /\ \A i \in Slots : /\ Refreshed(i)' <=> Refreshed(i)
                      /\ Changed(i)' <=> Changed(i)
                      /\ Address(i)' = Address(i)
                      /\ Refreshed(i) => Ages(i)
  /\ \/ FromNone
     \/ \E k \in Slots : /\ FromOverdue(k) \/ FromPrompt(k) \/ FromDue(k)
                         /\ Loads(k)

\* Ageing adds a cycle to every refresh slot below the limit (_age_refresh_slots).
LEMMA AgedCycle ==
  ASSUME TypeOK, Paced, slots' = Aged(slots), NEW i \in Slots
  PROVE  /\ Refreshed(i)' <=> Refreshed(i)
         /\ Changed(i)' <=> Changed(i)
         /\ Address(i)' = Address(i)
         /\ Refreshed(i) => Ages(i)
<1> DEFINE older == slots[i].unsent_cycles + 1
<1>1. slots[i] \in Slot /\ slots[i].unsent_cycles \in Nat /\ older \in Nat
  BY DEF TypeOK, Slot
<1>2. slots'[i] = IF Refreshed(i) /\ slots[i].unsent_cycles < UnsentLimit
                  THEN [slots[i] EXCEPT !.unsent_cycles = older] ELSE slots[i]
  BY DEF Aged, Paced, Refreshed
<1>3. LET aged == [slots[i] EXCEPT !.unsent_cycles = older]
      IN  /\ aged.unsent_cycles = older
          /\ aged.active = slots[i].active
          /\ aged.auto_refresh = slots[i].auto_refresh
          /\ aged.address = slots[i].address
          /\ aged.prompt_sends_left = slots[i].prompt_sends_left
  <2> HIDE DEF older
  <2> QED
    BY <1>1 DEF Slot
<1>4. /\ slots'[i].active = slots[i].active
      /\ slots'[i].auto_refresh = slots[i].auto_refresh
      /\ slots'[i].address = slots[i].address
      /\ slots'[i].prompt_sends_left = slots[i].prompt_sends_left
  BY <1>2, <1>3
<1>5. Refreshed(i) => Ages(i)
  <2>1. CASE Refreshed(i) /\ slots[i].unsent_cycles < UnsentLimit
    <3>1. slots'[i].unsent_cycles = older
      BY <1>2, <1>3, <2>1
    <3> QED
      BY <1>1, <3>1 DEF Ages
  <2>2. CASE ~(slots[i].unsent_cycles < UnsentLimit)
    <3>1. slots'[i].unsent_cycles = slots[i].unsent_cycles
      BY <1>2, <2>2
    <3> QED
      BY <1>1, <2>2, <3>1, PacingAssumption DEF Ages, Paced
  <2> QED
    BY <2>1, <2>2
<1> QED
  BY <1>4, <1>5 DEF Refreshed, IsRefresh, Changed, Address

\* The passes as sets of slots (_overdue, _prompt and _due).
LEMMA PassMembers ==
  ASSUME TypeOK, Paced, slots' = Aged(slots)
  PROVE  /\ Members(slots', "OVERDUE") = {i \in Slots : Late(i)}
         /\ Members(slots', "PROMPT") = {i \in Slots : Fast(i)}
         /\ Members(slots', "DUE") \subseteq {i \in Slots : Refreshed(i)}
<1>1. \A i \in Slots : /\ IsRefresh(slots'[i]) <=> Refreshed(i)
                       /\ slots'[i].prompt_sends_left > 0 <=> Changed(i)
  BY AgedCycle DEF Refreshed, Changed
<1>2. \A i \in Slots : /\ InPass(slots'[i], "OVERDUE") <=> Late(i)
                       /\ InPass(slots'[i], "PROMPT") <=> Fast(i)
                       /\ InPass(slots'[i], "DUE") => Refreshed(i)
  BY <1>1 DEF InPass, Late, Fast
<1> QED
  BY <1>2 DEF Members

\* _select_refresh takes slot k from one of the three passes.
LEMMA SelectPass ==
  ASSUME TypeOK, Paced, slots' = Aged(slots),
         NEW k \in Slots, SelectRefresh(k, slots')
  PROVE  FromOverdue(k) \/ FromPrompt(k) \/ FromDue(k)
<1> DEFINE pass == RefreshPass(slots')
<1>1. ColdCycles # 0
  BY DEF Paced
<1>2. /\ NextInRing(k, Cursor(pass), Members(slots', pass))
      /\ refresh_index' = IF pass \in {"ANY", "PROMPT"} THEN After(k) ELSE refresh_index
      /\ refresh_cold_index' = IF pass \in {"OVERDUE", "DUE"} THEN After(k)
                                                          ELSE refresh_cold_index
      /\ refresh_last_was_overdue' = (pass = "OVERDUE")
  BY DEF SelectRefresh
<1>3. CASE refresh_last_was_overdue /\ Members(slots', "PROMPT") # {}
  <2>1. pass = "PROMPT"
    BY <1>1, <1>3 DEF RefreshPass
  <2> QED
    BY <1>2, <1>3, <2>1, PassMembers DEF FromPrompt, NextInRing, Cursor, PromptTurn, Repaid
<1>4. CASE /\ ~(refresh_last_was_overdue /\ Members(slots', "PROMPT") # {})
           /\ Members(slots', "OVERDUE") # {}
  <2>1. pass = "OVERDUE"
    BY <1>1, <1>4 DEF RefreshPass
  <2>2. Repaid = 1 => \A i \in Slots : ~Fast(i)
    BY <1>4, PassMembers DEF Repaid
  <2> QED
    BY <1>2, <2>1, <2>2, PassMembers DEF FromOverdue, NextInRing, Cursor, ColdTurn
<1>5. CASE /\ ~(refresh_last_was_overdue /\ Members(slots', "PROMPT") # {})
           /\ Members(slots', "OVERDUE") = {}
           /\ Members(slots', "PROMPT") # {}
  <2>1. pass = "PROMPT"
    BY <1>1, <1>5 DEF RefreshPass
  <2>2. \A i \in Slots : ~Late(i)
    BY <1>5, PassMembers
  <2> QED
    BY <1>2, <2>1, <2>2, PassMembers DEF FromPrompt, NextInRing, Cursor, PromptTurn
<1>6. CASE /\ Members(slots', "OVERDUE") = {}
           /\ Members(slots', "PROMPT") = {}
  <2>1. pass = "DUE"
    BY <1>1, <1>6 DEF RefreshPass
  <2>2. \A i \in Slots : ~Late(i) /\ ~Fast(i)
    BY <1>6, PassMembers
  <2>3. Refreshed(k)
    BY <1>2, <2>1, PassMembers DEF NextInRing
  <2> QED
    BY <1>2, <2>1, <2>2, <2>3 DEF FromDue
<1> QED
  BY <1>3, <1>4, <1>5, <1>6

\* Nothing is chosen only when no slot is overdue or changed.
LEMMA SelectNone ==
  ASSUME TypeOK, Paced, slots' = Aged(slots), NoRefresh(slots')
  PROVE  \A i \in Slots : ~Late(i) /\ ~Fast(i)
<1>1. Members(slots', RefreshPass(slots')) = {} /\ ColdCycles # 0
  BY DEF NoRefresh, Paced
<1>2. Members(slots', "OVERDUE") = {} /\ Members(slots', "PROMPT") = {}
  BY <1>1 DEF RefreshPass
<1> QED
  BY <1>2, PassMembers

\* With no one-shots every send is such a cycle.
LEMMA SendCycle ==
  ASSUME TypeOK, Paced, RefreshOnly, KeysOfCommands, SendsPacket
  PROVE  Cycle
<1>1. slots' = Aged(slots) /\ charging = NoSlot
  BY DEF SendsPacket, SendOneShot, SendRefresh, SendIdle, CycleStarts
<1>2. OneShots(Aged(slots)) = {}
  <2>1. \A i \in Slots : slots[i].active => slots[i].auto_refresh
    BY DEF KeysOfCommands, RefreshOnly
  <2> QED
    BY <2>1, AgedSlots DEF OneShots, TypeOK
<1>3. CASE SendOneShot
  BY <1>2, <1>3 DEF SendOneShot, BestOneShot
<1>4. CASE SendRefresh
  <2>1. PICK k \in Slots : /\ SelectRefresh(k, slots')
                           /\ LoadSlot(k, slots'[k].address, FALSE)
    BY <1>1, <1>4 DEF SendRefresh
  <2>2. slots'[k].address = Address(k)
    BY <1>1, AgedCycle DEF Address
  <2>3. Loads(k)
    BY <1>1, <2>1, <2>2 DEF LoadSlot, LoadIdle, Load, TooSoon, Loads, handed
  <2> QED
    BY <1>1, <2>1, <2>3, AgedCycle, SelectPass DEF Cycle
<1>5. CASE SendIdle
  <2>1. NoRefresh(slots') /\ LoadIdle
    BY <1>1, <1>5 DEF SendIdle
  <2> QED
    BY <1>1, <2>1, AgedCycle, SelectNone DEF Cycle, FromNone, NoRefresh, LoadIdle, Load, handed
<1> QED
  BY <1>3, <1>4, <1>5 DEF SendsPacket

\* A slot that is chosen but spaced out was the last one sent: its age is 0,
\* and any other slot of age 0 has a prompt send to make.
LEMMA SpacedSlot ==
  ASSUME TypeOK, UniqueKeys, RefreshOnly, StarvationInv,
         NEW k \in Slots, Refreshed(k), Loads(k), charging' # k
  PROVE  /\ Unsent(k) = 0
         /\ \A i \in Slots \ {k} : Refreshed(i) /\ Unsent(i) = 0 => Changed(i)
<1>1. Aliases(Address(k)) /\ Address(k) = last_addr_byte
  BY DEF Loads
<1>2. \A i \in Slots \ {k} : Refreshed(i) => Address(i) # Address(k)
  BY <1>1, AliasOnce DEF StarvationInv
<1> QED
  BY <1>1, <1>2 DEF StarvationInv, LastFresh

\* The ages before and after a cycle.
LEMMA CycleAges ==
  ASSUME TypeOK, TypeOK', Cycle, NEW i \in Slots
  PROVE  /\ Unsent(i) = slots[i].unsent_cycles
         /\ Unsent(i) \in Nat /\ Unsent(i)' \in Nat
         /\ Unsent(i)' = IF charging' = i THEN 0 ELSE slots'[i].unsent_cycles
         /\ Refreshed(i) => /\ slots'[i].unsent_cycles >= 1
                            /\ slots'[i].unsent_cycles >= Unsent(i)
                            /\ slots'[i].unsent_cycles <= Unsent(i) + 1
                            /\ slots'[i].unsent_cycles \in Nat
                            /\ Unsent(i) < ColdMaxCycles =>
                                 slots'[i].unsent_cycles = Unsent(i) + 1
<1>1. charging = NoSlot
  BY DEF Cycle
<1>2. Unsent(i) = slots[i].unsent_cycles
  BY <1>1 DEF Unsent
<1>3. slots[i].unsent_cycles \in Nat /\ slots'[i].unsent_cycles \in Nat
  <2>1. slots[i] \in Slot
    BY DEF TypeOK
  <2>2. slots'[i] \in Slot
    BY DEF TypeOK
  <2> QED
    BY <2>1, <2>2 DEF Slot
<1>4. Unsent(i)' = IF charging' = i THEN 0 ELSE slots'[i].unsent_cycles
  BY DEF Unsent
<1>5. Refreshed(i) => Ages(i)
  BY DEF Cycle
<1> QED
  BY <1>2, <1>3, <1>4, <1>5 DEF Ages

\* An overdue slot that is chosen is sent: no overdue slot was sent last.
LEMMA LateSent ==
  ASSUME TypeOK, TypeOK', UniqueKeys, Paced, RefreshOnly, StarvationInv, Cycle,
         NEW k \in Slots, Late(k), Loads(k)
  PROVE  charging' = k
<1> SUFFICES ASSUME charging' # k PROVE FALSE
  OBVIOUS
<1>1. Unsent(k) = 0 /\ Refreshed(k)
  BY SpacedSlot DEF Late
<1> QED
  BY <1>1, CycleAges, PacingAssumption DEF Late, Paced

\* The last packet's slot has age 0 and every other refresh slot is older.
LEMMA CycleLast ==
  ASSUME TypeOK, TypeOK', UniqueKeys, RefreshOnly, StarvationInv, Cycle
  PROVE  ChargedIsLast' /\ LastFresh'
<1>1. CASE FromNone
  <2>1. charging' = NoSlot /\ last_addr_byte' = 0
    BY <1>1 DEF FromNone
  <2> QED
    BY <2>1 DEF ChargedIsLast, LastFresh, Aliases
<1>2. ASSUME NEW k \in Slots, FromOverdue(k) \/ FromPrompt(k) \/ FromDue(k), Loads(k)
      PROVE  ChargedIsLast' /\ LastFresh'
  <2>1. Refreshed(k)
    BY <1>2 DEF FromOverdue, FromPrompt, FromDue, Late, Fast
  <2>2. CASE charging' = NoSlot /\ last_addr_byte' = Idle
    BY <2>2 DEF ChargedIsLast, LastFresh, Aliases
  <2>3. CASE charging' = k /\ ~charging_one_shot' /\ last_addr_byte' = Address(k)
    <3>1. Refreshed(k)' /\ Address(k)' = Address(k)
      BY <2>1 DEF Cycle
    <3>2. ChargedIsLast'
      BY <2>3, <3>1 DEF ChargedIsLast, Refreshed, Address
    <3>3. ASSUME NEW i \in Slots, Refreshed(i)', Aliases(Address(k))
          PROVE  IF Address(i)' = Address(k) THEN Unsent(i)' = 0
                 ELSE Unsent(i)' = 0 => Changed(i)'
      <4>1. Refreshed(i) /\ Address(i)' = Address(i)
        BY <3>3 DEF Cycle
      <4>2. Address(i) = Address(k) => i = k
        BY <2>1, <3>3, <4>1, AliasOnce DEF StarvationInv
      <4>3. i = k => Unsent(i)' = 0 /\ Address(i) = Address(k)
        BY <2>3, CycleAges
      <4>4. i # k => Unsent(i)' >= 1
        BY <2>3, <4>1, CycleAges
      <4> QED
        BY <4>1, <4>2, <4>3, <4>4
    <3> QED
      BY <2>3, <3>2, <3>3 DEF LastFresh
  <2> QED
    BY <1>2, <2>2, <2>3 DEF Loads
<1> QED
  BY <1>1, <1>2 DEF Cycle

\* The slot just behind the cold cursor: it was chosen this cycle, or it was
\* fresh already and the cycle was a prompt send between two overdue ones.
LEMMA CycleColdSent ==
  ASSUME TypeOK, TypeOK', UniqueKeys, Paced, RefreshOnly, StarvationInv, Cycle
  PROVE  ColdSentFresh'
<1> SUFFICES ASSUME NEW i \in Slots, refresh_cold_index' = After(i), Refreshed(i)',
                    Repaid' = 1 \/ \E j \in Slots \ {i} : Overdue(j)'
             PROVE  Unsent(i)' + Repaid' <= 1
  BY DEF ColdSentFresh
<1>1. Refreshed(i)
  BY DEF Cycle
<1>2. \A j \in Slots : Overdue(j)' => Late(j)
  BY CycleAges, PacingAssumption DEF Cycle, Overdue, Late, Paced
<1>3. CASE FromNone
  BY <1>2, <1>3 DEF FromNone, Repaid
<1>4. ASSUME NEW k \in Slots, FromOverdue(k), Loads(k)
      PROVE  Unsent(i)' + Repaid' <= 1
  <2>1. i = k
    BY <1>4, AfterOnce DEF FromOverdue
  <2>2. charging' = k
    BY <1>4, LateSent DEF FromOverdue
  <2> QED
    BY <2>1, <2>2 DEF Unsent, Repaid
<1>5. ASSUME NEW k \in Slots, FromPrompt(k), Loads(k)
      PROVE  Unsent(i)' + Repaid' <= 1
  <2>1. Repaid' = 0 /\ refresh_cold_index = After(i)
    BY <1>5 DEF FromPrompt, Repaid
  <2>2. Repaid = 1
    BY <1>2, <1>5, <2>1 DEF FromPrompt
  <2>3. Unsent(i) + 1 <= 1
    BY <1>1, <2>1, <2>2 DEF StarvationInv, ColdSentFresh
  <2> QED
    BY <1>1, <2>1, <2>3, CycleAges
<1>6. ASSUME NEW k \in Slots, FromDue(k), Loads(k)
      PROVE  Unsent(i)' + Repaid' <= 1
  <2>1. i = k /\ Repaid' = 0
    BY <1>6, AfterOnce DEF FromDue, Repaid
  <2>2. charging' # k => Unsent(k) = 0
    BY <1>6, SpacedSlot DEF FromDue
  <2> QED
    BY <1>1, <2>1, <2>2, CycleAges
<1> QED
  BY <1>3, <1>4, <1>5, <1>6 DEF Cycle

\* Two slots of one age are both unsent this cycle; they had one age before
\* it, and the scan that passes one of them takes it past, or nearer to, the
\* slot that waits.
LEMMA CyclePair ==
  ASSUME TypeOK, TypeOK', UniqueKeys, Paced, RefreshOnly, StarvationInv, Cycle
  PROVE  PairWaits'
<1> SUFFICES ASSUME NEW i \in Slots, NEW j \in Slots, j = After(i),
                    refresh_cold_index' = j, Refreshed(i)', Refreshed(j)',
                    Unsent(i)' = Unsent(j)', Unsent(i)' <= ColdMaxCycles - 1
             PROVE  Waits(i)' \/ WaitsAfter(j, i)'
  BY AfterType DEF PairWaits
<1>1. /\ Refreshed(i) /\ Refreshed(j) /\ i # j
      /\ Changed(i)' <=> Changed(i)
      /\ Changed(j)' <=> Changed(j)
  BY AfterOnce DEF Cycle, Paced
<1>2. charging' # i /\ charging' # j
  BY <1>1, CycleAges
<1>3. /\ Unsent(i) = Unsent(j) /\ Unsent(i) \in Nat
      /\ Unsent(i)' = Unsent(i) + 1 /\ Unsent(i) <= ColdMaxCycles - 2
  <2>1. /\ Unsent(i) <= Unsent(i)' /\ Unsent(j) <= Unsent(j)'
        /\ Unsent(i) < ColdMaxCycles => Unsent(i)' = Unsent(i) + 1
        /\ Unsent(j) < ColdMaxCycles => Unsent(j)' = Unsent(j) + 1
        /\ Unsent(i) \in Nat /\ Unsent(j) \in Nat /\ Unsent(i)' \in Nat
    BY <1>1, <1>2, CycleAges
  <2> QED
    BY <2>1, PacingAssumption
<1>4. \A k \in Slots : /\ PromptTurn(k) \in 0 .. SlotCount - 1
                       /\ PromptTurn(k)' \in 0 .. SlotCount - 1
  BY ScanEnds DEF PromptTurn, TypeOK
<1>5. CASE FromNone
  <2>1. refresh_cold_index = j /\ ~Changed(i) /\ ~Changed(j)
    BY <1>1, <1>5 DEF FromNone, Fast
  <2> QED
    BY <1>1, <1>3, <2>1, PacingAssumption
    DEF StarvationInv, PairWaits, Waits, WaitsAfter
<1>6. ASSUME NEW k \in Slots, FromOverdue(k), Loads(k)
      PROVE  FALSE
  BY <1>2, <1>6, AfterOnce, LateSent DEF FromOverdue
<1>7. ASSUME NEW k \in Slots, FromDue(k), Loads(k)
      PROVE  FALSE
  <2>1. k = i /\ ~Changed(j)
    BY <1>1, <1>7, AfterOnce DEF FromDue, Fast
  <2> QED
    BY <1>1, <1>2, <1>3, <1>7, <2>1, SpacedSlot
<1>8. ASSUME NEW k \in Slots, FromPrompt(k), Loads(k)
      PROVE  Waits(i)' \/ WaitsAfter(j, i)'
  <2>1. /\ refresh_index' = After(k) /\ refresh_cold_index = j /\ Refreshed(k)
        /\ \A m \in {i, j} : Changed(m) => PromptTurn(k) <= PromptTurn(m)
    BY <1>1, <1>8 DEF FromPrompt, Fast
  <2>2. Waits(i) \/ WaitsAfter(j, i)
    BY <1>1, <1>3, <2>1, PacingAssumption DEF StarvationInv, PairWaits
  <2>3. ASSUME NEW m \in Slots \ {k}, PromptTurn(k) <= PromptTurn(m)
        PROVE  /\ PromptTurn(m)' = PromptTurn(m) - PromptTurn(k) - 1
               /\ PromptTurn(k) # PromptTurn(m)
    BY <2>1, <2>3, ScanPast DEF PromptTurn, TypeOK
  <2>4. CASE k = i
    <3>1. Unsent(i) = 0 /\ Changed(j)
      BY <1>1, <1>2, <1>3, <1>8, <2>4, SpacedSlot
    <3>2. PromptTurn(j)' = 0
      BY <2>1, <2>4, ScanEnds DEF PromptTurn
    <3>3. Unsent(j)' + PromptTurn(j)' <= ColdMaxCycles - 2
      BY <1>3, <3>1, <3>2, PacingAssumption DEF Paced
    <3>4. Unsent(j)' + PromptTurn(j)' <= ColdMaxCycles - 1
      BY <1>3, <3>1, <3>2, PacingAssumption DEF Paced
    <3> QED
      BY <1>1, <1>2, <3>1, <3>3, <3>4 DEF Waits, WaitsAfter
  <2>5. CASE k = j
    <3>1. Unsent(j) = 0 /\ Changed(i)
      BY <1>1, <1>2, <1>3, <1>8, <2>5, SpacedSlot
    <3>2. PromptTurn(i)' = PromptTurn(i) - PromptTurn(j) - 1
      BY <1>1, <2>1, <2>3, <2>5, <3>1
    <3>3. Unsent(i)' + PromptTurn(i)' <= ColdMaxCycles - 1
      BY <1>3, <1>4, <3>1, <3>2, PacingAssumption, SlotCountAssumption DEF Paced
    <3> QED
      BY <1>1, <1>2, <3>1, <3>3 DEF Waits
  <2>6. CASE k \notin {i, j} /\ Waits(i)
    <3>1. Changed(i) /\ Unsent(i) + PromptTurn(i) <= ColdMaxCycles - 1
      BY <2>6 DEF Waits
    <3>2. PromptTurn(i)' = PromptTurn(i) - PromptTurn(k) - 1
      BY <1>1, <2>1, <2>3, <2>6, <3>1
    <3>3. Unsent(i)' + PromptTurn(i)' <= ColdMaxCycles - 1
      BY <1>3, <1>4, <3>1, <3>2, PacingAssumption, SlotCountAssumption
    <3> QED
      BY <1>1, <1>2, <3>1, <3>3 DEF Waits
  <2>7. CASE k \notin {i, j} /\ WaitsAfter(j, i)
    <3>1. /\ Changed(j) /\ Unsent(j) + PromptTurn(j) <= ColdMaxCycles - 1
          /\ \/ PromptTurn(i) < PromptTurn(j)
             \/ Unsent(j) + PromptTurn(j) <= ColdMaxCycles - 2
      BY <2>7 DEF Waits, WaitsAfter
    <3>2. PromptTurn(j)' = PromptTurn(j) - PromptTurn(k) - 1
      BY <1>1, <2>1, <2>3, <2>7, <3>1
    <3>3. PromptTurn(k) <= PromptTurn(i) =>
            PromptTurn(i)' = PromptTurn(i) - PromptTurn(k) - 1
      BY <2>3, <2>7
    <3>4. Unsent(j)' + PromptTurn(j)' <= ColdMaxCycles - 1
      BY <1>3, <1>4, <3>1, <3>2, PacingAssumption, SlotCountAssumption
    <3>5. \/ PromptTurn(i)' < PromptTurn(j)'
          \/ Unsent(j)' + PromptTurn(j)' <= ColdMaxCycles - 2
      <4>1. CASE PromptTurn(k) <= PromptTurn(i)
        BY <1>3, <1>4, <3>1, <3>2, <3>3, <4>1, PacingAssumption, SlotCountAssumption
      <4>2. CASE PromptTurn(k) > PromptTurn(i)
        BY <1>3, <1>4, <3>1, <3>2, <4>2, PacingAssumption, SlotCountAssumption
      <4> QED
        BY <1>4, <4>1, <4>2
    <3> QED
      BY <1>1, <1>2, <3>1, <3>4, <3>5 DEF Waits, WaitsAfter
  <2> QED
    BY <2>2, <2>4, <2>5, <2>6, <2>7
<1> QED
  BY <1>5, <1>6, <1>7, <1>8 DEF Cycle

\* An overdue send brings every slot still overdue a turn nearer, a prompt
\* send is repaid; and a slot that becomes overdue has no full round before it.
LEMMA CycleOverdue ==
  ASSUME TypeOK, TypeOK', UniqueKeys, Paced, RefreshOnly, StarvationInv, Cycle
  PROVE  OverdueWithin'
<1> SUFFICES ASSUME NEW i \in Slots, Overdue(i)'
             PROVE  InTurn(i)' \/ SentNext(i)'
  BY DEF OverdueWithin
<1> DEFINE age == Unsent(i)
<1>1. /\ Refreshed(i) /\ Late(i) /\ charging' # i
      /\ age \in Nat /\ Unsent(i)' \in Nat
      /\ age <= Unsent(i)' /\ Unsent(i)' <= age + 1
      /\ Unsent(i)' >= ColdMaxCycles
      /\ Changed(i)' <=> Changed(i)
  BY CycleAges, PacingAssumption DEF Cycle, Overdue, Late, Paced
<1>2. \A k \in Slots : /\ ColdTurn(k) \in 0 .. SlotCount - 1
                       /\ PromptTurn(k) \in 0 .. SlotCount - 1
                       /\ ColdTurn(k)' \in 0 .. SlotCount - 1
                       /\ Repaid \in 0 .. 1
  BY ScanEnds DEF ColdTurn, PromptTurn, Repaid, TypeOK
<1>3. ~FromNone /\ \A k \in Slots : ~FromDue(k)
  BY <1>1 DEF FromNone, FromDue
<1>4. ASSUME age >= ColdMaxCycles
      PROVE  InTurn(i) \/ SentNext(i)
  BY <1>1, <1>4 DEF StarvationInv, OverdueWithin, Overdue
<1>5. ASSUME age < ColdMaxCycles
      PROVE  age = ColdMaxCycles - 1 /\ Unsent(i)' = ColdMaxCycles
  BY <1>1, <1>5, PacingAssumption
<1>6. ASSUME NEW k \in Slots, FromPrompt(k), Loads(k)
      PROVE  InTurn(i)'
  <2>1. Repaid = 1 /\ Repaid' = 0 /\ ColdTurn(i)' = ColdTurn(i)
    BY <1>1, <1>6 DEF FromPrompt, Repaid, ColdTurn
  <2>2. CASE age >= ColdMaxCycles
    <3>1. ~SentNext(i)
      <4> SUFFICES ASSUME SentNext(i) PROVE FALSE
        OBVIOUS
      <4>1. PromptTurn(k) = 0 /\ PromptTurn(i) = 0
        BY <1>1, <1>2, <1>6 DEF FromPrompt, Fast, SentNext
      <4>2. k = i
        BY <4>1, ScanEnds DEF PromptTurn, TypeOK
      <4>3. age = 0
        BY <1>1, <1>6, <4>2, SpacedSlot
      <4> QED
        BY <2>2, <4>3, PacingAssumption DEF Paced
    <3>2. InTurn(i)
      BY <1>4, <2>2, <3>1
    <3> QED
      BY <1>1, <1>2, <2>1, <3>2, PacingAssumption, SlotCountAssumption DEF InTurn
  <2>3. CASE age < ColdMaxCycles
    <3>1. ColdTurn(i) # SlotCount - 1
      <4> SUFFICES ASSUME ColdTurn(i) = SlotCount - 1 PROVE FALSE
        OBVIOUS
      <4>1. refresh_cold_index = After(i)
        BY ScanEnds DEF ColdTurn, TypeOK
      <4>2. age + 1 <= 1
        BY <1>1, <2>1, <4>1 DEF StarvationInv, ColdSentFresh
      <4> QED
        BY <1>1, <1>5, <2>3, <4>2, PacingAssumption DEF Paced
    <3>2. Unsent(i)' = ColdMaxCycles
      BY <1>5, <2>3
    <3> QED
      BY <1>2, <2>1, <3>1, <3>2, PacingAssumption, SlotCountAssumption DEF InTurn
  <2> QED
    BY <1>1, <2>2, <2>3, PacingAssumption
<1>7. ASSUME NEW k \in Slots, FromOverdue(k), Loads(k)
      PROVE  InTurn(i)' \/ SentNext(i)'
  <2>1. /\ k # i /\ Late(k) /\ ColdTurn(k) <= ColdTurn(i) /\ Repaid' = 1
        /\ refresh_cold_index' = After(k) /\ refresh_index' = refresh_index
        /\ Repaid = 1 => ~Changed(i)
    BY <1>1, <1>7, LateSent DEF FromOverdue, Fast, Repaid
  <2>2. /\ ColdTurn(i)' = ColdTurn(i) - ColdTurn(k) - 1
        /\ ColdTurn(k) # ColdTurn(i)
    BY <2>1, ScanPast DEF ColdTurn, TypeOK
  <2>3. CASE age >= ColdMaxCycles
    <3>1. InTurn(i)
      BY <1>4, <2>1, <2>3 DEF SentNext
    <3>2. age + 2 * ColdTurn(i) + Repaid <= ColdMaxCycles + 2 * (SlotCount - 2)
      BY <3>1 DEF InTurn
    <3>3. Unsent(i)' + 2 * ColdTurn(i)' + Repaid'
            <= ColdMaxCycles + 2 * (SlotCount - 2)
      <4> HIDE DEF age
      <4> QED
        BY <1>1, <1>2, <2>1, <2>2, <3>2, PacingAssumption, SlotCountAssumption
    <3> QED
      BY <3>3 DEF InTurn
  <2>4. CASE age < ColdMaxCycles /\ ~(ColdTurn(i) = SlotCount - 1 /\ ColdTurn(k) = 0)
    <3>1. Unsent(i)' = ColdMaxCycles
      BY <1>5, <2>4
    <3>2. /\ ColdTurn(i) \in 0 .. SlotCount - 1 /\ ColdTurn(k) \in 0 .. SlotCount - 1
          /\ ~(ColdTurn(i) = SlotCount - 1 /\ ColdTurn(k) = 0)
      BY <1>2, <2>4
    <3>3. ColdTurn(i)' <= SlotCount - 3
      BY <2>1, <2>2, <3>2, SlotCountAssumption
    <3>4. ColdTurn(i)' \in Int
      BY <1>2
    <3>5. Unsent(i)' + 2 * ColdTurn(i)' + Repaid' <= ColdMaxCycles + 2 * (SlotCount - 2)
      BY <2>1, <3>1, <3>3, <3>4, PacingAssumption, SlotCountAssumption
    <3> QED
      BY <3>5 DEF InTurn
  <2>5. CASE age < ColdMaxCycles /\ ColdTurn(i) = SlotCount - 1 /\ ColdTurn(k) = 0
    <3>1. refresh_cold_index = After(i) /\ k = After(i)
      BY <2>5, ScanEnds DEF ColdTurn, TypeOK
    <3>2. age = ColdMaxCycles - 1 /\ Unsent(i)' = ColdMaxCycles
      BY <1>5, <2>5
    <3>3. ~Overdue(k)
      <4> SUFFICES ASSUME Overdue(k) PROVE FALSE
        OBVIOUS
      <4>1. age + Repaid <= 1
        BY <1>1, <2>1, <3>1 DEF StarvationInv, ColdSentFresh
      <4> QED
        BY <1>1, <1>2, <3>2, <4>1, PacingAssumption DEF Paced
    <3>4. Refreshed(k) /\ Unsent(k) = ColdMaxCycles - 1
      <4>1. Refreshed(k) /\ ~(Unsent(k) >= ColdMaxCycles)
        BY <2>1, <3>3 DEF Late, Overdue
      <4> QED
        BY <2>1, <4>1, CycleAges, PacingAssumption DEF Late
    <3>5. Waits(i) \/ WaitsAfter(k, i)
      BY <1>1, <3>1, <3>2, <3>4 DEF StarvationInv, PairWaits
    <3>6. CASE Waits(i)
      <4>1. Changed(i) /\ Unsent(i) + PromptTurn(i) <= ColdMaxCycles - 1
        BY <3>6 DEF Waits
      <4>2. PromptTurn(i) = 0
        <5>1. PromptTurn(i) \in Nat
          BY <1>2
        <5> QED
          BY <3>2, <4>1, <5>1, PacingAssumption
      <4>3. PromptTurn(i)' = 0
        BY <2>1, <4>2 DEF PromptTurn
      <4> QED
        BY <1>1, <2>1, <3>2, <4>1, <4>3, PacingAssumption DEF SentNext
    <3>7. CASE WaitsAfter(k, i)
      <4>1. /\ (ColdMaxCycles - 1) + PromptTurn(k) <= ColdMaxCycles - 1
            /\ \/ PromptTurn(i) < PromptTurn(k)
               \/ (ColdMaxCycles - 1) + PromptTurn(k) <= ColdMaxCycles - 2
        BY <3>4, <3>7 DEF Waits, WaitsAfter
      <4> QED
        BY <1>2, <4>1, PacingAssumption, SlotCountAssumption
    <3> QED
      BY <3>5, <3>6, <3>7
  <2> QED
    BY <1>1, <2>3, <2>4, <2>5, PacingAssumption
<1> QED
  BY <1>3, <1>6, <1>7 DEF Cycle

\* Ageing keeps every slot below the bound, the one about to be charged too.
LEMMA CycleBound ==
  ASSUME TypeOK, TypeOK', Paced, StarvationInv, Cycle
  PROVE  UnsentBound'
<1> SUFFICES ASSUME NEW i \in Slots, Refreshed(i)'
             PROVE  slots'[i].unsent_cycles < ColdMaxCycles + 2 * (SlotCount - 1)
  BY DEF UnsentBound, Refreshed
<1>1. Refreshed(i)
  BY DEF Cycle
<1>2. /\ Unsent(i) \in Nat /\ slots'[i].unsent_cycles \in Nat
      /\ slots'[i].unsent_cycles <= Unsent(i) + 1
  BY <1>1, CycleAges
<1>3. ColdTurn(i) \in 0 .. SlotCount - 1 /\ Repaid \in 0 .. 1
  BY TurnType
<1>4. CASE Unsent(i) < ColdMaxCycles
  BY <1>2, <1>4, PacingAssumption, SlotCountAssumption DEF Paced
<1>5. CASE Overdue(i)
  <2>1. InTurn(i) \/ SentNext(i)
    BY <1>5 DEF StarvationInv, OverdueWithin
  <2>2. Unsent(i) <= ColdMaxCycles + 2 * (SlotCount - 2) \/ Unsent(i) <= ColdMaxCycles
    BY <1>2, <1>3, <2>1, PacingAssumption, SlotCountAssumption DEF InTurn, SentNext
  <2> QED
    BY <1>2, <2>2, PacingAssumption, SlotCountAssumption DEF Paced
<1> QED
  BY <1>1, <1>2, <1>4, <1>5, PacingAssumption DEF Overdue
-----------------------------------------------------------------------------
(***************************************************************************)
(* The theorem.                                                            *)
(***************************************************************************)

\* dcc_scheduler.c, _age_refresh_slots, _select_refresh and the charging in
\* run: whatever the application inserts, changes, removes or clears, a refresh
\* slot's unsent_cycles stays below the ceiling plus two cycles for each other
\* slot, for any number of slots up to the ceiling.
THEOREM SchedulerUnsentBound ==
  ASSUME Paced, RefreshOnly
  PROVE  Spec => []UnsentBound
<1>1. Init => StarvationInv
  <2> SUFFICES ASSUME Init PROVE StarvationInv
    OBVIOUS
  <2>1. \A i \in Slots : ~slots[i].active
    BY BlankSlotType DEF Init
  <2>2. \A i \in Slots : ~Refreshed(i)
    BY <2>1 DEF Refreshed, IsRefresh
  <2>3. charging = NoSlot
    BY DEF Init
  <2> QED
    BY <2>1, <2>2, <2>3 DEF StarvationInv, KeysOfCommands, ChargedIsLast, LastFresh,
       ColdSentFresh, PairWaits, OverdueWithin, Overdue, UnsentBound, Refreshed
<1>2. ASSUME TypeOK, TypeOK', UniqueKeys, StarvationInv, [Next]_vars
      PROVE  StarvationInv'
  <2>1. KeysOfCommands'
    BY <1>2, KeysStep DEF StarvationInv
  <2>2. CASE BetweenSends
    BY <1>2, <2>1, <2>2, BetweenKeeps DEF StarvationInv
  <2>3. CASE SendsPacket
    <3>1. Cycle
      BY <1>2, <2>3, SendCycle DEF StarvationInv
    <3> QED
      BY <1>2, <2>1, <3>1, CycleLast, CycleColdSent, CyclePair, CycleOverdue, CycleBound
      DEF StarvationInv
  <2> QED
    BY <1>2, <2>2, <2>3, BetweenOrSends DEF StarvationInv
<1>3. StarvationInv => UnsentBound
  BY DEF StarvationInv
<1> QED
  BY <1>1, <1>2, <1>3, SchedulerTypes, SchedulerUniqueKeys, PTL DEF Spec
=============================================================================
