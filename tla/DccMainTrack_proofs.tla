------------------------- MODULE DccMainTrack_proofs -------------------------
(***************************************************************************)
(* Theorems about the main track: the hand-off between the main loop and   *)
(* the timer ISR, for any number of slots and any commands.                *)
(***************************************************************************)
EXTENDS DccMainTrack, TLAPS

USE DEF Sched!NoSlot, Enc!IsIdle

\* Where the completion flag and the loaded packet may be at each point of the
\* run.  A packet in flight is a loaded packet, a run that goes on past the
\* flag owns both of them, and nothing is being charged meanwhile.
HandoffInv ==
  /\ half_bit \in 0..1
  /\ packet_complete_flag \in BOOLEAN /\ packet_loaded \in BOOLEAN
  /\ first_packet_sent \in BOOLEAN
  /\ at \in {"start", "seen", "cleared", "copying"}
  /\ copying \in BOOLEAN
  /\ copying <=> at = "copying"
  /\ ~packet_loaded => state = "IDLE"
  /\ at # "start" => charging = Sched!NoSlot
  /\ at = "start" /\ first_packet_sent => (packet_loaded <=> ~packet_complete_flag)
  /\ at = "start" /\ ~first_packet_sent => ~packet_loaded /\ ~packet_complete_flag
  /\ at = "seen" => first_packet_sent /\ packet_complete_flag /\ ~packet_loaded
  /\ at \in {"cleared", "copying"} => ~packet_loaded /\ ~packet_complete_flag
-----------------------------------------------------------------------------
(***************************************************************************)
(* What the ISR and the power switches leave alone.                        *)
(***************************************************************************)

\* A tick either ends a packet, or leaves the buffer as it is and starts no
\* packet that is not loaded.
LEMMA TickCases ==
  ASSUME half_bit \in 0..1, Enc!Tick
  PROVE  /\ half_bit' \in 0..1
         /\ UNCHANGED <<copying, active_packet>>
         /\ \/ Enc!Completes /\ packet_loaded' = FALSE /\ state' = "IDLE"
            \/ /\ ~Enc!Completes
               /\ UNCHANGED packet_loaded
               /\ state' = state \/ packet_loaded \/ state # "IDLE"
<1> USE DEF Enc!encVars, Enc!clock, Enc!position, Enc!buffer, Enc!Completes,
            Enc!BitEnds
<1>1. CASE Enc!TickStopped
  BY <1>1 DEF Enc!TickStopped
<1>2. CASE Enc!TickWithinHalf
  BY <1>2 DEF Enc!TickWithinHalf
<1>3. CASE Enc!TickHalfBit
  BY <1>3 DEF Enc!TickHalfBit
<1> USE DEF Enc!TickFullBit, Enc!KeepsPacket
<1>4. CASE Enc!TickIdle
  BY <1>4 DEF Enc!TickIdle
<1>5. CASE Enc!TickPickUp
  BY <1>5 DEF Enc!TickPickUp
<1>6. CASE Enc!TickPreamble
  BY <1>6 DEF Enc!TickPreamble
<1>7. CASE Enc!TickStartBit
  BY <1>7 DEF Enc!TickStartBit
<1>8. CASE Enc!TickData
  BY <1>8 DEF Enc!TickData
<1>9. CASE Enc!TickEndBit
  BY <1>9 DEF Enc!TickEndBit
<1> QED
  BY <1>1, <1>2, <1>3, <1>4, <1>5, <1>6, <1>7, <1>8, <1>9 DEF Enc!Tick

\* Starting and stopping the encoder keeps the packet it holds, and so does
\* the timer being acquired or released.
Switches == PowerOn \/ PowerOff \/ ServiceOn \/ ServiceOff

\* A switch of either track happens between two runs and keeps the packet.
LEMMA SwitchKeeps ==
  ASSUME Switches
  PROVE  /\ at = "start"
         /\ UNCHANGED <<schedOwn, packet_complete_flag, at, packet_loaded,
                        active_packet, copying>>
         /\ half_bit' \in {0, half_bit}
         /\ state' \in {"IDLE", state}
<1> USE DEF BetweenRuns, Enc!buffer, Enc!clock, Enc!position, encVars
<1>1. CASE PowerOn
  BY <1>1 DEF PowerOn, Enc!Start
<1>2. CASE PowerOff
  BY <1>2 DEF PowerOff, Enc!Stop
<1>3. CASE ServiceOn
  BY <1>3 DEF ServiceOn
<1>4. CASE ServiceOff
  BY <1>4 DEF ServiceOff
<1> QED
  BY <1>1, <1>2, <1>3, <1>4 DEF Switches

\* The application touches the scheduler's own data alone, and starts nothing.
LEMMA ApplicationKeeps ==
  ASSUME Application
  PROVE  /\ UNCHANGED <<packet_complete_flag, encVars, at, power>>
         /\ UNCHANGED <<first_packet_sent, charging>>
BY DEF Application, Sched!AppInsert, Sched!RemoveAddress, Sched!Clear,
       Sched!HookInsert, Sched!Insert, Sched!handed

\* Publishing ends the storing of the packet and leaves the encoder's position alone.
LEMMA PublishKeeps ==
  ASSUME RunPublishes
  PROVE  /\ packet_loaded' = TRUE /\ copying' = FALSE
         /\ UNCHANGED <<state, half_bit, packet_complete_flag>>
         /\ first_packet_sent' = TRUE /\ at' = "start"
BY DEF RunPublishes, Enc!LoadEnd, Enc!clock, Enc!position
-----------------------------------------------------------------------------
\* Nothing is in flight when the library is initialised.
LEMMA HandoffInit == Init => HandoffInv
<1> SUFFICES ASSUME Init PROVE HandoffInv
  OBVIOUS
<1>1. /\ half_bit = 0 /\ ~packet_loaded /\ packet_loaded \in BOOLEAN
      /\ ~copying /\ copying \in BOOLEAN
  BY DEF Init, Enc!EncInit
<1>2. /\ ~packet_complete_flag /\ packet_complete_flag \in BOOLEAN
      /\ ~first_packet_sent /\ first_packet_sent \in BOOLEAN
      /\ at = "start"
  BY DEF Init, Sched!Init
<1>3. state = "IDLE"
  BY DEF Init, Enc!EncInit
<1> QED
  BY <1>1, <1>2, <1>3 DEF HandoffInv

\* Every step of the run, the ISR, the application and the power switches keeps
\* the hand-off.
LEMMA HandoffStep ==
  ASSUME HandoffInv, [Next]_vars
  PROVE  HandoffInv'
<1> USE DEF HandoffInv
<1>1. CASE UNCHANGED vars
  BY <1>1 DEF vars, schedOwn, encVars
<1>2. CASE RunChecksFlag
  BY <1>2 DEF RunChecksFlag, schedOwn, encVars
<1>3. CASE RunClearsFlag
  BY <1>3 DEF RunClearsFlag, schedOwn, encVars
<1>4. CASE RunAsksIdle
  BY <1>4 DEF RunAsksIdle, schedOwn, encVars, Enc!LoadBegin, Enc!clock,
              Enc!position
<1>5. CASE RunPublishes
  BY <1>5, PublishKeeps DEF RunPublishes
<1>6. CASE RunCharges
  BY <1>6 DEF RunCharges, Sched!Charge, encVars
<1>7. CASE Application
  BY <1>7, ApplicationKeeps DEF encVars
<1>8. CASE TimerIsr
  <2>1. /\ packet_complete_flag' = (packet_complete_flag \/ Enc!Completes)
        /\ UNCHANGED <<first_packet_sent, charging, at>>
    BY <1>8 DEF TimerIsr, schedOwn
  <2>2. CASE Enc!Completes
    <3>1. packet_loaded /\ packet_loaded' = FALSE /\ state' = "IDLE"
      BY <1>8, <2>2, TickCases DEF TimerIsr, Enc!Completes
    <3>2. packet_complete_flag' = TRUE
      BY <2>1, <2>2
    <3>3. half_bit' \in 0..1 /\ UNCHANGED copying
      BY <1>8, TickCases DEF TimerIsr
    <3> QED
      BY <2>1, <3>1, <3>2, <3>3
  <2>3. CASE ~Enc!Completes
    <3>1. /\ UNCHANGED <<packet_loaded, copying>>
          /\ state' = state \/ packet_loaded \/ state # "IDLE"
          /\ half_bit' \in 0..1
      BY <1>8, <2>3, TickCases DEF TimerIsr
    <3>2. UNCHANGED packet_complete_flag
      BY <2>1, <2>3
    <3> QED
      BY <2>1, <3>1, <3>2
  <2> QED
    BY <2>2, <2>3
<1>9. CASE Switches
  BY <1>9, SwitchKeeps DEF schedOwn
<1> QED
  BY <1>1, <1>2, <1>3, <1>4, <1>5, <1>6, <1>7, <1>8, <1>9
  DEF Next, Run, Switches

\* The hand-off of DccScheduler_run and tick_isr, at every point of the run.
THEOREM MainTrackHandoff == Spec => []HandoffInv
BY HandoffInit, HandoffStep, PTL DEF Spec

\* load_packet and tick_isr (dcc_bit_encoder.c): while the packet is being
\* stored the ISR is idle and does not see it as loaded.
THEOREM MainTrackNoTornRead == Spec => []NoTornRead
<1>1. HandoffInv => NoTornRead
  BY DEF HandoffInv, NoTornRead
<1> QED
  BY <1>1, MainTrackHandoff, PTL
-----------------------------------------------------------------------------
(***************************************************************************)
(* The split run implements the scheduler whose run is one step.           *)
(***************************************************************************)

\* The flag as the scheduler of DccScheduler sees it.
SeenFlag == packet_complete_flag
            \/ (at \in {"cleared", "copying"} /\ first_packet_sent)

\* What the application and the hook do is what they do to the abstract scheduler.
LEMMA ApplicationImplements ==
  ASSUME HandoffInv, Application
  PROVE  Sched!Next
<1>1. UNCHANGED <<packet_complete_flag, encVars, at, first_packet_sent>>
  BY ApplicationKeeps
<1>2. Sched!AppInsert \/ (\E a \in Removable : Sched!RemoveAddress(a))
      \/ Sched!Clear \/ Sched!HookInsert
  BY DEF Application
<1> QED
  BY <1>2 DEF Sched!Next

\* Publishing the packet is the whole of a SendOneShot, SendRefresh or
\* SendIdle.
LEMMA PublishImplements ==
  ASSUME HandoffInv, RunPublishes
  PROVE  Sched!Next
<1> DEFINE pool == Sched!Aged(slots)
<1>1. slots' = pool
  BY DEF RunPublishes
<1>2. Sched!CycleStarts
  <2>1. charging = Sched!NoSlot /\ at = "copying" /\ ~packet_complete_flag
    BY DEF HandoffInv, RunPublishes
  <2>2. ~(packet_complete_flag'
          \/ (at' \in {"cleared", "copying"} /\ first_packet_sent'))
    BY <2>1, PublishKeeps
  <2> QED
    BY <2>1, <2>2, PublishKeeps DEF Sched!CycleStarts
<1>3. \/ /\ Sched!OneShots(pool) # {}
         /\ \E i \in Sched!Slots : /\ Sched!BestOneShot(i, pool)
                                   /\ Sched!LoadSlot(i, pool[i].address, TRUE)
         /\ UNCHANGED cursors
      \/ /\ Sched!OneShots(pool) = {}
         /\ \E i \in Sched!Slots : /\ Sched!SelectRefresh(i, pool)
                                   /\ Sched!LoadSlot(i, pool[i].address, FALSE)
      \/ /\ Sched!OneShots(pool) = {}
         /\ Sched!NoRefresh(pool)
         /\ Sched!LoadIdle
  BY DEF RunPublishes
<1> HIDE DEF pool
<1>4. CASE /\ \E i \in Sched!Slots : /\ Sched!BestOneShot(i, pool)
                                     /\ Sched!LoadSlot(i, pool[i].address, TRUE)
           /\ UNCHANGED cursors
  <2>1. Sched!SendOneShot
    BY <1>1, <1>2, <1>4 DEF Sched!SendOneShot, pool, cursors, Sched!cursors
  <2> QED
    BY <2>1 DEF Sched!Next, Sched!Run
<1>5. CASE /\ Sched!OneShots(pool) = {}
           /\ \E i \in Sched!Slots : /\ Sched!SelectRefresh(i, pool)
                                     /\ Sched!LoadSlot(i, pool[i].address, FALSE)
  <2>1. Sched!SendRefresh
    BY <1>1, <1>2, <1>5 DEF Sched!SendRefresh, pool
  <2> QED
    BY <2>1 DEF Sched!Next, Sched!Run
<1>6. CASE /\ Sched!OneShots(pool) = {}
           /\ Sched!NoRefresh(pool)
           /\ Sched!LoadIdle
  <2>1. Sched!SendIdle
    BY <1>1, <1>2, <1>6 DEF Sched!SendIdle, pool
  <2> QED
    BY <2>1 DEF Sched!Next, Sched!Run
<1> QED
  BY <1>3, <1>4, <1>5, <1>6

\* A step that leaves the scheduler's own data, the flag it sees, and the
\* encoder's buffer alone is no step of the scheduler.
LEMMA Stutters ==
  ASSUME UNCHANGED <<schedOwn, SeenFlag, packet_loaded, active_packet>>
  PROVE  UNCHANGED Sched!vars
BY DEF Sched!vars, schedOwn, cursors, SeenFlag

\* Every step is a step of the abstract scheduler or leaves what it sees alone.
LEMMA StepImplements ==
  ASSUME HandoffInv, [Next]_vars
  PROVE  [Sched!Next]_(Sched!vars)
<1> USE DEF HandoffInv
<1>1. CASE UNCHANGED vars
  BY <1>1, Stutters DEF vars, encVars, SeenFlag, schedOwn
<1>2. CASE RunChecksFlag
  BY <1>2, Stutters DEF RunChecksFlag, encVars, SeenFlag, schedOwn
<1>3. CASE RunClearsFlag
  BY <1>3, Stutters DEF RunClearsFlag, encVars, SeenFlag, schedOwn
<1>4. CASE RunAsksIdle
  <2>1. UNCHANGED <<schedOwn, packet_complete_flag, packet_loaded, active_packet>>
    BY <1>4 DEF RunAsksIdle, encVars, Enc!LoadBegin
  <2>2. at = "cleared" /\ at' = "copying"
    BY <1>4 DEF RunAsksIdle
  <2> QED
    BY <2>1, <2>2, Stutters DEF SeenFlag, schedOwn
<1>5. CASE RunPublishes
  BY <1>5, PublishImplements
<1>6. CASE RunCharges
  BY <1>6 DEF RunCharges, Sched!Next, Sched!Run
<1>7. CASE Application
  BY <1>7, ApplicationImplements
<1>8. CASE TimerIsr
  <2>1. /\ packet_complete_flag' = (packet_complete_flag \/ Enc!Completes)
        /\ UNCHANGED <<schedOwn, at, active_packet>>
    BY <1>8, TickCases DEF TimerIsr
  <2>2. CASE Enc!Completes
    <3>1. packet_loaded /\ packet_loaded' = FALSE
      BY <1>8, <2>2, TickCases DEF TimerIsr, Enc!Completes
    <3>2. packet_complete_flag' = TRUE
      BY <2>1, <2>2
    <3>3. Sched!PacketComplete
      BY <2>1, <3>1, <3>2 DEF Sched!PacketComplete, schedOwn, cursors,
                              Sched!cursors, Sched!handed
    <3> QED
      BY <3>3 DEF Sched!Next
  <2>3. CASE ~Enc!Completes
    <3>1. UNCHANGED <<packet_loaded, packet_complete_flag>>
      BY <1>8, <2>1, <2>3, TickCases DEF TimerIsr
    <3> QED
      BY <2>1, <3>1, Stutters DEF SeenFlag, schedOwn
  <2> QED
    BY <2>2, <2>3
<1>9. CASE Switches
  BY <1>9, SwitchKeeps, Stutters DEF SeenFlag, schedOwn
<1> QED
  BY <1>1, <1>2, <1>3, <1>4, <1>5, <1>6, <1>7, <1>8, <1>9
  DEF Next, Run, Switches

\* DccScheduler_run in the main loop and tick_isr in the timer interrupt,
\* interleaved access by access and with power switched on and off, implement
\* the scheduler that hands a packet over in one step.
THEOREM MainTrackImplementsScheduler == Spec => ImplementsScheduler
<1>1. Init => Sched!Init
  BY DEF Init
<1> QED
  BY <1>1, StepImplements, MainTrackHandoff, PTL
  DEF Spec, ImplementsScheduler, Sched!Spec
-----------------------------------------------------------------------------
(***************************************************************************)
(* The shared timer.                                                       *)
(***************************************************************************)

\* The reference count is the number of tracks that need the timer.
CountInv ==
  /\ track_power \in BOOLEAN /\ service_on \in BOOLEAN
  /\ timer_running \in BOOLEAN
  /\ track_power /\ service_on => _shared_timer_ref_count = 2
  /\ track_power /\ ~service_on => _shared_timer_ref_count = 1
  /\ ~track_power /\ service_on => _shared_timer_ref_count = 1
  /\ ~track_power /\ ~service_on => _shared_timer_ref_count = 0
  /\ timer_running <=> track_power \/ service_on

\* An acquire leaves the timer running; a release leaves it running if another
\* track still counts.
LEMMA TimerCounts ==
  ASSUME CountInv
  PROVE  /\ _shared_timer_acquire =>
              /\ timer_running' = TRUE
              /\ _shared_timer_ref_count' = _shared_timer_ref_count + 1
         /\ _shared_timer_release /\ track_power /\ service_on =>
              timer_running' = TRUE /\ _shared_timer_ref_count' = 1
         /\ _shared_timer_release /\ ~(track_power /\ service_on) =>
              timer_running' = FALSE /\ _shared_timer_ref_count' = 0
<1>1. ASSUME _shared_timer_acquire
      PROVE  /\ timer_running' = TRUE
             /\ _shared_timer_ref_count' = _shared_timer_ref_count + 1
  <2>1. timer_running \/ _shared_timer_ref_count = 0
    BY DEF CountInv
  <2> QED
    BY <1>1, <2>1 DEF _shared_timer_acquire
<1>2. ASSUME _shared_timer_release, track_power, service_on
      PROVE  timer_running' = TRUE /\ _shared_timer_ref_count' = 1
  <2>1. timer_running /\ _shared_timer_ref_count = 2
    BY <1>2 DEF CountInv
  <2>2. timer_running /\ _shared_timer_ref_count > 1
    BY <2>1
  <2>3. timer_running'
    BY <1>2, <2>2 DEF _shared_timer_release
  <2>4. _shared_timer_ref_count' = 1
    BY <1>2, <2>1 DEF _shared_timer_release
  <2> QED
    BY <1>2, <2>2, <2>3, <2>4 DEF _shared_timer_release
<1>3. ASSUME _shared_timer_release, ~(track_power /\ service_on)
      PROVE  timer_running' = FALSE /\ _shared_timer_ref_count' = 0
  <2>1. _shared_timer_ref_count \in {0, 1}
    BY <1>3 DEF CountInv
  <2>2. ~(timer_running /\ _shared_timer_ref_count > 1)
    BY <2>1
  <2>3. timer_running' = FALSE
    BY <1>3, <2>2, Zenon DEF _shared_timer_release
  <2>4. _shared_timer_ref_count' = 0
    BY <1>3, <2>1 DEF _shared_timer_release
  <2> QED
    BY <2>3, <2>4
<1> QED
  BY <1>1, <1>2, <1>3

\* The wrappers of dcc_config.c count correctly when the application switches
\* off only what is switched on, and on only what is off.
THEOREM MainTrackTimer ==
  ASSUME Balanced
  PROVE  Spec => []TimerFollowsTracks
<1>1. Init => CountInv
  <2> SUFFICES ASSUME Init PROVE CountInv
    OBVIOUS
  <2>1. /\ ~track_power /\ track_power \in BOOLEAN
        /\ ~service_on /\ service_on \in BOOLEAN
        /\ ~timer_running /\ timer_running \in BOOLEAN
        /\ _shared_timer_ref_count = 0
    BY DEF Init
  <2> QED
    BY <2>1 DEF CountInv
<1>2. ASSUME CountInv, [Next]_vars
      PROVE  CountInv'
  <2> USE <1>2 DEF CountInv
  <2>1. CASE UNCHANGED power
    BY <2>1 DEF power
  <2>2. CASE Run \/ Application \/ TimerIsr
    <3>1. UNCHANGED power
      BY <2>2, ApplicationKeeps
      DEF Run, RunChecksFlag, RunClearsFlag, RunAsksIdle, RunPublishes,
          RunCharges, TimerIsr
    <3> QED
      BY <2>1, <3>1
  <2>3. CASE PowerOn
    <3>1. ~track_power /\ track_power' = TRUE /\ UNCHANGED service_on
      BY <2>3 DEF PowerOn
    <3>2. timer_running' = TRUE
          /\ _shared_timer_ref_count' = _shared_timer_ref_count + 1
      BY <2>3, TimerCounts DEF PowerOn
    <3> QED
      BY <3>1, <3>2
  <2>4. CASE PowerOff
    <3>1. track_power /\ track_power' = FALSE /\ UNCHANGED service_on
      BY <2>4 DEF PowerOff
    <3>2. _shared_timer_release
      BY <2>4 DEF PowerOff
    <3> QED
      BY <3>1, <3>2, TimerCounts
  <2>5. CASE ServiceOn
    <3>1. ~service_on /\ service_on' = TRUE /\ UNCHANGED track_power
      BY <2>5 DEF ServiceOn
    <3>2. timer_running' = TRUE
          /\ _shared_timer_ref_count' = _shared_timer_ref_count + 1
      BY <2>5, TimerCounts DEF ServiceOn
    <3> QED
      BY <3>1, <3>2
  <2>6. CASE ServiceOff
    <3>1. service_on /\ service_on' = FALSE /\ UNCHANGED track_power
      BY <2>6 DEF ServiceOff
    <3>2. _shared_timer_release
      BY <2>6 DEF ServiceOff
    <3> QED
      BY <3>1, <3>2, TimerCounts
  <2> QED
    BY <2>1, <2>2, <2>3, <2>4, <2>5, <2>6 DEF Next, vars
<1>3. CountInv => TimerFollowsTracks
  BY DEF CountInv, TimerFollowsTracks
<1> QED
  BY <1>1, <1>2, <1>3, PTL DEF Spec
-----------------------------------------------------------------------------
(***************************************************************************)
(* What the scheduler's theorems say of the split run.  They are proved of *)
(* DccScheduler; here they hold of the scheduler the split run implements. *)
(***************************************************************************)
SchedThm == INSTANCE DccScheduler_proofs
  WITH packet_complete_flag <-
         packet_complete_flag \/ (at \in {"cleared", "copying"} /\ first_packet_sent),
       buffered <- packet_loaded,
       track <- active_packet.first

\* The theorems' scheduler is the one the main track implements.
LEMMA SameInit == Sched!Init => SchedThm!Init
BY DEF Sched!Init, SchedThm!Init, Sched!Slots, SchedThm!Slots, Sched!NoSlot,
       SchedThm!NoSlot, Sched!Idle, SchedThm!Idle, Sched!BlankSlot,
       SchedThm!BlankSlot

\* Operator by operator its definitions are those of Sched.
LEMMA SameNext == Sched!Next => SchedThm!Next
BY Zenon
DEF Sched!Next, SchedThm!Next, Sched!AppInsert, SchedThm!AppInsert,
    Sched!RemoveAddress, SchedThm!RemoveAddress, Sched!Clear, SchedThm!Clear,
    Sched!Run, SchedThm!Run, Sched!HookInsert, SchedThm!HookInsert,
    Sched!PacketComplete, SchedThm!PacketComplete, Sched!SendOneShot,
    SchedThm!SendOneShot, Sched!SendRefresh, SchedThm!SendRefresh,
    Sched!SendIdle, SchedThm!SendIdle, Sched!Charge, SchedThm!Charge,
    Sched!Insert, SchedThm!Insert, Sched!Lowest, SchedThm!Lowest,
    Sched!SameKey, SchedThm!SameKey, Sched!FreeSlots, SchedThm!FreeSlots,
    Sched!Filled, SchedThm!Filled, Sched!Slots, SchedThm!Slots, Sched!NoSlot,
    SchedThm!NoSlot, Sched!Idle, SchedThm!Idle, Sched!handed, SchedThm!handed,
    Sched!cursors, SchedThm!cursors, Sched!IsRefresh, SchedThm!IsRefresh,
    Sched!Aged, SchedThm!Aged, Sched!OneShots, SchedThm!OneShots,
    Sched!BestOneShot, SchedThm!BestOneShot, Sched!InPass, SchedThm!InPass,
    Sched!Members, SchedThm!Members, Sched!RefreshPass, SchedThm!RefreshPass,
    Sched!Cursor, SchedThm!Cursor, Sched!ScanDistance, SchedThm!ScanDistance,
    Sched!NextInRing, SchedThm!NextInRing, Sched!After, SchedThm!After,
    Sched!SelectRefresh, SchedThm!SelectRefresh, Sched!NoRefresh,
    SchedThm!NoRefresh, Sched!Aliases, SchedThm!Aliases, Sched!TooSoon,
    SchedThm!TooSoon, Sched!CycleStarts, SchedThm!CycleStarts, Sched!Load,
    SchedThm!Load, Sched!LoadIdle, SchedThm!LoadIdle, Sched!LoadSlot,
    SchedThm!LoadSlot, Sched!ChargedOneShot, SchedThm!ChargedOneShot,
    Sched!ChargedRefresh, SchedThm!ChargedRefresh

\* Every behaviour of the main track is one of theirs ...
LEMMA MainTrackRunsScheduler == Spec => SchedThm!Spec
<1>1. [Sched!Next]_(Sched!vars) => [SchedThm!Next]_(SchedThm!vars)
  BY SameNext DEF Sched!vars, SchedThm!vars
<1> QED
  BY <1>1, SameInit, MainTrackImplementsScheduler, PTL
  DEF ImplementsScheduler, Sched!Spec, SchedThm!Spec

\* ... and the constants are as they assume.
LEMMA SchedulerAssumptions ==
  /\ SchedThm!SlotCountAssumption
  /\ SchedThm!CommandsAssumption
  /\ SchedThm!PacingAssumption
BY SchedulerAssumption
DEF SchedThm!SlotCountAssumption, SchedThm!CommandsAssumption,
    SchedThm!PacingAssumption, Sched!Command, SchedThm!Command, Sched!Tags,
    SchedThm!Tags

\* Duplicate combining, with the ISR completing packets, the application
\* inserting and removing, and power switched on and off at any time: no two
\* active slots of the pool hold the same address and tag.
THEOREM MainTrackUniqueKeys == Spec => []Sched!UniqueKeys
<1>1. SchedThm!Spec => []SchedThm!UniqueKeys
  BY SchedThm!SchedulerUniqueKeys, SchedulerAssumptions
<1>2. SchedThm!UniqueKeys => Sched!UniqueKeys
  BY DEF SchedThm!UniqueKeys, Sched!UniqueKeys, SchedThm!Slots, Sched!Slots
<1> QED
  BY <1>1, <1>2, MainTrackRunsScheduler, PTL

\* A slot is never lost to a one-shot that has nothing left to send.
THEOREM MainTrackNoDeadOneShot == Spec => []Sched!NoDeadOneShot
<1>1. SchedThm!Spec => []SchedThm!NoDeadOneShot
  BY SchedThm!SchedulerNoDeadOneShot, SchedulerAssumptions
<1>2. SchedThm!NoDeadOneShot => Sched!NoDeadOneShot
  BY DEF SchedThm!NoDeadOneShot, Sched!NoDeadOneShot, SchedThm!Slots,
         Sched!Slots
<1> QED
  BY <1>1, <1>2, MainTrackRunsScheduler, PTL

\* What reaches the encoder: of two packets in a row at most one goes to a
\* given short address 112-127, even when a power switch abandons one half way.
THEOREM MainTrackAliasSpacing == Spec => Sched!AliasSpacing
<1>1. SchedThm!Spec => SchedThm!AliasSpacing
  BY SchedThm!SchedulerAliasSpacing, SchedulerAssumptions
<1>2. SchedThm!AliasSpacing => Sched!AliasSpacing
  BY DEF SchedThm!AliasSpacing, Sched!AliasSpacing, SchedThm!Aliases,
         Sched!Aliases, SchedThm!vars, Sched!vars
<1> QED
  BY <1>1, <1>2, MainTrackRunsScheduler

\* The starvation bound, with the ISR and the power switches between any two
\* accesses of the run: with refresh commands alone, no slot is unsent for
\* longer than the ceiling and the turns of the others.
THEOREM MainTrackUnsentBound ==
  ASSUME SchedThm!Paced, SchedThm!RefreshOnly
  PROVE  Spec => []Sched!UnsentBound
<1>1. SchedThm!Spec => []SchedThm!UnsentBound
  BY SchedThm!SchedulerUnsentBound, SchedulerAssumptions
<1>2. SchedThm!UnsentBound => Sched!UnsentBound
  BY DEF SchedThm!UnsentBound, Sched!UnsentBound, SchedThm!Slots, Sched!Slots,
         SchedThm!IsRefresh, Sched!IsRefresh
<1> QED
  BY <1>1, <1>2, MainTrackRunsScheduler, PTL
-----------------------------------------------------------------------------
(***************************************************************************)
(* Types.                                                                  *)
(***************************************************************************)

\* A packet's bytes and preamble are there (load_packet).
LEMMA PacketTypes ==
  ASSUME NEW byte \in FirstBytes
  PROVE  /\ PacketOf(byte).first = byte
         /\ PacketOf(byte).preamble_bits = 1
BY DEF PacketOf

\* The parts of the type invariant that are about counters, about flags and
\* about the packet.
Counters ==
  /\ half_bit \in 0..1 /\ tick_counter \in 0..1
  /\ preamble_count \in Nat /\ byte_index \in Nat
  /\ bit_index \in 0..ByteBits - 1
Flags ==
  /\ state \in Enc!States
  /\ packet_loaded \in BOOLEAN /\ running \in BOOLEAN
  /\ current_bit_is_one \in BOOLEAN /\ toggle_next \in BOOLEAN
  /\ railcom_cutout_arm_pending \in BOOLEAN /\ copying \in BOOLEAN
TrackPackets == {PacketOf(byte) : byte \in FirstBytes}

\* The encoder's types.  The preamble counter does not go below zero, because
\* it is not zero while a preamble is sent, and it is loaded from a real
\* packet, because a loaded packet is one.
EncInv ==
  /\ Counters /\ Flags
  /\ active_packet \in TrackPackets \cup {Enc!EmptyPacket}
  /\ packet_loaded => active_packet \in TrackPackets
  /\ state = "PREAMBLE" => preamble_count > 0

LEMMA EncParts ==
  Enc!EncTypeOK <=> /\ Counters /\ Flags
                    /\ active_packet \in TrackPackets \cup {Enc!EmptyPacket}
BY DEF Enc!EncTypeOK, Counters, Flags, TrackPackets

\* Every branch of tick_isr keeps the counters in their range ...
LEMMA TickCounters ==
  ASSUME Counters, state = "PREAMBLE" => preamble_count > 0, Enc!Tick,
         state = "IDLE" /\ packet_loaded => active_packet.preamble_bits = 1
  PROVE  /\ Counters'
         /\ state' = "PREAMBLE" => preamble_count' > 0
<1> USE EncoderAssumption DEF Counters, Enc!clock, Enc!position
<1>1. CASE Enc!TickStopped
  BY <1>1 DEF Enc!TickStopped
<1>2. CASE Enc!TickWithinHalf
  BY <1>2 DEF Enc!TickWithinHalf, Enc!HalfEnds, Enc!HalfTicks
<1>3. CASE Enc!TickHalfBit
  BY <1>3 DEF Enc!TickHalfBit
<1> USE DEF Enc!TickFullBit, Enc!KeepsPacket
<1>4. CASE Enc!TickIdle
  BY <1>4 DEF Enc!TickIdle
<1>5. CASE Enc!TickPickUp
  BY <1>5 DEF Enc!TickPickUp
<1>6. CASE Enc!TickPreamble
  BY <1>6 DEF Enc!TickPreamble
<1>7. CASE Enc!TickStartBit
  BY <1>7 DEF Enc!TickStartBit
<1>8. CASE Enc!TickData
  BY <1>8 DEF Enc!TickData
<1>9. CASE Enc!TickEndBit
  BY <1>9 DEF Enc!TickEndBit
<1> QED
  BY <1>1, <1>2, <1>3, <1>4, <1>5, <1>6, <1>7, <1>8, <1>9 DEF Enc!Tick

\* ... and the flags.
LEMMA TickFlags ==
  ASSUME Flags, Enc!Tick
  PROVE  Flags'
<1> USE EncoderAssumption DEF Flags, Enc!States, Enc!buffer
<1>1. CASE Enc!TickStopped
  BY <1>1 DEF Enc!TickStopped
<1>2. CASE Enc!TickWithinHalf
  BY <1>2 DEF Enc!TickWithinHalf
<1>3. CASE Enc!TickHalfBit
  BY <1>3 DEF Enc!TickHalfBit
<1> USE DEF Enc!TickFullBit, Enc!KeepsPacket
<1>4. CASE Enc!TickIdle
  BY <1>4 DEF Enc!TickIdle
<1>5. CASE Enc!TickPickUp
  BY <1>5 DEF Enc!TickPickUp
<1>6. CASE Enc!TickPreamble
  BY <1>6 DEF Enc!TickPreamble
<1>7. CASE Enc!TickStartBit
  BY <1>7 DEF Enc!TickStartBit, Enc!DataBit
<1>8. CASE Enc!TickData
  BY <1>8 DEF Enc!TickData, Enc!DataBit
<1>9. CASE Enc!TickEndBit
  BY <1>9 DEF Enc!TickEndBit
<1> QED
  BY <1>1, <1>2, <1>3, <1>4, <1>5, <1>6, <1>7, <1>8, <1>9 DEF Enc!Tick

LEMMA EncInit == Init => EncInv
<1> SUFFICES ASSUME Init PROVE EncInv
  OBVIOUS
<1>1. Enc!EncInit
  BY DEF Init
<1>2. Counters
  BY <1>1, EncoderAssumption DEF Enc!EncInit, Counters
<1>3. Flags /\ state = "IDLE" /\ ~packet_loaded
  BY <1>1 DEF Enc!EncInit, Flags, Enc!States
<1> QED
  BY <1>1, <1>2, <1>3 DEF Enc!EncInit, EncInv

\* Loading, starting, stopping and clocking a packet keep the encoder's types.
LEMMA EncStep ==
  ASSUME EncInv, [Next]_vars
  PROVE  EncInv'
<1> USE DEF Enc!clock, Enc!position, Enc!buffer
<1>1. CASE UNCHANGED encVars
  BY <1>1 DEF encVars, EncInv, Counters, Flags
<1>2. CASE RunAsksIdle
  <2>1. CASE Enc!LoadBegin
    BY <2>1 DEF Enc!LoadBegin, EncInv, Counters, Flags
  <2> QED
    BY <1>1, <1>2, <2>1 DEF RunAsksIdle
<1>3. CASE RunPublishes
  <2>1. PICK byte \in FirstBytes : Enc!LoadEnd(PacketOf(byte))
    BY <1>3 DEF RunPublishes
  <2>2. active_packet' \in TrackPackets
    BY <2>1 DEF Enc!LoadEnd, TrackPackets
  <2>3. /\ Counters' /\ Flags'
        /\ state' = "PREAMBLE" => preamble_count' > 0
    BY <2>1 DEF Enc!LoadEnd, EncInv, Counters, Flags
  <2> QED
    BY <2>2, <2>3 DEF EncInv
<1>4. CASE TimerIsr
  <2>1. Enc!Tick
    BY <1>4 DEF TimerIsr
  <2>2. packet_loaded => active_packet.preamble_bits = 1
    BY PacketTypes DEF EncInv, TrackPackets
  <2>3. /\ Counters' /\ Flags'
        /\ state' = "PREAMBLE" => preamble_count' > 0
    BY <2>1, <2>2, TickCounters, TickFlags DEF EncInv
  <2>4. half_bit \in 0..1
    BY DEF EncInv, Counters
  <2>5. /\ UNCHANGED active_packet
        /\ packet_loaded' = FALSE \/ UNCHANGED packet_loaded
    BY <2>1, <2>4, TickCases
  <2> QED
    BY <2>3, <2>5 DEF EncInv
<1>5. CASE Switches
  <2>1. /\ UNCHANGED <<packet_loaded, active_packet, tick_counter, copying,
                       current_bit_is_one, preamble_count, byte_index, bit_index>>
        /\ half_bit' \in {0, half_bit} /\ state' \in {"IDLE", state}
    BY <1>5
    DEF Switches, PowerOn, PowerOff, ServiceOn, ServiceOff, Enc!Start,
        Enc!Stop, encVars
  <2>2. /\ running' \in {TRUE, FALSE, running}
        /\ toggle_next' \in {TRUE, FALSE, toggle_next}
        /\ railcom_cutout_arm_pending' \in {FALSE, railcom_cutout_arm_pending}
    BY <1>5
    DEF Switches, PowerOn, PowerOff, ServiceOn, ServiceOff, Enc!Start,
        Enc!Stop, encVars
  <2>3. Counters'
    BY <2>1 DEF EncInv, Counters
  <2>4. Flags'
    BY <2>1, <2>2 DEF EncInv, Flags, Enc!States
  <2> QED
    BY <2>1, <2>3, <2>4 DEF EncInv
<1>6. CASE RunChecksFlag \/ RunClearsFlag \/ RunCharges \/ Application
  BY <1>1, <1>6, ApplicationKeeps DEF RunChecksFlag, RunClearsFlag, RunCharges
<1>7. CASE UNCHANGED vars
  BY <1>1, <1>7 DEF vars
<1> QED
  BY <1>2, <1>3, <1>4, <1>5, <1>6, <1>7 DEF Next, Run, Switches

\* The main track's own variables, and the byte the scheduler remembers: it is
\* the first byte of a packet.
OwnTypes ==
  /\ last_addr_byte \in FirstBytes
  /\ track_power \in BOOLEAN /\ service_on \in BOOLEAN
  /\ timer_running \in BOOLEAN
  /\ _shared_timer_ref_count \in 0..MaxRefCount

LEMMA OwnTypesInit == Init => OwnTypes
<1> SUFFICES ASSUME Init PROVE OwnTypes
  OBVIOUS
<1>1. _shared_timer_ref_count \in 0..MaxRefCount
  BY RefCountAssumption DEF Init
<1>2. last_addr_byte \in FirstBytes
  BY DEF Init, Sched!Init, Sched!Idle, FirstBytes
<1> QED
  BY <1>1, <1>2 DEF Init, OwnTypes

LEMMA OwnTypesStep ==
  ASSUME OwnTypes, [Next]_vars
  PROVE  OwnTypes'
<1>1. CASE UNCHANGED <<last_addr_byte, power>>
  BY <1>1 DEF OwnTypes, power
<1>2. CASE RunPublishes
  <2>1. PICK byte \in FirstBytes :
          /\ Enc!LoadEnd(PacketOf(byte))
          /\ \/ \E i \in Sched!Slots :
                  \E one_shot \in BOOLEAN :
                    Sched!LoadSlot(i, Sched!Aged(slots)[i].address, one_shot)
             \/ Sched!LoadIdle
    BY <1>2 DEF RunPublishes
  <2>2. last_addr_byte' = active_packet'.first
    BY <2>1 DEF Sched!LoadSlot, Sched!LoadIdle, Sched!Load
  <2>3. active_packet' = PacketOf(byte)
    BY <2>1 DEF Enc!LoadEnd
  <2>4. last_addr_byte' \in FirstBytes
    BY <2>2, <2>3, PacketTypes
  <2>5. UNCHANGED power
    BY <1>2 DEF RunPublishes
  <2> QED
    BY <2>4, <2>5 DEF OwnTypes, power
<1>3. CASE Run \/ Application \/ TimerIsr
  <2>1. CASE RunChecksFlag \/ RunClearsFlag \/ RunAsksIdle \/ TimerIsr
    BY <1>1, <2>1
    DEF RunChecksFlag, RunClearsFlag, RunAsksIdle, TimerIsr, schedOwn
  <2>2. CASE RunCharges
    BY <1>1, <2>2 DEF RunCharges, Sched!Charge
  <2>3. CASE Application
    BY <1>1, <2>3
    DEF Application, Sched!AppInsert, Sched!RemoveAddress, Sched!Clear,
        Sched!HookInsert, Sched!Insert
  <2> QED
    BY <1>2, <1>3, <2>1, <2>2, <2>3 DEF Run
<1>4. CASE Switches
  <2>1. UNCHANGED last_addr_byte
    BY <1>4, SwitchKeeps DEF schedOwn
  <2>2. /\ track_power' \in {TRUE, FALSE, track_power}
        /\ service_on' \in {TRUE, FALSE, service_on}
        /\ _shared_timer_acquire \/ _shared_timer_release
    BY <1>4 DEF Switches, PowerOn, PowerOff, ServiceOn, ServiceOff
  <2>3. _shared_timer_ref_count' \in 0..MaxRefCount
    BY <2>2, RefCountAssumption
    DEF OwnTypes, _shared_timer_acquire, _shared_timer_release
  <2>4. timer_running' \in BOOLEAN
    BY <2>2 DEF OwnTypes, _shared_timer_acquire, _shared_timer_release
  <2> QED
    BY <2>1, <2>2, <2>3, <2>4 DEF OwnTypes
<1> QED
  BY <1>1, <1>2, <1>3, <1>4 DEF Next, Switches, vars, schedOwn

\* Type correctness of the composition: the scheduler's variables through the
\* refinement, the encoder's and the power switches' by their own invariants.
THEOREM MainTrackTypes == Spec => []TypeOK
<1>1. SchedThm!Spec => []SchedThm!TypeOK
  BY SchedThm!SchedulerTypes, SchedulerAssumptions
<1>2. Spec => []EncInv
  BY EncInit, EncStep, PTL DEF Spec
<1>3. Spec => []OwnTypes
  BY OwnTypesInit, OwnTypesStep, PTL DEF Spec
<1>4. SchedThm!TypeOK /\ EncInv /\ OwnTypes /\ HandoffInv => TypeOK
  <2> SUFFICES ASSUME SchedThm!TypeOK, EncInv, OwnTypes, HandoffInv
               PROVE  TypeOK
    OBVIOUS
  <2>1. /\ slots \in [Sched!Slots -> Sched!Slot]
        /\ refresh_index \in Sched!Slots /\ refresh_cold_index \in Sched!Slots
        /\ refresh_last_was_overdue \in BOOLEAN
        /\ charging \in Sched!Slots \cup {Sched!NoSlot}
        /\ charging_one_shot \in BOOLEAN
    BY Zenon
    DEF SchedThm!TypeOK, SchedThm!Slots, Sched!Slots, SchedThm!Slot,
        Sched!Slot, SchedThm!Tags, Sched!Tags, SchedThm!NoSlot
  <2>2. Enc!EncTypeOK
    BY EncParts DEF EncInv
  <2>3. /\ at \in {"start", "seen", "cleared", "copying"}
        /\ first_packet_sent \in BOOLEAN /\ packet_complete_flag \in BOOLEAN
    BY DEF HandoffInv
  <2> QED
    BY <2>1, <2>2, <2>3 DEF OwnTypes, TypeOK
<1> QED
  BY <1>1, <1>2, <1>3, <1>4, MainTrackRunsScheduler, MainTrackHandoff, PTL
=============================================================================
