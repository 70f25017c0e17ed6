# OpenDccCLib in TLA+

OpenDccCLib is a C library for NMRA DCC: a command station (which turns throttle
commands into packets on the rails and programs decoders on a service track) and a
decoder (which receives them). This directory holds TLA+ models of its core, the TLC
runs that check small instances of them, and proofs, checked by TLAPS, of what holds for
every instance. `PROJECT.json` lists the components, runs, theorems and known hazards, and
says which source lines each definition stands for.

Sources are under `src/src/dcc/`; file names below are relative to it.

## 1. The system

A command station has one **main loop** that calls `DccConfig_run()` for ever and one
**58 us timer interrupt** that calls `DccConfig_58us_timer_isr()`. Two further interrupt
sources exist if RailCom is used: a one-shot timer that sequences the cutout, and the UART
that receives during it. A decoder has an edge interrupt (`DccConfig_decoder_edge_isr`),
its own main loop, and a transmit path for RailCom. There are no threads and no
locks, except one around the decoder's RailCom transmit: the code relies on the order of stores, a compiler barrier, and flags each written by one side.

| Component | State it keeps | Operations | Talks to |
|---|---|---|---|
| Scheduler (`dcc_scheduler.c`) | slot pool, two cursors, `last_addr_byte`, `packet_complete_flag`, `first_packet_sent` | insert, remove_address, clear, run, on_packet_complete | encoder (load, is idle), application (hook) |
| Bit encoder (`dcc_bit_encoder.c`), one per track | bit-level state machine, one packet | load_packet, start, stop, is_idle, tick_isr | output pin, cutout, scheduler or service core |
| Main-track API (`dcc_application_command_station_main_track.c`) | none | power on/off, send, add, remove, clear | scheduler, encoder, shared timer |
| Wiring (`dcc_config.c`) | shared-timer reference count, ACK pulse, cutout timing | initialize, run, timer and edge ISRs | everything |
| Service core (`dcc_service_mode_common.c`) | phase, packet and retry counts, ACK sampler | enter, exit, begin_operation, run, ack_sample | service encoder, primitives (callback) |
| Service-track API (`..._service_track.c`) | none | enter, exit, power, task entry points | core, timer, encoder |
| Primitives (`dcc_service_mode_{direct,paged,register,address}.c`) | the steps of one operation | write, verify | core |
| Tasks (`dcc_service_mode_task_*.c`) | bit-by-bit reads, scans, mode detection | read, write, detect | primitives, through one dispatcher |
| RailCom cutout (`dcc_railcom_cutout.c`) | phase and the five durations | begin, cancel, timer_isr | one-shot timer, UART, receiver |
| RailCom receiver (`dcc_railcom_command_station.c`) | pending flag, tag, datagram ring | begin_cutout, run, read | cutout, application |
| Bit decoder (`dcc_bit_decoder.c`) | half-bit and frame state | edge_isr | packet decoder |
| Packet decoder (`dcc_packet_decoder.c`) | packet queue, address caches, CV-access state | enqueue, run | CV storage, application |
| CV storage (`dcc_cv_storage.c`) | lock, factory-reset state | read, write | application's memory |
| Fail-safe (`dcc_failsafe.c`) | time of the last packet, tripped | note_valid_packet, run | application |
| RailCom transmitter (`dcc_railcom_decoder.c`) | replies queued | process, cutout start | UART |

**What is hard here.** The handshakes between main loop and interrupt (a completion flag
that is read, then cleared, then followed by an idle check; a packet buffer stored by one
side and read by the other; an acknowledgement latched between a check and the action on
it); stopping and starting a track in the middle of a packet; one timer shared by two
tracks; four passes and two cursors that must not starve a locomotive; retries; and the
application calling back into the library from its callbacks.

**What makes each part correct.**

* Scheduler: one slot per (address, tag); every one-shot is sent its number of times and
  its slot freed; it never overwrites the encoder's packet and never waits for a
  completion that is not coming; no two packets in a row to one address 112-127 (S-9.2
  section C footnote 11); every refresh slot is sent within a bound.
* Encoder: every packet reported complete went out whole, once, with well formed bits, and
  its RailCom cutout begins on its last edge.
* Wiring: the timer runs exactly while a track needs it.
* Service core: every attempt is led in by its resets and every result follows its
  trailing resets; success only if the decoder acknowledged; every operation ends.
* Tasks: a result reaches the task that asked for it and no other; success reported is what
  the decoder holds; a bit is written without touching its neighbours; every task reports.
* RailCom: a datagram is tagged with the address of the packet before its cutout; outputs
  are on again after every sequence of begin, cancel and timer.
* Bit decoder: it receives every packet whole and once, and finds the packets again after a
  lost edge.
* Packet decoder: no packet in the queue is overwritten or handled out of order; the cached
  address is the one the CVs spell out; a locked decoder's CVs stay; an answer is sent for
  the packet it was prepared for.
* Fail-safe: it trips only after silence.

`PROJECT.json` lists the places where each of these could break ("hazards").

## 2. The modules

| Module | Models | Abstracts |
|---|---|---|
| `DccScheduler` | the scheduler, the application's calls and its hook | a packet is its first byte and repeat count; the encoder is a one-place buffer |
| `DccBitEncoder` | the encoder's operations, one action per branch of `tick_isr` | nothing of the control; the byte width is a constant |
| `DccBitDecoder` | the decoder's edge ISR, branch by branch | the time between edges is handed in |
| `DccWaveform` | encoder and bit decoder on one pair of rails, with cutouts, lost edges, silence | the main loop is any loader that keeps the scheduler's contract |
| `DccMainTrack` | scheduler, encoder, power switching and shared timer together | bytes have two bits in the runs |
| `DccServiceModeCommon` | the service core and the ACK sampler | the encoder is a buffer and an "on the wire" flag; a packet is "reset" or "command" |
| `DccServiceTrack` | the core with the application layer, and a decoder that draws any current | the primitive that begins an operation is any caller |
| `DccServiceTasks` | primitives, the five tasks, the dispatcher and the application's callbacks, with a decoder that understands them | the core is "one operation at a time, reported once"; the packets of an operation are its commands |
| `DccRailcom` | cutout sequencer, receiver and the bridge between them | a reply is its channel and the packet it answers; the lengths of the phases; whether bytes decode |
| `DccPacketDecoder` | what one packet does: lock, CV writes, address cache, service-mode gate, matching | a packet is its address, its instruction and its service-mode reading; speed and functions are one instruction |
| `DccDecoder` | the edge ISR's queue and RailCom answer, `DccConfig_run`, fail-safe, ACK pulse, application writes | the contents of an answer |
| `DccPacketQueue` | the abstract bounded queue | |

Three modules are specifications that others implement or rest on. `DccScheduler` is the main
track's: `DccMainTrack` instantiates it under a refinement mapping, next to `DccBitEncoder`,
and `DccWaveform` extends `DccBitEncoder`; so the scheduler's contract is assumed in one module
and shown in another. `DccPacketQueue` is the packet queue's, instantiated by `DccDecoder`.
`DccServiceTasks` rests on what `DccServiceTrack` shows of the core: an operation ends while
the signal is on, and is reported once. `MC*` modules give the constants of the runs,
`*_proofs` hold the theorems, one per module they speak of, and `DccServiceMemory_proofs` (what
the tasks know of the decoder's CVs).

**How actions correspond to code.** One action per handler, or per branch of it, except
that a handler is split where another actor can get in:

* `DccScheduler_run` in `DccScheduler`: `SendOneShot`, `SendRefresh` or `SendIdle` up to
  `load_packet`, then `Charge`; in between lies the application's `on_packet_sent` hook,
  which may insert (`HookInsert`) even into the slot being charged.
* `DccScheduler_run` in `DccMainTrack`: read the completion flag, clear it, ask whether the
  encoder is idle, store the packet, publish it, charge. A tick of the timer ISR may fall
  between any two. Steps that touch only the main loop's own data happen with the
  publication.
* `DccServiceModeCommon_run`: reading `ack_detected` (`SeeAck`, `SeeNoAck`) and acting on
  it are two steps, because the ISR's sampler may latch an acknowledgement in between.
* `DccRailcomCutout_cancel` (`Cancel`, `CancelStopsTimer`, `CancelRestores`) and the
  receiver's run (`RunRailcom`, `Drain`, `DrainEnds`, `ReportCh1`, `ReportCh2`) in
  `DccRailcom`: the one-shot timer and the UART may get in between.

* `DccConfig_run` of the decoder in `DccDecoder`: `HandlePacket`, `ReleaseSlot` (the head of
  the queue moves on only after the packet was handled), `QueueDrained`, `RunFailsafe`,
  `RunAckPulse`; and `DccRailcomDecoder_set_address` as its two stores, of the number with
  the write that causes it and of the type (`StoreType`), as the edge ISR reads both.
* `DccServiceTasks` runs in the main loop alone, one call inside another. `at` and `turn` say
  which callback it is in and for which task the dispatcher has got to; the application may
  call the library from the progress and completion callbacks.
* The tick of `DccWaveform` is the encoder's `Tick` and, on an edge, the decoder's ISR:
  `EdgeSeen`, `EdgeLost` or `NoEdge`.

In `DccRailcom` the scheduler and the encoder are reduced to what RailCom sees of them: a
packet is loaded only when the last one has ended (shown in `DccMainTrack`), and ends at any
time later on. `BridgeOff` flushes the UART and `Answer` puts a reply in only while the
receiver is enabled, as `dcc_config.h:107-116` asks of the application. The application reads and
cancels between two runs of the main loop.

Variables carry the names of the C fields. Added: in `DccScheduler`, `charging` and
`charging_one_shot` (the run's place), `buffered` and `track` (the encoder's buffer);
`copying` in the encoder; `at` (the run's place); in `DccServiceTrack`, the history
variables `acked`, `resets` and `commands`, which no guard reads; in `DccRailcom`, `at`, the
hardware (`timer`, `tristated`, `uart_rx`, `uart`, `heard`) and the history variables
`answering`, `unread`, `late` and `cancelled`; in `DccWaveform`, the rails (`since`, `dark`)
and the history `finished`, `cutout`, `wrapped`, `spoilt`; in `DccServiceTasks`, the decoder
(`memory`, `page`, `supports`) and the history `owner`, `report`, `disturbed` with the bounds'
counters `starts` and `lost`; in `DccDecoder`, `receiving`, `sized`, the run's place `at`,
`pushing`, and the history `heard`, `missed` and `received`. The C enum value
`DCC_BIT_STATE_XOR` is never entered and is not in `States`.

## 3. What the runs check

`tlc -config X.cfg M` in this directory; the longest two (`tasks`, `decoder`) take up to
four minutes.

| Run | Instance | Shows |
|---|---|---|
| `sched_safety` | 2 slots; refresh and one-shot commands for an ordinary and an aliasing address, an emergency stop that replaces a throttle, a one-shot with count 0; refresh commands and one-shots inserted from the hook, also into the slot being charged; removals, clears | `TypeOK`, `UniqueKeys`, `NoDeadOneShot`, `Handoff`, `AliasSpacing` |
| `sched_refresh` | 3 refresh slots, one aliasing, changed at any time; a ceiling of 3 cycles | `UnsentBound`, `EveryRefreshSent` |
| `sched_alias_starves` | 2 refresh slots of one address 112, changed at any time | violation of `EveryRefreshSent` |
| `waveform` | 8-bit bytes; packets with 16 and 17 preamble bits, the shortest a RailCom station may send, all zeros and nearly all ones; cutouts, one lost edge at a time, stops and starts | `TypeOK`, `FramesAreThePackets`, `CutoutOnLastEdge`, `HalvesMatch`, `LoadedIsSent` |
| `main_track` | 2 slots, 2-bit bytes, both tracks switched on and off | `TypeOK`, `ImplementsScheduler`, `NoTornRead`, `TimerFollowsTracks`, `PacketsKeepComing` |
| `timer_double_release` | the same, with an application that may switch off twice | violation of `OtherTrackKeepsRunning` |
| `service` | the code's packet counts; a verify and a write; one retry; spans of 2-3 samples with one dropout | `TypeOK`, `PacketHandshake`, `CommandAfterResets`, `ReportAfterResets`, `SuccessWasAcked`, `OperationCompletes` |
| `service_exit` | the same, leaving service mode at any time | violation of `OperationCompletes` |
| `tasks` | every call of every mode, two per behaviour, from main loop or callback; four kinds of decoder; one lost acknowledgement; power switched at any time | `TypeOK`, `OnlyOwnerActs`, `SuccessIsTrue`, `UndisturbedIsExact`, `OtherBitsKept`, `EveryTaskReports` |
| `railcom` | one locomotive and packets for none; a ring of 2; at most 3 replies per drain | `TypeOK`, `BridgeFollowsState`, `RepliesTagged`, `RepliesAnnounced`, `RingIsQueue`, `BridgeComesBack` |
| `decoder` | 4 packets of seven kinds (drive, damaged, CV write, consist, accessory bit write, reset, service write), three application writes, a queue with room for two | `CacheFollowsCvs`, `LockHolds`, `QueueIsFifo`, `RepliesAnswer`, `NoTripWhileHeard` |
| `decoder_railcom` | the same | violation of `ReplyAddressCurrent` |

**Bounds, and why they are enough.** Two slots are what combining, reuse and the
same-address guard need; overtaking between passes needs three (a slot that waits, one that
is overdue before it, one that keeps changing). Ceilings are 2 or 3 cycles instead of 120, so
that slots really become overdue. `UnsentBound` is claimed for no more slots than the
ceiling has cycles, as `dcc_defines.h:149-152` restricts it (with 3 slots and a ceiling of 2
it is false). `UnsentLimit` (where `unsent_cycles` saturates, 65535 in the code) lies above
the bound checked, so saturation cannot hide a violation. In `main_track` a byte has two
bits: what differs with the byte's length is only how often the data-bit action repeats, and
`waveform` uses whole bytes. `MaxRefCount` 2 is the number of tracks. The ACK sampler's limits
(2, 3 and 1 samples) leave room for a span too short, one of legal length with and without a
dropout, and one too long. One retry shows both the first attempt and a repeated one. Two
different addresses (a locomotive's and 0) are enough to tell a right tag from a wrong one,
and a ring of two wraps and overwrites. A cutout has at most two replies; the limit of 3 lies
between one cutout's and two cutouts' (the code's limit is two cutouts' bytes), so drains
that stop at it happen.

In `waveform` the decoder's preamble counter has 32 values instead of 256, so that it wraps
within an idle stretch the checker can afford, and its packet buffer 3 bytes instead of 6, so
that a lost edge can run two packets together past its end. The cutout hides seven ticks'
edges after the last one, 26 to 454 us at 58 us a tick (`PreambleMin` is 10). In `tasks` CVs
and addresses have two bits and the decoder has the CVs 1, 5 and 8: scans, bit-by-bit reads
and address ranges end as they do with eight; register 1, a register that is another CV, and
the factory reset are all there. Two starts let a task meet the one before it, from every
callback. In `decoder`, a queue of three slots (two packets) fills and wraps; two resets
instead of the code's count open the service gate; one tick is the unit of the time-out, of
the pulse and of the longest time told apart, so that each elapses or does not. The CVs are
those that the cache, the lock and the time-out read.

Deadlock is checked in every run but those of `MCDecoder`, where the track stops bringing
packets after `MaxPackets`.

**What is assumed of the surroundings.** `PacketEnds` waits until the cutout before is over and no cancel is under
way: a packet takes milliseconds, a cutout about 0.45 (`dcc_config.c:765-767`), a cancel a
few instructions. Nothing is assumed of how fast the main loop is; `RepliesTagged` says what
holds only if it keeps up. `DccWaveform` starts the encoder only when it is stopped and the
rails have been silent for a decoder's time-out (10 ms): a `power_on` of a running encoder
begins a packet anew in the middle of another, and is left out there. `DccServiceTasks`
assumes that commands are heard and only acknowledgements are lost; that a decoder with
registers honours the page register (the library's own does not,
`DeveloperGuide_Decoder.md:281`), and one that knows only the address packet hears register 1
with page 1; and that all primitives are compiled in and decoders are mobile ones. Every
call may come from every callback. `DccDecoder` assumes that the application can read every CV
it lists, and that elapsed times stay below the cycle of the 32-bit microsecond clock.

**Fairness.** `WF(Run)`, `WF(MainLoop)`: the documentation and every example call `DccConfig_run()` for ever
from the main loop, and a run never blocks. `WF(PacketComplete)`, `WF(TimerIsr)`,
`WF(Transmit)`, `WF(OneShotIsr)`: a hardware timer fires for as long as it is started. In
`tasks`, an operation begun ends while the signal is on, which is what `OperationCompletes`
shows of the core, and the dispatcher is a sequence of calls that return. No fairness is assumed
of the application: it may stop, keep inserting, or switch the track for ever. That is why
`PacketsKeepComing` allows for a track that is off again and again, `LoadedIsSent` for an encoder that is
stopped or restarted, and why `EveryRefreshSent` allows for a slot that is removed again
and again.

**Disagreements between code and comments** (runs that expect a violation; quotes and lines
in `PROJECT.json`, "findings"):

1. `sched_alias_starves`: the spacer packet takes the turn of the slot it delays, and
   `refresh_last_was_overdue` then counts an overdue slot as sent. With two refresh slots of one
   locomotive at a short address 112-127 (speed, a function group) and an application that
   keeps changing the speed, speed packets and spacers alternate: the function group is chosen
   when overdue, replaced by the spacer, and the burst the change has renewed goes next. As
   long as the changes go on it is never sent, which `dcc_defines.h:147-149` rules out. Once
   they stop, the burst runs out and it is sent.
2. `timer_double_release`: a second `power_off` of one track takes the other's timer reference.
3. `service_exit`: leaving service mode during an operation is ignored by the core but not
   by the rest, and the operation is never reported.
4. `decoder_railcom`: a locomotive decoder turned into an accessory decoder over the track
   keeps its old address in the RailCom transmitter, because the refresh of the cache returns
   before `on_address_changed` (`dcc_packet_decoder.c:323`).

Observed while modelling, and not the subject of a run:

* Scheduler: a refresh slot may stay unsent for nearly two cycles per other slot beyond the
  ceiling (`UnsentBound`), where `dcc_defines.h:129-130` counts one. One-shots go before
  refresh packets by design, so an application that keeps sending them holds back every
  locomotive (`dcc_scheduler.c:599`). A hook that re-inserts the command just sent has its new
  repeat count charged for the old packet (`:620-632`). The comment on `refresh_index`
  (`dcc_scheduler.h:94`) is true only of the flat ring.
* Encoder and bit decoder: `start` resets neither the tick counter nor the current bit, so the
  first bit after it may be odd (`dcc_bit_encoder.c:126`). A packet with `preamble_bits` 0
  sends 256 (`:384`). The decoder's preamble counter is not saturated
  (`dcc_bit_decoder.c:118`): a packet that starts just after the counter's wrap is
  not received. `CutoutOnLastEdge` says so by its exemption; with a saturating counter it holds
  without. A lost edge costs at most two packets.
* Service core: an acknowledgement latched between the check and a retry or failure is lost
  (`dcc_service_mode_common.c:333`, `:384`). `ack_window_open` survives into a retry (`:490`),
  whose first commands are therefore not blanked as `dcc_service_mode_common.h:112-114` has it.
* Tasks: that only the task in mid-operation acts on a result, "so at most one task runs"
  (`dcc_config.c:943-946`), is not true of a task started in a callback and dispatched after the
  one that calls back. It is given the result that is being passed on, asks for its next
  primitive while its own operation is under way, is refused and ends as busy, or takes the
  result for its own success. Its operation goes on without it: a write reaches the decoder, no
  other task can start before it ends, and its result is dropped. `OnlyOwnerActs` names this as
  the one exception, and `SuccessIsTrue` and `UndisturbedIsExact` speak of tasks that end on a
  result of their own. One acknowledgement lost in detection's direct
  read hides the modes probed after it. A paged access follows a page write that was not
  acknowledged. Address mode's bit write that leaves address 0 is refused as busy
  (`dcc_service_mode_task_address.c:127`).
* RailCom: a cutout that begins before the main loop has drained the one before takes over
  its flag and tag (`dcc_railcom_command_station.c:255`). A cutout in flight does not finish on
  its old timing, as `dcc_config.c:1510-1512` has it: each phase reads its own field when it
  is entered (the durations are left out of `DccRailcom`).
* Decoder: a short-address packet is compared with the decoder's number whatever kind of
  address that is (`dcc_packet_decoder.c:1693`). Writing CV 8 other than 8 is forwarded to the
  application, and register 5 is CV 5 and the page register CV 6
  (`DeveloperGuide_Decoder.md:271`, `:281`). After resets the service gate takes packets
  to short addresses 112-127 as instructions (`:1651-1654`). Accessory and service-mode packets do
  not re-arm the fail-safe. `set_address` is two stores, and the edge ISR may read between them
  (`dcc_railcom_decoder.c:104-109`).

## 4. What is proved

`tlapm M_proofs.tla` checks every obligation. Nothing is assumed but the constants' ranges
(the `ASSUME`s of the modules, which TLC evaluates in the runs) and, where a theorem says so, the
hypotheses named below.

**Scheduler** (`DccScheduler_proofs`), for any number of slots, commands and pacing:
`SchedulerTypes`, `SchedulerUniqueKeys`, `SchedulerNoDeadOneShot`, `SchedulerHandoff`,
`SchedulerAliasSpacing`. Every step either *thins* the pool (each active slot was active
before with the same key and kind: ageing, charging, removing) or *fills* one slot with a
command whose key no other active slot holds; `StepCases` shows this once, and uniqueness
and live one-shots follow from it. `Handoff` is inductive by itself. `AliasSpacing` needs
the invariant that `last_addr_byte` is the first byte of what is on the track, since the
guard reads the former and the property speaks of the latter.

**Starvation bound** (`DccScheduler_proofs`): `SchedulerUnsentBound` proves `UnsentBound` for any
number of slots from 2 up to the ceiling and any ceiling of at least 3 (`Paced`), with the cold
tier on, when the application uses refresh commands only and no two of one address 112-127
(`RefreshOnly`; without it the run `sched_alias_starves` shows starvation). The measure is a
slot's age plus two cycles for every slot the cold cursor meets before it: an overdue send
brings the slot one turn nearer and may be followed by one prompt send, which
`refresh_last_was_overdue` pays for. The bound follows if no slot is ever overdue with a full
round before it. That could only be the slot just behind the cold cursor; it has just been
sent, or it is one of two neighbours of the same age, which only slots waiting for their first
prompt send can be. Inserting, changing and removing slots between those sends is what makes
this hard: two simpler forms of the invariant hold on every run of commands that stay, and
fail (TLC found both) when a command of an aliasing address is removed and inserted again.

**Waveform** (`DccWaveform_proofs`), both ends of the rails: `WaveformTypes` for everything,
and `FramesAreWhole`, `PacketsEndTogether` and `HalvesArePaired` for any packets, cutout and
counter size of a RailCom installation (`Wired`): eight-bit bytes, both ends built for RailCom,
packets of at least two bytes that fit the decoder's buffer, a decoder that counts at least ten
preamble bits, and preambles long enough: of their edges the cutout leaves what the decoder
must count (`2 * preamble_bits + 1 >= 2 * PreambleMin + CutoutTicks`, which 16 bits satisfy for
any cutout up to 13 ticks, 750 us; the constants of the run `waveform` satisfy it too). The
invariant `WaveInv` follows the decoder through the encoder's ticks:

* In a packet (`Frame`) the encoder's position says which bytes and bits the decoder has
  (`Position`), and which half waits: a bit's first edge completes the bit before it, so at a
  new bit the decoder is one bit behind (`LastHalf`), and a packet is received with the edge
  that begins the cutout (`Ending`).
* Before one, the edges sent since the cutout began (`Lead`) are at most those the decoder has
  counted and those hidden from it (`Seen`): so when the first start bit comes it has counted
  enough, whatever tick it began at (`Hidden` in the cutout, `Visible` after it), unless its
  counter has wrapped. After `start` the encoder may send half a zero first (`OddBit`).
* A decoder that misses a packet, after a wrap or a lost edge, goes on missing it until its
  end: eight data bits and the stop bit are no preamble (`Missed`), which is where ten bits
  rather than nine matter. While two packets may be lost (`Owed = 2`) nothing is claimed of
  the decoder; the next cutout's edge-free time brings it back to `Hidden`, and the packet
  after it may be lost because its preamble was miscounted, but it is then missed, or
  received, as a whole.

The proof attempt showed that `HalvesMatch` as first stated, for every long half, is false: a
decoder that hunts for a preamble meets half a zero when a packet it missed ends in one and the
cutout hides the rest. TLC confirms it with the second packet of the run (`63, 255, 192`), which
was added for that. It is harmless, as the count of preamble bits is then too low for a start
bit, and the property now says so.

**Main track** (`DccMainTrack_proofs`), with the encoder and the interleaving of the ISR:
`MainTrackHandoff` proves the inductive invariant `HandoffInv`: at each point of the run,
what the flag, the buffer and the encoder may hold. It is needed because neither side alone knows:
the run clears the flag before it asks whether the encoder is idle, and only the invariant
says that the answer is then always yes. From it follow `MainTrackNoTornRead` and
`MainTrackImplementsScheduler`: every step maps to a step of `DccScheduler` or a stutter. In
the mapping a flag that was read and cleared still counts as set until the packet is
published. `MainTrackTimer` proves `TimerFollowsTracks` from `Balanced` (the application
switches on only what is off, and off only what is on) and `MaxRefCount >= 2`, by the invariant that the reference
count is the number of tracks on (`CountInv`); without `Balanced` it is false (finding 2).
Through the refinement the scheduler's theorems hold of the interleaved run:
`MainTrackUniqueKeys`, `MainTrackNoDeadOneShot`, `MainTrackAliasSpacing`, `MainTrackUnsentBound`.
`MainTrackTypes` adds the encoder's own invariant (its bit index is below the byte's width, its
packet one that was loaded) to `SchedulerTypes`.

**Service track** (`DccServiceTrack_proofs`), for any packet counts, sampling constants and
retries, whether or not the application leaves in the middle: `ServicePacketHandshake` (from
`HandshakeInv`: what the run's two flags and the encoder agree on),
`ServiceCommandAfterResets` and `ServiceReportAfterResets` (with `PhaseInv`: a phase's packet
count never exceeds what the history says went out), `ServiceSuccessWasAcked` (`AckInv`: while
the run looks for an acknowledgement, the one latched is of this attempt, and `LatchedSpan`: an
over-long span is not latched), `ServiceTypes`.

**RailCom** (`DccRailcom_proofs`), for any addresses, ring depth and read limit:
`RailcomTypes`; `RailcomBridge` (with `BridgeInv`: a cutout is armed only while the sequence is
idle, and a cancel past its first step has stopped the timer); `RailcomRepliesTagged` (with
`TagInv`, which follows a reply from the UART to the drain's buffers: before the cutout
completes it is from the packet just ended, afterwards from the one `cutout_address` names);
`RailcomRepliesAnnounced` (with `AnnounceInv`: until the next cutout begins a drain meets at most two
replies, so the read limit cannot strand one); `RailcomRingIsQueue` (with `RingInv`, that the
head is the tail advanced by the count, and four lemmas about positions in a ring).

**Tasks** (`DccServiceTasks_proofs`), for any CVs, decoders, numbers of calls and lost
acknowledgements, and whatever is called from the callbacks: `ResultsReachTheirTask` proves
`OnlyOwnerActs`. The invariant says that a task still to be given the result is idle, is the
one that asked for it, or waits for the operation in progress, which a callback has begun; and
that between results no task is busy but the one that waits.

**Tasks and the decoder** (`DccServiceMemory_proofs`), with the same generality: `SuccessfulReportsAreTrue`, `UndisturbedTasksAreExact`,
`ProgrammingKeepsOtherBits`, `TaskTypes`. They rest on one invariant, `TaskInv`:

* The operation in progress is what its task asked for (`Operation`), whether the task still
  waits for it or has ended on another's result: the packets left are those of the state it was
  begun in, or the access alone with the page already selected. So an answer is an answer about
  the task's CV (`CommandServes`), and a result that a task is about to act on as its own says
  what the decoder holds (`Results`), even if the application acts in the callback before.
* What is written back is what was read, but for one bit (`ReadBack`): between the read and the
  write nobody else's operation can run, since a refused operation ends the task.
* For exactness, while the task is undisturbed: what its state implies about the CV (`Quiet`,
  with `Knows`: the bits read so far are the low bits of the CV, a scan has passed no value that
  would match, the modes found are those of the modes tried), and that a missing answer is a
  denial (`Denials`).

The arithmetic of bits and bytes has to be proved as well (`WithBitSame`, `WithBitAbove`,
`WithBitBelow`, `LowBits`): the library has no facts about powers of two, so 2^n is introduced as
the number of subsets of n things. The proof attempt found one error of the model: CVs 1021-1024
lie on page 256, which is sent as 0, since the page is one byte (`dcc_service_mode_paged.c:235`).

**Decoder** (`DccDecoder_proofs`), for any queue depth of at least two, any packets, CVs and
times: `DecoderTypes`; `DecoderQueue`, that the ring implements `DccPacketQueue` (with
`QueueInv`, that the slots between head and tail hold packets and the one being handled is among
them, and lemmas about positions in a ring); `DecoderCache` (`CvInv`: a write outside the
watched CVs leaves what `Resolve` reads; for an accessory decoder's shorter list that rests on
the cache saying truly that it is one, so the invariant carries itself);
`DecoderLock`; `DecoderRepliesAnswer` (`ArmedInv`: armed and coming in are the same packet);
`DecoderFailsafe` (`FailsafeInv`: if less time has passed since a packet was heard than since
one was handled, then a packet that will re-arm still waits). Assumed are that values are bytes,
that the decoder has the CVs its cache is made from, and that only short-address packets have a
service-mode reading.

**Only model-checked:** liveness (`EveryRefreshSent`, `LoadedIsSent`, `PacketsKeepComing`,
`OperationCompletes`, `EveryTaskReports`, `BridgeComesBack`), which is beyond the prover. Every
invariant and action property of the passing runs is a theorem.

## 5. What is not modelled, and the plan

Left, in order:

1. **Proofs**: that `DccServiceTrack` implements the core `DccServiceTasks` assumes; the waveform
   without RailCom, where a packet's end bit counts for the next preamble.
2. **Pure algorithms**: the ACK sampler against the definition of a valid span, 4-of-8 coding
   against its decoder, packet builders against the decoder's parsing.
3. **Decoder**: CVs 257-512, the function masks of a consist, the address alternation of RailCom
   answers.

Not modelled:

* RailCom 4-of-8 coding, packet builders and the decoder's RailCom application API: they hold
  no state, and no property here depends on the bytes they produce.
* Speed, direction and function decoding: the packet decoder passes them to the application
  and keeps nothing.
* `DccConfig_initialize` called a second time, and `DccConfig_set_railcom_cutout_timing`: the
  durations of the phases are data here.
* The platform drivers and example applications (`src/applications`, with the vendor's driver
  headers, by far the most lines of the repository): I/O behind the library's callbacks, and
  code that is not the library's.
* `dcc_application_main_track.c` and `dcc_application_service_track.c`, which the
  command-station layers supersede; the tests.
