-------------------------- MODULE DccServiceTasks ---------------------------
(***************************************************************************)
(* Programming a decoder on the service track: the five task orchestrators *)
(* (src/src/dcc/dcc_service_mode_task_*.c), the primitives they call       *)
(* (dcc_service_mode_{direct,paged,register,address}.c) and the dispatcher *)
(* of dcc_config.c, which hands every result to every task in turn.        *)
(*                                                                         *)
(* The core below them is reduced to what DccServiceTrack shows of it: it  *)
(* takes one operation at a time and reports it once.  An operation here   *)
(* is a primitive's, one packet or two: a page first, then the access.     *)
(* Everything runs in the main loop, one call inside another; at and turn  *)
(* say where it is, and the application may call the library from its      *)
(* progress and completion callbacks.                                      *)
(***************************************************************************)
EXTENDS Integers, Sequences, FiniteSets

CONSTANTS
  Bits,             \* bits of a CV, 8
  AddressBits,      \* bits of a short address, 7
  CVs,              \* the CVs the decoder has
  FactoryValue,     \* written to CV 8 it restores the factory defaults, 8
  FactoryDefaults,  \* the CVs after a factory reset
  Memories,         \* the CVs a decoder may hold at first
  Values,           \* the values the application writes or verifies
  Decoders,         \* what decoders understand: sets of command families
  MaxStarts,        \* bound: tasks the application starts
  MaxLost           \* bound: acknowledgements lost while a task runs

ByteMax    == 2^Bits - 1
Byte       == 0..ByteMax
Bit        == {0, 1}
AddressMax == 2^AddressBits - 1

Families == {"direct", "registers", "address"}
Tasks    == {"direct", "paged", "register", "address", "detect"}

\* A page number is one byte: CVs 1021 to 1024 are on page 256, sent as 0.
Pages == 256

ASSUME BoundsAssumption == MaxStarts \in Nat /\ MaxLost \in Nat
ASSUME BitsAssumption ==
  Bits \in Nat \ {0, 1} /\ AddressBits \in 1..Bits
ASSUME DecoderAssumption ==
  /\ {1, 8} \subseteq CVs /\ CVs \subseteq 1..1024
  /\ Values \subseteq Byte /\ FactoryValue \in Byte
  /\ FactoryDefaults \in [CVs -> Byte]
  /\ Memories \subseteq [CVs -> Byte] /\ Decoders \subseteq SUBSET Families

VARIABLES
  in_service_mode,  \* the core's flag
  running,          \* track power, timer and encoder are on
  op,               \* the operation in progress: whose, what for, packets left
  task,             \* the context of each task
  at, turn, result, \* what the main loop is doing, for the task whose turn it is
  memory, page,     \* the decoder's CVs and its page register
  supports,         \* the command families it understands
  owner,            \* whose operation the result is
  report,           \* in a completion callback, what it is told and of what
  disturbed,        \* something has come between the task and its results
  starts, lost

core   == <<in_service_mode, running>>
decoder == <<memory, page, supports>>
call   == <<at, turn, result, owner, report>>
bounds == <<disturbed, starts, lost>>
vars   == <<core, op, task, call, decoder, bounds>>

Order == <<"direct", "paged", "register", "address", "detect">>
Position(t) == CHOOSE i \in DOMAIN Order : Order[i] = t

Idle == [state |-> "IDLE", cv |-> 0, register |-> 0, bit |-> 0, bit_value |-> 0,
         value |-> 0, scan |-> 0, any_ack |-> FALSE, modes |-> {},
         value_known |-> FALSE]
NoOp == [owner |-> "none", context |-> Idle, packets |-> <<>>]
NoReport == [task |-> "none", owner |-> "none", context |-> Idle,
             result |-> "NO_ACK", value |-> 0, disturbed |-> FALSE]

Init ==
  /\ in_service_mode = FALSE /\ running = FALSE
  /\ op = NoOp
  /\ task = [t \in Tasks |-> Idle]
  /\ at = "main" /\ turn = 1 /\ result = "NO_ACK" /\ owner = "none"
  /\ report = NoReport
  /\ memory \in Memories /\ page = 1 /\ supports \in Decoders
  /\ disturbed = FALSE /\ starts = 0 /\ lost = 0
-----------------------------------------------------------------------------
(***************************************************************************)
(* Packets, and the decoder that hears them: external.                     *)
(***************************************************************************)
BitOf(v, b)      == (v \div 2^b) % 2
WithBit(v, b, x) == v + (x - BitOf(v, b)) * 2^b

Packet(kind, target, bit, value) ==
  [kind |-> kind, target |-> target, bit |-> bit, value |-> value]

PageRegister == 6

\* The CV behind a register: 1 to 4 lie on the page that is set, 0 the last.
RegisterCv(r) == CASE r \in 1..4 -> 4 * ((page - 1) % Pages) + r
                   [] r = 5      -> 29
                   [] OTHER      -> r

Target(p) == IF p.kind \in {"register_write", "register_verify"}
             THEN RegisterCv(p.target) ELSE p.target

IsPageWrite(p) == p.kind = "register_write" /\ p.target = PageRegister

Understands(p) ==
  CASE p.kind \in {"write_byte", "verify_byte", "write_bit", "verify_bit"} ->
         "direct" \in supports
    [] IsPageWrite(p) -> supports \cap {"registers", "address"} # {}
    [] OTHER -> \/ "registers" \in supports
                \/ "address" \in supports /\ Target(p) = 1

Acknowledges(p) ==
  /\ Understands(p)
  /\ IsPageWrite(p) \/ Target(p) \in CVs
  /\ CASE p.kind = "verify_bit" -> BitOf(memory[Target(p)], p.bit) = p.value
       [] p.kind \in {"verify_byte", "register_verify"} ->
            memory[Target(p)] = p.value
       [] OTHER -> TRUE

Written(p) == IF p.kind = "write_bit"
              THEN WithBit(memory[Target(p)], p.bit, p.value) ELSE p.value

Writes(p) == /\ p.kind \in {"write_byte", "write_bit", "register_write"}
             /\ Acknowledges(p)

DecoderHears(p) ==
  /\ page' = IF IsPageWrite(p) /\ Writes(p) THEN p.value ELSE page
  /\ memory' = IF IsPageWrite(p) \/ ~Writes(p) THEN memory
               ELSE IF Target(p) = 8 /\ Written(p) = FactoryValue
               THEN FactoryDefaults
               ELSE [memory EXCEPT ![Target(p)] = Written(p)]
  /\ UNCHANGED supports
-----------------------------------------------------------------------------
(***************************************************************************)
(* The primitives: the packets of each, in order.  One that its argument   *)
(* rules out sends none.                                                   *)
(***************************************************************************)
Refused == <<>>

DirectWriteByte(cv, v)     == <<Packet("write_byte", cv, 0, v)>>
DirectVerifyByte(cv, v)    == <<Packet("verify_byte", cv, 0, v)>>
DirectWriteBit(cv, b, x)   == <<Packet("write_bit", cv, b, x)>>
DirectVerifyBit(cv, b, x)  == <<Packet("verify_bit", cv, b, x)>>

RegisterPacket(kind, r, v) == Packet(kind, r, 0, v)

SelectPage(p) == RegisterPacket("register_write", PageRegister, p)

PageOf(cv)         == (((cv - 1) \div 4) + 1) % Pages
DataRegisterOf(cv) == ((cv - 1) % 4) + 1

PagedAccess(kind, cv, v) ==
  <<SelectPage(PageOf(cv)), RegisterPacket(kind, DataRegisterOf(cv), v)>>

PagedWrite(cv, v)  == PagedAccess("register_write", cv, v)
PagedVerify(cv, v) == PagedAccess("register_verify", cv, v)

\* Mutant: the page is left as it is.
RegisterAccess_NoPreset(kind, r, v) == <<RegisterPacket(kind, r, v)>>

\* Page 1 is preset before the register is used.
RegisterAccess(kind, r, v) ==
  IF r \in 1..8 THEN <<SelectPage(1), RegisterPacket(kind, r, v)>> ELSE Refused

RegisterWrite(r, v)  == RegisterAccess("register_write", r, v)
RegisterVerify(r, v) == RegisterAccess("register_verify", r, v)

AddressAccess(kind, a) ==
  IF a \in 1..AddressMax THEN <<SelectPage(1), RegisterPacket(kind, 1, a)>>
  ELSE Refused

AddressWrite(a)  == AddressAccess("register_write", a)
AddressVerify(a) == AddressAccess("register_verify", a)

\* begin_operation: the core must be idle and in service mode.  A primitive
\* is idle whenever the core is, so its own state adds nothing to the guard.
Accepts(packets) == packets # Refused /\ in_service_mode /\ op = NoOp

Begin(t, c, packets) ==
  op' = [owner |-> t, context |-> c, packets |-> packets]
-----------------------------------------------------------------------------
(***************************************************************************)
(* What a task does when the result of its primitive arrives.              *)
(***************************************************************************)
Acked == result = "SUCCESS"

\* The dispatcher goes on to the next task from i on that does not ignore the
\* result, being idle; after the last the main loop goes on.
DispatchFrom(i) ==
  LET later == {j \in i..Len(Order) : task'[Order[j]].state # "IDLE"}
  IN \/ /\ later = {}
        /\ at' = "main" /\ turn' = 1 /\ result' = "NO_ACK" /\ owner' = "none"
     \/ /\ at' = "called"
        /\ \E j \in later : (\A k \in later : j <= k) /\ turn' = j

NextTurn == /\ DispatchFrom(turn + 1)
            /\ at' = "called" => UNCHANGED <<result, owner>>

Complete(t, c, res, value) ==
  /\ task' = [task EXCEPT ![t] = Idle]
  /\ report' = [task |-> t, owner |-> owner, context |-> c, result |-> res,
                value |-> value, disturbed |-> disturbed]
  /\ at' = "complete"
  /\ UNCHANGED <<op, turn, result, owner>>

\* Mutant: a refused primitive leaves the task where it is.
Continue_StaysBusy(t, context, packets) ==
  IF Accepts(packets)
  THEN /\ task' = [task EXCEPT ![t] = context]
       /\ Begin(t, context, packets)
       /\ NextTurn
       /\ UNCHANGED report
  ELSE /\ task' = [task EXCEPT ![t] = context]
       /\ NextTurn
       /\ UNCHANGED <<op, report>>

\* The next primitive; if it is refused the task is over.
Continue(t, context, packets) ==
  IF Accepts(packets)
  THEN /\ task' = [task EXCEPT ![t] = context]
       /\ Begin(t, context, packets)
       /\ NextTurn
       /\ UNCHANGED report
  ELSE Complete(t, context, "BUSY", 0)

Go(context, state) == [context EXCEPT !.state = state]

\* The last step of every write: the value is read back.
Verified(t, c, value) ==
  Complete(t, c, IF Acked THEN "SUCCESS" ELSE "VERIFY_FAIL", value)

\* Direct mode.
AdvanceReadCv(c) ==
  LET found == [c EXCEPT !.value = IF Acked THEN @ + 2^c.bit ELSE @,
                         !.any_ack = @ \/ Acked, !.bit = @ + 1]
  IN IF found.bit = Bits
     THEN Continue("direct", Go(found, "READ_CV_VERIFY"),
                   DirectVerifyByte(c.cv, found.value))
     ELSE Continue("direct", found, DirectVerifyBit(c.cv, found.bit, 1))

AdvanceReadCvVerify(c) ==
  CASE Acked              -> Complete("direct", c, "SUCCESS", c.value)
    [] ~Acked /\ c.any_ack -> Complete("direct", c, "VERIFY_FAIL", c.value)
    [] OTHER              -> Complete("direct", c, "NO_ACK", 0)

\* Mutant: a missing acknowledgement is taken for a zero.
AdvanceReadBit_NoConfirm(c) ==
  Complete("direct", c, "SUCCESS", IF Acked THEN 1 ELSE 0)

AdvanceReadBit(c) ==
  IF Acked THEN Complete("direct", c, "SUCCESS", 1)
  ELSE Continue("direct", Go(c, "READ_BIT_CONFIRM"),
                DirectVerifyBit(c.cv, c.bit, 0))

AdvanceReadBitConfirm(c) ==
  Complete("direct", c, IF Acked THEN "SUCCESS" ELSE "NO_ACK", 0)

DirectPrimitiveComplete(c) ==
  CASE c.state = "READ_CV"          -> AdvanceReadCv(c)
    [] c.state = "READ_CV_VERIFY"   -> AdvanceReadCvVerify(c)
    [] c.state = "WRITE_CV"         ->
         Continue("direct", Go(c, "WRITE_CV_VERIFY"),
                  DirectVerifyByte(c.cv, c.value))
    [] c.state = "WRITE_CV_VERIFY"  -> Verified("direct", c, c.value)
    [] c.state = "READ_BIT"         -> AdvanceReadBit(c)
    [] c.state = "READ_BIT_CONFIRM" -> AdvanceReadBitConfirm(c)
    [] c.state = "WRITE_BIT"        ->
         Continue("direct", Go(c, "WRITE_BIT_VERIFY"),
                  DirectVerifyBit(c.cv, c.bit, c.bit_value))
    [] c.state = "WRITE_BIT_VERIFY" -> Verified("direct", c, c.bit_value)

\* Paged, register and address mode scan for a value and write back whole
\* bytes; they differ in their primitives and in the values they scan.
WriteOf(t, c, v) == CASE t = "paged"    -> PagedWrite(c.cv, v)
                      [] t = "register" -> RegisterWrite(c.register, v)
                      [] t = "address"  -> AddressWrite(v)

VerifyOf(t, c, v) == CASE t = "paged"    -> PagedVerify(c.cv, v)
                       [] t = "register" -> RegisterVerify(c.register, v)
                       [] t = "address"  -> AddressVerify(v)

ScanFirst(t) == IF t = "address" THEN 1 ELSE 0
ScanLast(t)  == IF t = "address" THEN AddressMax ELSE ByteMax

BeginWriteBit(t, c) ==
  LET modified == WithBit(c.scan, c.bit, c.bit_value)
  IN Continue(t, [c EXCEPT !.state = "WRITE_BIT_WRITE", !.value = modified],
              WriteOf(t, c, modified))

ReportFoundValue(t, c) ==
  Complete(t, c, "SUCCESS", IF c.state = "READ_BIT_READ_BYTE"
                         THEN BitOf(c.scan, c.bit) ELSE c.scan)

\* Mutant: the scan runs one value too far.
AdvanceScan_OffByOne(t, c, found) ==
  CASE Acked -> found
    [] ~Acked /\ c.scan > ScanLast(t) -> Complete(t, c, "ERROR", 0)
    [] OTHER -> Continue(t, [c EXCEPT !.scan = @ + 1], VerifyOf(t, c, c.scan + 1))

AdvanceScan(t, c, found) ==
  CASE Acked -> found
    [] ~Acked /\ c.scan = ScanLast(t) -> Complete(t, c, "ERROR", 0)
    [] OTHER -> Continue(t, [c EXCEPT !.scan = @ + 1], VerifyOf(t, c, c.scan + 1))

PagedPrimitiveComplete(t, c) ==
  CASE c.state \in {"READ_CV", "READ_BIT_READ_BYTE"} ->
         AdvanceScan(t, c, ReportFoundValue(t, c))
    [] c.state = "WRITE_BIT_READ_BYTE" -> AdvanceScan(t, c, BeginWriteBit(t, c))
    [] c.state = "WRITE_CV" ->
         Continue(t, Go(c, "WRITE_CV_VERIFY"), VerifyOf(t, c, c.value))
    [] c.state = "WRITE_BIT_WRITE" ->
         Continue(t, Go(c, "WRITE_BIT_VERIFY"), VerifyOf(t, c, c.value))
    [] c.state = "WRITE_CV_VERIFY"  -> Verified(t, c, c.value)
    [] c.state = "WRITE_BIT_VERIFY" -> Verified(t, c, c.bit_value)

RegisterPrimitiveComplete(c) ==
  CASE c.state = "FACTORY_RESET" ->
         Complete("register", c, IF Acked THEN "SUCCESS" ELSE "NO_ACK", 0)
    [] c.state = "VERIFY_VALUE" -> Verified("register", c, c.value)
    [] OTHER -> PagedPrimitiveComplete("register", c)

AddressPrimitiveComplete(c) ==
  IF c.state = "VERIFY_VALUE" THEN Verified("address", c, c.value)
  ELSE PagedPrimitiveComplete("address", c)
-----------------------------------------------------------------------------
(***************************************************************************)
(* Mode detection: direct mode on CV 8, bit by bit, then the value it read *)
(* there, or a scan for it, in paged and register mode, then a scan for an *)
(* address.                                                                *)
(***************************************************************************)
DetectCv       == 8
DetectRegister == 8
DetectBit      == Bits - 1

Finish(c) ==
  Complete("detect", c, IF c.modes = {} THEN "NO_ACK" ELSE "SUCCESS", 0)

BeginDirectRead(c) ==
  Continue("detect", [c EXCEPT !.state = "READ_DIRECT", !.bit = DetectBit - 1],
           DirectVerifyBit(DetectCv, DetectBit - 1, 1))

\* Mutant: the scan leaves out zero.
BeginPaged_FromOne(c) ==
  IF c.value_known
  THEN Continue("detect", Go(c, "PROBE_PAGED_VERIFY"),
                PagedVerify(DetectCv, c.value))
  ELSE Continue("detect", [c EXCEPT !.state = "PROBE_PAGED_SCAN", !.scan = 1],
                PagedVerify(DetectCv, 1))

BeginPaged(c) ==
  IF c.value_known
  THEN Continue("detect", Go(c, "PROBE_PAGED_VERIFY"),
                PagedVerify(DetectCv, c.value))
  ELSE Continue("detect", [c EXCEPT !.state = "PROBE_PAGED_SCAN", !.scan = 0],
                PagedVerify(DetectCv, 0))

BeginRegister(c) ==
  IF c.value_known
  THEN Continue("detect", Go(c, "PROBE_REGISTER_VERIFY"),
                RegisterVerify(DetectRegister, c.value))
  ELSE Continue("detect", [c EXCEPT !.state = "PROBE_REGISTER_SCAN", !.scan = 0],
                RegisterVerify(DetectRegister, 0))

BeginAddress(c) ==
  Continue("detect", [c EXCEPT !.state = "PROBE_ADDRESS_SCAN", !.scan = 1],
           AddressVerify(1))

\* The context with a mode found, and perhaps the value of CV 8 with it.
Found(c, mode)           == [c EXCEPT !.modes = @ \cup {mode}]
FoundByScan(c, mode)     == [Found(c, mode) EXCEPT !.value = c.scan,
                                                   !.value_known = TRUE]
FoundDirect(c, value)    == [Found(c, "direct") EXCEPT !.value = value]

ProbeDirect0(c) ==
  IF Acked THEN BeginDirectRead(FoundDirect(c, 0))
  ELSE Continue("detect", Go(c, "PROBE_DIRECT_1"),
                DirectVerifyBit(DetectCv, DetectBit, 1))

ProbeDirect1(c) ==
  IF Acked THEN BeginDirectRead(FoundDirect(c, 2^DetectBit)) ELSE BeginPaged(c)

ReadDirect(c) ==
  LET read == [c EXCEPT !.value = IF Acked THEN @ + 2^c.bit ELSE @]
  IN IF c.bit = 0 THEN BeginPaged([read EXCEPT !.value_known = TRUE])
     ELSE Continue("detect", [read EXCEPT !.bit = @ - 1],
                   DirectVerifyBit(DetectCv, c.bit - 1, 1))

ProbePagedScan(c) ==
  CASE Acked -> BeginRegister(FoundByScan(c, "paged"))
    [] ~Acked /\ c.scan = ByteMax -> BeginRegister(c)
    [] OTHER -> Continue("detect", [c EXCEPT !.scan = @ + 1],
                         PagedVerify(DetectCv, c.scan + 1))

ProbeRegisterScan(c) ==
  CASE Acked -> BeginAddress(FoundByScan(c, "register"))
    [] ~Acked /\ c.scan = ByteMax -> BeginAddress(c)
    [] OTHER -> Continue("detect", [c EXCEPT !.scan = @ + 1],
                         RegisterVerify(DetectRegister, c.scan + 1))

ProbeAddressScan(c) ==
  CASE Acked -> Finish(Found(c, "address"))
    [] ~Acked /\ c.scan = AddressMax -> Finish(c)
    [] OTHER -> Continue("detect", [c EXCEPT !.scan = @ + 1],
                         AddressVerify(c.scan + 1))

DetectPrimitiveComplete(c) ==
  CASE c.state = "PROBE_DIRECT_0" -> ProbeDirect0(c)
    [] c.state = "PROBE_DIRECT_1" -> ProbeDirect1(c)
    [] c.state = "READ_DIRECT"    -> ReadDirect(c)
    [] c.state = "PROBE_PAGED_VERIFY" ->
         BeginRegister(IF Acked THEN Found(c, "paged") ELSE c)
    [] c.state = "PROBE_PAGED_SCAN" -> ProbePagedScan(c)
    [] c.state = "PROBE_REGISTER_VERIFY" ->
         BeginAddress(IF Acked THEN Found(c, "register") ELSE c)
    [] c.state = "PROBE_REGISTER_SCAN" -> ProbeRegisterScan(c)
    [] c.state = "PROBE_ADDRESS_SCAN"  -> ProbeAddressScan(c)
-----------------------------------------------------------------------------
(***************************************************************************)
(* The application: the programming calls, service mode and track power.   *)
(* It calls from the main loop, and from the callbacks of a task.          *)
(***************************************************************************)
Busy == \E t \in Tasks : task[t].state # "IDLE"

Fresh(state) == Go(Idle, state)

\* From the main loop, or from a progress or completion callback.
ApplicationCalls == at # "called"

\* A call that is refused returns false and changes nothing a task reads.
Start(t, c, packets) ==
  /\ ApplicationCalls
  /\ task[t].state = "IDLE" /\ Accepts(packets)
  /\ task' = [task EXCEPT ![t] = c]
  /\ Begin(t, c, packets)
  /\ starts' = starts + 1
  /\ disturbed' = Busy
  /\ lost' = IF Busy THEN lost ELSE 0
  /\ UNCHANGED <<core, call, decoder>>

DirectReadCv(cv) ==
  Start("direct", [Fresh("READ_CV") EXCEPT !.cv = cv], DirectVerifyBit(cv, 0, 1))
DirectWriteCv(cv, v) ==
  Start("direct", [Fresh("WRITE_CV") EXCEPT !.cv = cv, !.value = v],
        DirectWriteByte(cv, v))
DirectReadBit(cv, b) ==
  Start("direct", [Fresh("READ_BIT") EXCEPT !.cv = cv, !.bit = b],
        DirectVerifyBit(cv, b, 1))
DirectWriteBitOf(cv, b, x) ==
  Start("direct",
        [Fresh("WRITE_BIT") EXCEPT !.cv = cv, !.bit = b, !.bit_value = x],
        DirectWriteBit(cv, b, x))

PagedReadCv(cv) ==
  Start("paged", [Fresh("READ_CV") EXCEPT !.cv = cv], PagedVerify(cv, 0))
PagedWriteCv(cv, v) ==
  Start("paged", [Fresh("WRITE_CV") EXCEPT !.cv = cv, !.value = v],
        PagedWrite(cv, v))
PagedReadBit(cv, b) ==
  Start("paged", [Fresh("READ_BIT_READ_BYTE") EXCEPT !.cv = cv, !.bit = b],
        PagedVerify(cv, 0))
PagedWriteBit(cv, b, x) ==
  Start("paged", [Fresh("WRITE_BIT_READ_BYTE") EXCEPT
                    !.cv = cv, !.bit = b, !.bit_value = x], PagedVerify(cv, 0))

\* The registers of a mobile decoder's CVs; 0 where there is none.
CvToRegister(cv) == CASE cv \in {1, 2, 3, 4, 7, 8} -> cv
                      [] cv = 29                   -> 5
                      [] OTHER                     -> 0

InRegister(cv, state) == [Fresh(state) EXCEPT !.cv = cv,
                                              !.register = CvToRegister(cv)]

RegisterReadCv(cv) ==
  Start("register", InRegister(cv, "READ_CV"), RegisterVerify(CvToRegister(cv), 0))
RegisterWriteCv(cv, v) ==
  Start("register", [InRegister(cv, "WRITE_CV") EXCEPT !.value = v],
        RegisterWrite(CvToRegister(cv), v))
RegisterReadBit(cv, b) ==
  Start("register", [InRegister(cv, "READ_BIT_READ_BYTE") EXCEPT !.bit = b],
        RegisterVerify(CvToRegister(cv), 0))
RegisterWriteBit(cv, b, x) ==
  Start("register", [InRegister(cv, "WRITE_BIT_READ_BYTE") EXCEPT
                       !.bit = b, !.bit_value = x],
        RegisterVerify(CvToRegister(cv), 0))
RegisterVerifyValue(cv, v) ==
  Start("register", [InRegister(cv, "VERIFY_VALUE") EXCEPT !.value = v],
        RegisterVerify(CvToRegister(cv), v))
RegisterFactoryReset ==
  Start("register", [Fresh("FACTORY_RESET") EXCEPT !.cv = 8],
        RegisterWrite(8, FactoryValue))

\* Address mode knows one CV, and seven bits of it.
OfCv1(state) == [Fresh(state) EXCEPT !.cv = 1]

AddressRead ==
  Start("address", [OfCv1("READ_CV") EXCEPT !.scan = 1], AddressVerify(1))
AddressWriteValue(a) ==
  Start("address", [OfCv1("WRITE_CV") EXCEPT !.value = a], AddressWrite(a))
AddressVerifyValue(a) ==
  Start("address", [OfCv1("VERIFY_VALUE") EXCEPT !.value = a], AddressVerify(a))
AddressReadBit(b) ==
  /\ b < AddressBits
  /\ Start("address", [OfCv1("READ_BIT_READ_BYTE") EXCEPT !.bit = b, !.scan = 1],
           AddressVerify(1))
AddressWriteBit(b, x) ==
  /\ b < AddressBits
  /\ Start("address", [OfCv1("WRITE_BIT_READ_BYTE") EXCEPT
                         !.bit = b, !.bit_value = x, !.scan = 1],
           AddressVerify(1))

DetectMode == Start("detect", Fresh("PROBE_DIRECT_0"),
                    DirectVerifyBit(DetectCv, DetectBit, 0))

StartTask ==
  /\ starts < MaxStarts
  /\ \/ \E cv \in CVs :
          \/ DirectReadCv(cv) \/ PagedReadCv(cv) \/ RegisterReadCv(cv)
          \/ \E v \in Values :
               \/ DirectWriteCv(cv, v) \/ PagedWriteCv(cv, v)
               \/ RegisterWriteCv(cv, v) \/ RegisterVerifyValue(cv, v)
          \/ \E b \in 0..Bits - 1 :
               \/ DirectReadBit(cv, b) \/ PagedReadBit(cv, b)
               \/ RegisterReadBit(cv, b)
               \/ \E x \in Bit :
                    \/ DirectWriteBitOf(cv, b, x) \/ PagedWriteBit(cv, b, x)
                    \/ RegisterWriteBit(cv, b, x)
     \/ AddressRead
     \/ \E a \in Values : AddressWriteValue(a) \/ AddressVerifyValue(a)
     \/ \E b \in 0..Bits - 1 :
          AddressReadBit(b) \/ \E x \in Bit : AddressWriteBit(b, x)
     \/ RegisterFactoryReset \/ DetectMode

\* Calls the application makes about the track as a whole.
Control(in_mode, on) ==
  /\ ApplicationCalls
  /\ in_service_mode' = in_mode /\ running' = on
  /\ disturbed' = Busy
  /\ UNCHANGED <<op, task, call, decoder, starts, lost>>

EnterServiceMode == Control(TRUE, TRUE)

\* The core ignores it while an operation is in progress; the signal stops.
ExitServiceMode == Control(in_service_mode /\ op # NoOp, FALSE)
PowerOn         == Control(in_service_mode, TRUE)
PowerOff        == Control(in_service_mode, FALSE)
-----------------------------------------------------------------------------
(***************************************************************************)
(* The core reports an operation, from the main loop.                      *)
(***************************************************************************)
\* The decoder has heard the packets in front; its acknowledgement may be lost.
Performs(p, heard) ==
  /\ at = "main" /\ running
  /\ UNCHANGED <<core, task, starts>>
  /\ DecoderHears(p)
  /\ heard \/ (Acknowledges(p) /\ lost < MaxLost)
  /\ lost' = IF heard THEN lost ELSE lost + 1
  /\ disturbed' = (disturbed \/ ~heard)

\* The page is selected or preset; whatever the result, the access follows.
PageSet ==
  /\ Len(op.packets) = 2
  /\ \E heard \in BOOLEAN : Performs(Head(op.packets), heard)
  /\ op' = [op EXCEPT !.packets = Tail(@)]
  /\ UNCHANGED call

\* The core is idle again before the result is passed on.
OperationCompletes ==
  /\ Len(op.packets) = 1
  /\ op' = NoOp
  /\ \E heard \in BOOLEAN :
       /\ Performs(Head(op.packets), heard)
       /\ DispatchFrom(1)
       /\ at' = "called" =>
            /\ owner' = op.owner
            /\ result' = IF heard /\ Acknowledges(Head(op.packets))
                         THEN "SUCCESS" ELSE "NO_ACK"
  /\ UNCHANGED report

Turn == Order[turn]

\* Steps that tell the application how far they have come before they act.
ReportsProgress(t, s) ==
  CASE t = "direct" -> s \in {"READ_CV", "READ_CV_VERIFY", "WRITE_CV",
                              "WRITE_CV_VERIFY"}
    [] t = "detect" -> FALSE
    [] OTHER        -> s \in {"READ_CV", "READ_BIT_READ_BYTE",
                              "WRITE_BIT_READ_BYTE", "WRITE_CV",
                              "WRITE_CV_VERIFY"}

ReportProgress ==
  /\ at = "called" /\ ReportsProgress(Turn, task[Turn].state)
  /\ at' = "progress"
  /\ UNCHANGED <<core, op, task, turn, result, owner, report, decoder, bounds>>

\* on_primitive_complete, from where its progress callback returns.
PrimitiveComplete ==
  /\ \/ at = "progress"
     \/ at = "called" /\ ~ReportsProgress(Turn, task[Turn].state)
  /\ UNCHANGED <<core, decoder, bounds>>
  /\ LET c == task[Turn]
     IN CASE Turn = "direct"   -> DirectPrimitiveComplete(c)
          [] Turn = "paged"    -> PagedPrimitiveComplete("paged", c)
          [] Turn = "register" -> RegisterPrimitiveComplete(c)
          [] Turn = "address"  -> AddressPrimitiveComplete(c)
          [] Turn = "detect"   -> DetectPrimitiveComplete(c)

\* The completion callback returns.
Return ==
  /\ at = "complete"
  /\ UNCHANGED task
  /\ NextTurn
  /\ report' = NoReport
  /\ UNCHANGED <<core, op, decoder, bounds>>

Dispatch == ReportProgress \/ PrimitiveComplete \/ Return

Next == \/ StartTask
        \/ EnterServiceMode \/ ExitServiceMode \/ PowerOn \/ PowerOff
        \/ PageSet \/ OperationCompletes \/ Dispatch

Spec == Init /\ [][Next]_vars

\* DccServiceTrack shows that an operation ends while the signal is on; the
\* dispatcher is a sequence of calls that return.  No state enables both.
FairSpec == Spec /\ WF_vars(PageSet \/ OperationCompletes \/ Dispatch)
-----------------------------------------------------------------------------
States == {"IDLE", "READ_CV", "READ_CV_VERIFY", "WRITE_CV", "WRITE_CV_VERIFY",
           "READ_BIT", "READ_BIT_CONFIRM", "WRITE_BIT", "WRITE_BIT_VERIFY",
           "READ_BIT_READ_BYTE", "WRITE_BIT_READ_BYTE", "WRITE_BIT_WRITE",
           "FACTORY_RESET", "VERIFY_VALUE", "PROBE_DIRECT_0", "PROBE_DIRECT_1",
           "READ_DIRECT", "PROBE_PAGED_VERIFY", "PROBE_PAGED_SCAN",
           "PROBE_REGISTER_VERIFY", "PROBE_REGISTER_SCAN", "PROBE_ADDRESS_SCAN"}
Modes == {"direct", "paged", "register", "address"}

Context == [state : States, cv : CVs \cup {0}, register : 0..8, bit : 0..Bits,
            bit_value : Bit, value : Byte, scan : Byte, any_ack : BOOLEAN,
            modes : SUBSET Modes, value_known : BOOLEAN]

TypeOK ==
  /\ in_service_mode \in BOOLEAN /\ running \in BOOLEAN
  /\ op.owner \in Tasks \cup {"none"} /\ op.context \in Context
  /\ Len(op.packets) \in 0..2
  /\ task \in [Tasks -> Context]
  /\ at \in {"main", "called", "progress", "complete"} /\ turn \in 1..5
  /\ result \in {"SUCCESS", "NO_ACK"} /\ owner \in Tasks \cup {"none"}
  /\ {report.task, report.owner} \subseteq Tasks \cup {"none"}
  /\ report.context \in Context
  /\ report.result \in {"SUCCESS", "NO_ACK", "VERIFY_FAIL", "ERROR", "BUSY"}
  /\ report.value \in Byte
  /\ memory \in [CVs -> Byte] /\ page \in 0..Pages - 1 /\ supports \in Decoders
  /\ disturbed \in BOOLEAN /\ starts \in 0..MaxStarts /\ lost \in 0..MaxLost

\* The operation in progress is the one that the task waits for.
Waits(t) == op.owner = t /\ op.context = task[t]

\* "Only the orchestrator that is mid-operation acts on it; the others are IDLE"
\* (dcc_config.c, _service_task_primitive_complete).  It does, and between two
\* results a busy task waits for the operation in progress; but a task that a
\* callback starts while a result is passed on is no longer idle when its turn
\* comes, and acts on that result too, while its own operation is under way.
OnlyOwnerActs ==
  /\ at \in {"called", "progress"} => owner = Turn \/ Waits(Turn)
  /\ at = "main" => \A t \in Tasks : task[t].state # "IDLE" => Waits(t)

\* What the states of a completed task were about.
ReadsByte(s)  == s \in {"READ_CV", "READ_CV_VERIFY"}
ReadsBit(s)   == s \in {"READ_BIT", "READ_BIT_CONFIRM", "READ_BIT_READ_BYTE"}
WritesByte(s) == s \in {"WRITE_CV", "WRITE_CV_VERIFY", "VERIFY_VALUE"}
WritesBit(s)  == s \in {"WRITE_BIT", "WRITE_BIT_VERIFY", "WRITE_BIT_READ_BYTE",
                        "WRITE_BIT_WRITE"}

\* The mode's commands reach the CV in this decoder.
Works(mode, cv) ==
  CASE mode = "direct"  -> "direct" \in supports
    [] mode = "address" -> supports \cap {"registers", "address"} # {}
    [] OTHER            -> \/ "registers" \in supports
                           \/ "address" \in supports /\ cv = 1

\* The decoder holds what a successful report says it holds.
Holds(r) ==
  LET c == r.context IN
  CASE ReadsByte(c.state)  -> memory[c.cv] = r.value
    [] ReadsBit(c.state)   -> BitOf(memory[c.cv], c.bit) = r.value
    [] WritesByte(c.state) -> memory[c.cv] = c.value
    [] WritesBit(c.state)  -> BitOf(memory[c.cv], c.bit) = c.bit_value
    [] c.state = "FACTORY_RESET" -> memory = FactoryDefaults
    [] OTHER -> c.modes # {} /\ \A m \in c.modes : Works(m, IF m = "address" THEN 1 ELSE 8)

\* A task that reports success on a result of its own reports the truth,
\* whatever acknowledgements were lost and whatever the application did in its
\* callbacks: a missing acknowledgement is never taken for a zero or for a write
\* that was done.  A task that has acted on another's result may say anything.
SuccessIsTrue ==
  at = "complete" /\ report.result = "SUCCESS" /\ report.owner = report.task
    => Holds(report)

\* The addresses that address mode scans.
Scanned(t, v) == t = "address" => v \in 1..AddressMax

\* What the decoder's CVs allow the task to achieve: address mode finds only
\* addresses, and writes only addresses.
Attainable(t, c) ==
  CASE ReadsByte(c.state) \/ ReadsBit(c.state) -> Scanned(t, memory[c.cv])
    [] WritesByte(c.state) -> memory[c.cv] = c.value
    [] WritesBit(c.state)  -> IF t = "direct"
                              THEN BitOf(memory[c.cv], c.bit) = c.bit_value
                              ELSE /\ Scanned(t, memory[c.cv])
                                   /\ memory[c.cv] = c.value
    [] OTHER -> TRUE

Detectable == {m \in Modes :
                 CASE m = "address" -> Works(m, 1) /\ memory[1] \in 1..AddressMax
                   [] OTHER         -> Works(m, 8)}

\* With every acknowledgement heard and nobody else using the track, a task
\* that ends on a result of its own succeeds exactly when the decoder can do
\* it, and detection finds exactly the modes the decoder has.
UndisturbedIsExact ==
  at = "complete" /\ ~report.disturbed /\ report.owner = report.task =>
    LET c == report.context
    IN IF report.task = "detect"
       THEN /\ c.modes = Detectable
            /\ report.result = (IF c.modes = {} THEN "NO_ACK" ELSE "SUCCESS")
       ELSE (report.result = "SUCCESS")
              <=> (Works(report.task, c.cv) /\ Attainable(report.task, c))

\* Only a write changes the decoder, only in the CV it is for and, for a bit,
\* only in that bit, even when its task is over before it: read-modify-write
\* puts back what it has read, on the page where it read it.  Factory values
\* are restored by that one command.
OtherBitsKept ==
  [][memory' # memory =>
       LET c == op.context
           changed == {cv \in CVs : memory'[cv] # memory[cv]}
       IN \/ memory' = FactoryDefaults /\ c.cv = 8
          \/ WritesByte(c.state) /\ changed = {c.cv}
          \/ /\ WritesBit(c.state) /\ changed = {c.cv}
             /\ \A b \in 0..Bits - 1 :
                  b # c.bit => BitOf(memory'[c.cv], b) = BitOf(memory[c.cv], b)]_vars

\* Every task that is started is reported, while the signal stays on.
EveryTaskReports ==
  Busy ~> ~Busy \/ ~running
=============================================================================
