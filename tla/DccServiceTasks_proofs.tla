----------------------- MODULE DccServiceTasks_proofs -----------------------
(***************************************************************************)
(* Proofs about DccServiceTasks, for every decoder, CV width and number of *)
(* starts and lost acknowledgements.                                       *)
(***************************************************************************)
EXTENDS DccServiceTasks, TLAPS

Fields == {"state", "cv", "register", "bit", "bit_value", "value", "scan",
           "any_ack", "modes", "value_known"}

\* A context, whatever the types of its data.
IsContext(c) == DOMAIN c = Fields /\ c = [f \in Fields |-> c[f]]

ScanStates == {"READ_CV", "READ_BIT_READ_BYTE", "WRITE_BIT_READ_BYTE", "WRITE_CV",
               "WRITE_CV_VERIFY", "WRITE_BIT_WRITE", "WRITE_BIT_VERIFY"}

\* The states of a task that is not idle.
StatesOf(t) ==
  CASE t = "direct"   -> {"READ_CV", "READ_CV_VERIFY", "WRITE_CV",
                          "WRITE_CV_VERIFY", "READ_BIT", "READ_BIT_CONFIRM",
                          "WRITE_BIT", "WRITE_BIT_VERIFY"}
    [] t = "paged"    -> ScanStates
    [] t = "register" -> ScanStates \cup {"FACTORY_RESET", "VERIFY_VALUE"}
    [] t = "address"  -> ScanStates \cup {"VERIFY_VALUE"}
    [] t = "detect"   -> {"PROBE_DIRECT_0", "PROBE_DIRECT_1", "READ_DIRECT",
                          "PROBE_PAGED_VERIFY", "PROBE_PAGED_SCAN",
                          "PROBE_REGISTER_VERIFY", "PROBE_REGISTER_SCAN",
                          "PROBE_ADDRESS_SCAN"}

\* A context a task may be given while it works.
Working(t, c) == IsContext(c) /\ c.state \in StatesOf(t)

Active(t) == task[t].state # "IDLE"

Shape ==
  /\ task = [t \in Tasks |-> task[t]]
  /\ \A t \in Tasks : IF Active(t) THEN Working(t, task[t]) ELSE task[t] = Idle
  /\ turn \in 1..5
  /\ at \in {"main", "called", "progress", "complete"}
  /\ op # NoOp => op.owner \in Tasks

\* The result that the task in turn is given is its own, or that of a task
\* before it, and then its own operation is in progress: it was started in a
\* callback of this dispatch.
Answered == /\ owner = Turn
            /\ op # NoOp => op.owner # Turn
            /\ at = "called" => op = NoOp
Strayed  == owner # Turn /\ Waits(Turn)

\* Every other task that is active waits for the operation in progress.
Alone ==
  /\ at \in {"main", "complete"} => \A t \in Tasks : Active(t) => Waits(t)
  /\ at \in {"called", "progress"} =>
       /\ Active(Turn) /\ (Answered \/ Strayed)
       /\ \A t \in Tasks \ {Turn} : Active(t) => Waits(t)
  /\ at # "main" => owner \in Tasks /\ Position(owner) <= turn

OwnerInv == Shape /\ Alone
-----------------------------------------------------------------------------
LEMMA TurnFacts ==
  ASSUME NEW i \in 1..5
  PROVE  /\ Order[i] \in Tasks
         /\ \A t \in Tasks : Position(t) \in 1..5 /\ Order[Position(t)] = t
         /\ \A j \in 1..5 : Order[i] = Order[j] => i = j
         /\ Len(Order) = 5
<1>1. /\ Order[1] = "direct" /\ Order[2] = "paged" /\ Order[3] = "register"
      /\ Order[4] = "address" /\ Order[5] = "detect"
      /\ Len(Order) = 5 /\ DOMAIN Order = 1..5
  BY DEF Order
<1>2. Order[i] \in Tasks
  BY <1>1, i = 1 \/ i = 2 \/ i = 3 \/ i = 4 \/ i = 5 DEF Tasks
<1>3. ASSUME NEW t \in Tasks
      PROVE  \E j \in 1..5 : Order[j] = t
  BY <1>1 DEF Tasks
<1>4. \A t \in Tasks : Position(t) \in 1..5 /\ Order[Position(t)] = t
  BY <1>1, <1>3 DEF Position
<1>5. \A j \in 1..5 : Order[i] = Order[j] => i = j
  <2> SUFFICES ASSUME NEW j \in 1..5, Order[i] = Order[j] PROVE i = j
    OBVIOUS
  <2> QED BY <1>1, i = 1 \/ i = 2 \/ i = 3 \/ i = 4 \/ i = 5,
                   j = 1 \/ j = 2 \/ j = 3 \/ j = 4 \/ j = 5
<1> QED BY <1>1, <1>2, <1>4, <1>5

LEMMA IdleShape == IsContext(Idle) /\ Idle.state = "IDLE"
BY DEF IsContext, Fields, Idle

LEMMA WaitsForIt ==
  ASSUME NEW t \in Tasks, Waits(t)
  PROVE  op # NoOp
BY DEF Waits, NoOp, Tasks

LEMMA NoIdleState == \A t \in Tasks : "IDLE" \notin StatesOf(t)
BY DEF StatesOf, ScanStates, Tasks

\* What a task's handler comes to: it begins its next operation or it is over.
Outcome(t) ==
  \/ \E c, packets : Working(t, c) /\ Continue(t, c, packets)
  \/ \E c, res, value : Complete(t, c, res, value)

LEMMA ContinueOutcome ==
  ASSUME NEW t, NEW c, NEW packets, Working(t, c), Continue(t, c, packets)
  PROVE  Outcome(t)
BY DEF Outcome

LEMMA CompleteOutcome ==
  ASSUME NEW t, NEW c, NEW res, NEW value, Complete(t, c, res, value)
  PROVE  Outcome(t)
BY DEF Outcome

LEMMA DirectOutcome ==
  ASSUME NEW c, Working("direct", c), DirectPrimitiveComplete(c)
  PROVE  Outcome("direct")
<1>1. CASE c.state = "READ_CV"
  <2> DEFINE found == [c EXCEPT !.value = IF Acked THEN @ + 2^c.bit ELSE @,
                                !.any_ack = @ \/ Acked, !.bit = @ + 1]
  <2>1. AdvanceReadCv(c)
    BY <1>1 DEF DirectPrimitiveComplete
  <2>2. IsContext(found) /\ found.state = "READ_CV"
    BY <1>1 DEF IsContext, Fields, Working
  <2>3. Working("direct", found) /\ Working("direct", Go(found, "READ_CV_VERIFY"))
    <3> HIDE DEF found
    <3> QED BY <2>2 DEF Working, StatesOf, Go, IsContext, Fields
  <2>4. \/ Continue("direct", Go(found, "READ_CV_VERIFY"),
                    DirectVerifyByte(c.cv, found.value))
        \/ Continue("direct", found, DirectVerifyBit(c.cv, found.bit, 1))
    BY <2>1 DEF AdvanceReadCv
  <2> QED
    <3> HIDE DEF found
    <3> QED BY <2>3, <2>4, ContinueOutcome
<1>2. CASE c.state = "READ_CV_VERIFY"
  <2>1. AdvanceReadCvVerify(c)
    BY <1>2 DEF DirectPrimitiveComplete
  <2> QED BY <2>1, CompleteOutcome DEF AdvanceReadCvVerify
<1>3. CASE c.state = "WRITE_CV"
  <2>1. Working("direct", Go(c, "WRITE_CV_VERIFY"))
    BY DEF Working, StatesOf, Go, IsContext, Fields
  <2>2. Continue("direct", Go(c, "WRITE_CV_VERIFY"), DirectVerifyByte(c.cv, c.value))
    BY <1>3 DEF DirectPrimitiveComplete
  <2> QED BY <2>1, <2>2, ContinueOutcome
<1>4. CASE c.state = "WRITE_CV_VERIFY"
  BY <1>4, CompleteOutcome DEF DirectPrimitiveComplete, Verified
<1>5. CASE c.state = "READ_BIT"
  <2>1. Working("direct", Go(c, "READ_BIT_CONFIRM"))
    BY DEF Working, StatesOf, Go, IsContext, Fields
  <2>2. AdvanceReadBit(c)
    BY <1>5 DEF DirectPrimitiveComplete
  <2> QED BY <2>1, <2>2, ContinueOutcome, CompleteOutcome DEF AdvanceReadBit
<1>6. CASE c.state = "READ_BIT_CONFIRM"
  BY <1>6, CompleteOutcome DEF DirectPrimitiveComplete, AdvanceReadBitConfirm
<1>7. CASE c.state = "WRITE_BIT"
  <2>1. Working("direct", Go(c, "WRITE_BIT_VERIFY"))
    BY DEF Working, StatesOf, Go, IsContext, Fields
  <2>2. Continue("direct", Go(c, "WRITE_BIT_VERIFY"),
                 DirectVerifyBit(c.cv, c.bit, c.bit_value))
    BY <1>7 DEF DirectPrimitiveComplete
  <2> QED BY <2>1, <2>2, ContinueOutcome
<1>8. CASE c.state = "WRITE_BIT_VERIFY"
  BY <1>8, CompleteOutcome DEF DirectPrimitiveComplete, Verified
<1> QED BY <1>1, <1>2, <1>3, <1>4, <1>5, <1>6, <1>7, <1>8 DEF Working, StatesOf

WholeByteTasks == {"paged", "register", "address"}

LEMMA ScanOutcome ==
  ASSUME NEW t \in WholeByteTasks, NEW c, Working(t, c), NEW found,
         c.state \in ScanStates,
         found => Outcome(t), AdvanceScan(t, c, found)
  PROVE  Outcome(t)
<1>1. Working(t, [c EXCEPT !.scan = @ + 1])
  BY DEF Working, IsContext, Fields
<1>2. \/ found
      \/ Complete(t, c, "ERROR", 0)
      \/ Continue(t, [c EXCEPT !.scan = @ + 1], VerifyOf(t, c, c.scan + 1))
  BY DEF AdvanceScan
<1> QED BY <1>1, <1>2, ContinueOutcome, CompleteOutcome

LEMMA ScanStatesOf ==
  \A t \in WholeByteTasks : ScanStates \subseteq StatesOf(t)
BY DEF WholeByteTasks, StatesOf

LEMMA PagedOutcome ==
  ASSUME NEW t \in WholeByteTasks, NEW c, Working(t, c), c.state \in ScanStates,
         PagedPrimitiveComplete(t, c)
  PROVE  Outcome(t)
<1>1. CASE c.state \in {"READ_CV", "READ_BIT_READ_BYTE"}
  <2>1. AdvanceScan(t, c, ReportFoundValue(t, c))
    BY <1>1 DEF PagedPrimitiveComplete
  <2>2. ReportFoundValue(t, c) => Outcome(t)
    BY CompleteOutcome DEF ReportFoundValue
  <2> QED BY <2>1, <2>2, ScanOutcome
<1>2. CASE c.state = "WRITE_BIT_READ_BYTE"
  <2>1. AdvanceScan(t, c, BeginWriteBit(t, c))
    BY <1>2 DEF PagedPrimitiveComplete
  <2>2. BeginWriteBit(t, c) => Outcome(t)
    <3> DEFINE modified == WithBit(c.scan, c.bit, c.bit_value)
               written  == [c EXCEPT !.state = "WRITE_BIT_WRITE", !.value = modified]
    <3>1. Working(t, written)
      <4> HIDE DEF modified
      <4>1. IsContext(written) /\ written.state = "WRITE_BIT_WRITE"
        BY DEF Working, IsContext, Fields
      <4> QED BY <4>1, ScanStatesOf DEF Working, ScanStates
    <3>2. BeginWriteBit(t, c) => Continue(t, written, WriteOf(t, c, modified))
      BY DEF BeginWriteBit
    <3> HIDE DEF written, modified
    <3> QED BY <3>1, <3>2, ContinueOutcome
  <2> QED BY <2>1, <2>2, ScanOutcome
<1>3. CASE c.state = "WRITE_CV"
  <2>1. Working(t, Go(c, "WRITE_CV_VERIFY"))
    BY ScanStatesOf DEF Working, Go, IsContext, Fields, ScanStates
  <2>2. Continue(t, Go(c, "WRITE_CV_VERIFY"), VerifyOf(t, c, c.value))
    BY <1>3 DEF PagedPrimitiveComplete
  <2> QED BY <2>1, <2>2, ContinueOutcome
<1>4. CASE c.state = "WRITE_BIT_WRITE"
  <2>1. Working(t, Go(c, "WRITE_BIT_VERIFY"))
    BY ScanStatesOf DEF Working, Go, IsContext, Fields, ScanStates
  <2>2. Continue(t, Go(c, "WRITE_BIT_VERIFY"), VerifyOf(t, c, c.value))
    BY <1>4 DEF PagedPrimitiveComplete
  <2> QED BY <2>1, <2>2, ContinueOutcome
<1>5. CASE c.state \in {"WRITE_CV_VERIFY", "WRITE_BIT_VERIFY"}
  BY <1>5, CompleteOutcome DEF PagedPrimitiveComplete, Verified
<1> QED BY <1>1, <1>2, <1>3, <1>4, <1>5 DEF ScanStates

LEMMA RegisterOutcome ==
  ASSUME NEW c, Working("register", c), RegisterPrimitiveComplete(c)
  PROVE  Outcome("register")
<1>1. CASE c.state = "FACTORY_RESET"
  BY <1>1, CompleteOutcome DEF RegisterPrimitiveComplete
<1>2. CASE c.state = "VERIFY_VALUE"
  BY <1>2, CompleteOutcome DEF RegisterPrimitiveComplete, Verified
<1>3. CASE c.state \in ScanStates
  <2>1. PagedPrimitiveComplete("register", c)
    BY <1>3 DEF RegisterPrimitiveComplete, ScanStates
  <2> QED BY <1>3, <2>1, PagedOutcome DEF WholeByteTasks
<1> QED BY <1>1, <1>2, <1>3 DEF Working, StatesOf

LEMMA AddressOutcome ==
  ASSUME NEW c, Working("address", c), AddressPrimitiveComplete(c)
  PROVE  Outcome("address")
<1>1. CASE c.state = "VERIFY_VALUE"
  BY <1>1, CompleteOutcome DEF AddressPrimitiveComplete, Verified
<1>2. CASE c.state \in ScanStates
  <2>1. PagedPrimitiveComplete("address", c)
    BY <1>2 DEF AddressPrimitiveComplete, ScanStates
  <2> QED BY <1>2, <2>1, PagedOutcome DEF WholeByteTasks
<1> QED BY <1>1, <1>2 DEF Working, StatesOf

LEMMA DetectContexts ==
  ASSUME NEW c, Working("detect", c), NEW s \in StatesOf("detect"),
         NEW v, NEW b, NEW mode
  PROVE  /\ Working("detect", Go(c, s))
         /\ Working("detect", [c EXCEPT !.state = s, !.bit = b])
         /\ Working("detect", [c EXCEPT !.state = s, !.scan = b])
         /\ Working("detect", [c EXCEPT !.scan = b])
         /\ Working("detect", [c EXCEPT !.bit = b])
         /\ Working("detect", [c EXCEPT !.value = v])
         /\ Working("detect", [c EXCEPT !.value_known = TRUE])
         /\ Working("detect", Found(c, mode))
         /\ Working("detect", FoundByScan(c, mode))
         /\ Working("detect", FoundDirect(c, v))
<1>1. /\ Working("detect", Go(c, s))
      /\ Working("detect", [c EXCEPT !.state = s, !.bit = b])
      /\ Working("detect", [c EXCEPT !.state = s, !.scan = b])
  BY DEF Working, IsContext, Fields, Go
<1>2. /\ Working("detect", [c EXCEPT !.scan = b])
      /\ Working("detect", [c EXCEPT !.bit = b])
      /\ Working("detect", [c EXCEPT !.value = v])
      /\ Working("detect", [c EXCEPT !.value_known = TRUE])
      /\ Working("detect", Found(c, mode))
  BY DEF Working, IsContext, Fields, Found
<1>3. Working("detect", FoundByScan(c, mode)) /\ Working("detect", FoundDirect(c, v))
  BY DEF Working, IsContext, Fields, Found, FoundByScan, FoundDirect
<1> QED BY <1>1, <1>2, <1>3

LEMMA BeginOutcome ==
  ASSUME NEW c, Working("detect", c)
  PROVE  /\ BeginDirectRead(c) => Outcome("detect")
         /\ BeginPaged(c) => Outcome("detect")
         /\ BeginRegister(c) => Outcome("detect")
         /\ BeginAddress(c) => Outcome("detect")
<1>1. {"READ_DIRECT", "PROBE_PAGED_VERIFY", "PROBE_PAGED_SCAN",
       "PROBE_REGISTER_VERIFY", "PROBE_REGISTER_SCAN", "PROBE_ADDRESS_SCAN"}
        \subseteq StatesOf("detect")
  BY DEF StatesOf
<1>2. BeginDirectRead(c) => Outcome("detect")
  <2>1. Working("detect", [c EXCEPT !.state = "READ_DIRECT", !.bit = DetectBit - 1])
    BY <1>1, DetectContexts
  <2> QED BY <2>1, ContinueOutcome DEF BeginDirectRead
<1>3. BeginPaged(c) => Outcome("detect")
  BY <1>1, DetectContexts, ContinueOutcome DEF BeginPaged
<1>4. BeginRegister(c) => Outcome("detect")
  BY <1>1, DetectContexts, ContinueOutcome DEF BeginRegister
<1>5. BeginAddress(c) => Outcome("detect")
  BY <1>1, DetectContexts, ContinueOutcome DEF BeginAddress
<1> QED BY <1>2, <1>3, <1>4, <1>5

LEMMA DetectOutcome ==
  ASSUME NEW c, Working("detect", c), DetectPrimitiveComplete(c)
  PROVE  Outcome("detect")
<1>0. {"PROBE_DIRECT_1"} \subseteq StatesOf("detect")
  BY DEF StatesOf
<1>1. CASE c.state = "PROBE_DIRECT_0"
  <2>1. ProbeDirect0(c)
    BY <1>1 DEF DetectPrimitiveComplete
  <2>2. CASE Acked
    BY <1>0, <2>1, <2>2, BeginOutcome, DetectContexts DEF ProbeDirect0
  <2>3. CASE ~Acked
    BY <1>0, <2>1, <2>3, ContinueOutcome, DetectContexts DEF ProbeDirect0
  <2> QED BY <2>2, <2>3
<1>2. CASE c.state = "PROBE_DIRECT_1"
  <2>1. ProbeDirect1(c)
    BY <1>2 DEF DetectPrimitiveComplete
  <2>2. Working("detect", FoundDirect(c, 2^DetectBit))
    BY <1>0, DetectContexts
  <2> QED BY <2>1, <2>2, BeginOutcome DEF ProbeDirect1
<1>3. CASE c.state = "READ_DIRECT"
  <2> DEFINE v == IF Acked THEN c.value + 2^c.bit ELSE c.value
             read == [c EXCEPT !.value = v]
  <2>1. ReadDirect(c)
    BY <1>3 DEF DetectPrimitiveComplete
  <2>2. Working("detect", read)
    <3> HIDE DEF v
    <3> QED BY <1>0, DetectContexts
  <2>3. \/ BeginPaged([read EXCEPT !.value_known = TRUE])
        \/ Continue("detect", [read EXCEPT !.bit = @ - 1],
                    DirectVerifyBit(DetectCv, c.bit - 1, 1))
    BY <2>1 DEF ReadDirect
  <2> HIDE DEF read
  <2>4. /\ Working("detect", [read EXCEPT !.value_known = TRUE])
        /\ Working("detect", [read EXCEPT !.bit = @ - 1])
    BY <1>0, <2>2, DetectContexts
  <2> QED BY <2>3, <2>4, BeginOutcome, ContinueOutcome
<1>4. CASE c.state = "PROBE_PAGED_VERIFY"
  <2>1. BeginRegister(IF Acked THEN Found(c, "paged") ELSE c)
    BY <1>4 DEF DetectPrimitiveComplete
  <2> QED BY <1>0, <2>1, BeginOutcome, DetectContexts
<1>5. CASE c.state = "PROBE_REGISTER_VERIFY"
  <2>1. BeginAddress(IF Acked THEN Found(c, "register") ELSE c)
    BY <1>5 DEF DetectPrimitiveComplete
  <2> QED BY <1>0, <2>1, BeginOutcome, DetectContexts
<1>6. CASE c.state = "PROBE_PAGED_SCAN"
  <2>1. ProbePagedScan(c)
    BY <1>6 DEF DetectPrimitiveComplete
  <2>2. \/ BeginRegister(FoundByScan(c, "paged")) \/ BeginRegister(c)
        \/ Continue("detect", [c EXCEPT !.scan = @ + 1],
                    PagedVerify(DetectCv, c.scan + 1))
    BY <2>1 DEF ProbePagedScan
  <2> QED BY <1>0, <2>2, BeginOutcome, ContinueOutcome, DetectContexts
<1>7. CASE c.state = "PROBE_REGISTER_SCAN"
  <2>1. ProbeRegisterScan(c)
    BY <1>7 DEF DetectPrimitiveComplete
  <2>2. \/ BeginAddress(FoundByScan(c, "register")) \/ BeginAddress(c)
        \/ Continue("detect", [c EXCEPT !.scan = @ + 1],
                    RegisterVerify(DetectRegister, c.scan + 1))
    BY <2>1 DEF ProbeRegisterScan
  <2> QED BY <1>0, <2>2, BeginOutcome, ContinueOutcome, DetectContexts
<1>8. CASE c.state = "PROBE_ADDRESS_SCAN"
  <2>1. ProbeAddressScan(c)
    BY <1>8 DEF DetectPrimitiveComplete
  <2>2. \/ Finish(Found(c, "address")) \/ Finish(c)
        \/ Continue("detect", [c EXCEPT !.scan = @ + 1], AddressVerify(c.scan + 1))
    BY <2>1 DEF ProbeAddressScan
  <2>3. \A d : Finish(d) => Outcome("detect")
    BY CompleteOutcome DEF Finish
  <2> QED BY <1>0, <2>2, <2>3, ContinueOutcome, DetectContexts
<1> QED BY <1>1, <1>2, <1>3, <1>4, <1>5, <1>6, <1>7, <1>8 DEF Working, StatesOf
-----------------------------------------------------------------------------
LEMMA ShapeFacts ==
  ASSUME Shape
  PROVE  /\ Turn \in Tasks /\ Position(Turn) = turn
         /\ \A t \in Tasks : Active(t) <=> task[t].state \in StatesOf(t)
<1>1. Turn \in Tasks /\ Position(Turn) = turn
  BY TurnFacts DEF Shape, Turn
<1>2. ASSUME NEW t \in Tasks
      PROVE  Active(t) <=> task[t].state \in StatesOf(t)
  BY <1>2, NoIdleState, IdleShape DEF Shape, Active, Working
<1> QED BY <1>1, <1>2

\* A task's handler leaves the other tasks alone.
LEMMA OutcomeEffect ==
  ASSUME Shape, NEW t \in Tasks, Outcome(t)
  PROVE  /\ task' = [u \in Tasks |-> task'[u]]
         /\ \A u \in Tasks \ {t} : task'[u] = task[u]
         /\ \/ /\ op = NoOp /\ op' # NoOp
               /\ op'.owner = t /\ op'.context = task'[t]
               /\ Working(t, task'[t]) /\ NextTurn
            \/ /\ op' = op /\ task'[t] = Idle
               /\ at' = "complete" /\ turn' = turn /\ owner' = owner
<1>1. ASSUME NEW c, NEW res, NEW value, Complete(t, c, res, value)
      PROVE  /\ task' = [task EXCEPT ![t] = Idle] /\ op' = op
             /\ at' = "complete" /\ turn' = turn /\ owner' = owner
  BY <1>1 DEF Complete
<1>2. ASSUME NEW c, NEW packets, Working(t, c), Continue(t, c, packets)
      PROVE  \/ /\ task' = [task EXCEPT ![t] = c] /\ NextTurn
                /\ op = NoOp
                /\ op' = [owner |-> t, context |-> c, packets |-> packets]
                /\ packets # <<>>
             \/ Complete(t, c, "BUSY", 0)
  BY <1>2 DEF Continue, Accepts, Begin, Refused
<1>3. ASSUME NEW c, NEW packets, packets # <<>>
      PROVE  [owner |-> t, context |-> c, packets |-> packets] # NoOp
  BY <1>3 DEF NoOp
<1>4. CASE \E c, res, value : Complete(t, c, res, value)
  BY <1>1, <1>4 DEF Shape
<1>5. CASE \E c, packets : Working(t, c) /\ Continue(t, c, packets)
  <2>1. PICK c, packets : Working(t, c) /\ Continue(t, c, packets)
    BY <1>5
  <2>2. CASE Complete(t, c, "BUSY", 0)
    BY <1>1, <2>2 DEF Shape
  <2>3. CASE /\ task' = [task EXCEPT ![t] = c] /\ NextTurn
             /\ op = NoOp
             /\ op' = [owner |-> t, context |-> c, packets |-> packets]
             /\ packets # <<>>
    BY <1>3, <2>1, <2>3 DEF Shape
  <2> QED BY <1>2, <2>1, <2>2, <2>3
<1> QED BY <1>4, <1>5 DEF Outcome

LEMMA HandlerOutcome ==
  ASSUME OwnerInv, PrimitiveComplete
  PROVE  Active(Turn) /\ Outcome(Turn)
<1>1. Active(Turn) /\ Turn \in Tasks
  BY ShapeFacts DEF OwnerInv, Alone, PrimitiveComplete
<1>2. Working(Turn, task[Turn])
  BY <1>1 DEF OwnerInv, Shape
<1>3. /\ Turn = "direct"   => DirectPrimitiveComplete(task[Turn])
      /\ Turn = "paged"    => PagedPrimitiveComplete(Turn, task[Turn])
      /\ Turn = "register" => RegisterPrimitiveComplete(task[Turn])
      /\ Turn = "address"  => AddressPrimitiveComplete(task[Turn])
      /\ Turn = "detect"   => DetectPrimitiveComplete(task[Turn])
  BY Zenon DEF PrimitiveComplete
<1>4. Turn = "paged" => Turn \in WholeByteTasks /\ task[Turn].state \in ScanStates
  BY <1>2 DEF Working, StatesOf, WholeByteTasks
<1>5. Turn = "paged" => Outcome(Turn)
  BY <1>2, <1>3, <1>4, PagedOutcome
<1>6. Turn \in {"direct", "register", "address", "detect"} => Outcome(Turn)
  BY <1>2, <1>3, DirectOutcome, RegisterOutcome, AddressOutcome, DetectOutcome, Zenon
<1> QED BY <1>1, <1>5, <1>6 DEF Tasks
-----------------------------------------------------------------------------
LEMMA OwnerInit == Init => OwnerInv
<1> SUFFICES ASSUME Init PROVE OwnerInv
  OBVIOUS
<1>1. \A t \in Tasks : task[t] = Idle /\ ~Active(t)
  BY IdleShape DEF Init, Active
<1> QED BY <1>1 DEF Init, OwnerInv, Shape, Alone

\* The next task in turn is active and comes after the one before.
LEMMA DispatchGoesOn ==
  ASSUME NEW i \in 1..6, DispatchFrom(i)
  PROVE  \/ /\ at' = "main" /\ turn' = 1
            /\ \A t \in Tasks : Position(t) >= i => task'[t].state = "IDLE"
         \/ /\ at' = "called" /\ turn' \in i..5
            /\ task'[Order[turn']].state # "IDLE"
<1>1. Len(Order) = 5
  BY 1 \in 1..5, TurnFacts
<1>2. CASE at' = "main" /\ turn' = 1
           /\ {j \in i..Len(Order) : task'[Order[j]].state # "IDLE"} = {}
  <2> SUFFICES ASSUME NEW t \in Tasks, Position(t) >= i
               PROVE  task'[t].state = "IDLE"
    BY <1>2
  <2>1. Position(t) \in 1..5 /\ Order[Position(t)] = t
    BY 1 \in 1..5, TurnFacts
  <2>2. Position(t) \in i..Len(Order)
    BY <1>1, <2>1
  <2> QED BY <1>2, <2>1, <2>2
<1>3. CASE at' = "called"
           /\ turn' \in {j \in i..Len(Order) : task'[Order[j]].state # "IDLE"}
  BY <1>1, <1>3
<1> QED BY <1>2, <1>3 DEF DispatchFrom

LEMMA OwnerStart ==
  ASSUME OwnerInv, NEW t \in Tasks, NEW c, NEW packets,
         Working(t, c), Start(t, c, packets)
  PROVE  OwnerInv'
<1>1. /\ ~Active(t) /\ packets # <<>> /\ op = NoOp /\ at # "called"
      /\ task' = [task EXCEPT ![t] = c]
      /\ op' = [owner |-> t, context |-> c, packets |-> packets]
      /\ at' = at /\ turn' = turn /\ owner' = owner
  BY DEF Start, Accepts, Begin, Refused, Active, call, ApplicationCalls
<1>2. /\ task' = [u \in Tasks |-> task'[u]] /\ task'[t] = c
      /\ \A u \in Tasks \ {t} : task'[u] = task[u]
  BY <1>1 DEF OwnerInv, Shape
<1>3. op' # NoOp /\ op'.owner = t /\ Waits(t)'
  BY <1>1, <1>2 DEF NoOp, Waits
<1>4. c.state # "IDLE"
  BY NoIdleState DEF Working
<1>5. Shape'
  BY <1>1, <1>2, <1>3, <1>4 DEF OwnerInv, Shape, Active
<1>6. \A u \in Tasks \ {t} : Active(u)' <=> Active(u)
  BY <1>2 DEF Active
<1>7. \A u \in Tasks : ~Waits(u)
  BY <1>1, WaitsForIt
<1>8. Turn' = Turn /\ Turn \in Tasks
  BY <1>1, ShapeFacts DEF Turn, OwnerInv
<1>9. CASE at \in {"main", "complete"}
  <2>1. \A u \in Tasks : Active(u)' => Waits(u)'
    BY <1>3, <1>6, <1>7, <1>9 DEF OwnerInv, Alone
  <2>2. at' # "main" => owner' \in Tasks /\ Position(owner') <= turn'
    BY <1>1 DEF OwnerInv, Alone
  <2> QED BY <1>1, <1>5, <1>9, <2>1, <2>2 DEF OwnerInv, Alone
<1>10. CASE at = "progress"
  <2>1. Active(Turn) /\ Answered /\ t # Turn
    BY <1>1, <1>7, <1>8, <1>10 DEF OwnerInv, Alone, Strayed
  <2>2. Active(Turn)' /\ Answered'
    BY <1>1, <1>3, <1>6, <1>8, <1>10, <2>1 DEF Answered
  <2> QED BY <1>1, <1>3, <1>5, <1>6, <1>7, <1>8, <1>10, <2>2 DEF OwnerInv, Alone
<1> QED BY <1>1, <1>5, <1>9, <1>10 DEF OwnerInv, Shape

\* A new context, and what is filled in before it is handed over.
LEMMA FreshContext == \A s : IsContext(Fresh(s)) /\ Fresh(s).state = s
BY DEF IsContext, Fields, Fresh, Go, Idle

LEMMA EditedContext ==
  ASSUME NEW t, NEW d, Working(t, d)
  PROVE  /\ \A cv : Working(t, [d EXCEPT !.cv = cv])
         /\ \A v : Working(t, [d EXCEPT !.value = v])
         /\ \A b : Working(t, [d EXCEPT !.bit = b])
         /\ \A v : Working(t, [d EXCEPT !.scan = v])
         /\ \A cv, v : Working(t, [d EXCEPT !.cv = cv, !.value = v])
         /\ \A cv, b : Working(t, [d EXCEPT !.cv = cv, !.bit = b])
         /\ \A cv, r : Working(t, [d EXCEPT !.cv = cv, !.register = r])
         /\ \A b, v : Working(t, [d EXCEPT !.bit = b, !.scan = v])
         /\ \A b, x : Working(t, [d EXCEPT !.bit = b, !.bit_value = x])
         /\ \A cv, b, x : Working(t, [d EXCEPT !.cv = cv, !.bit = b, !.bit_value = x])
         /\ \A b, x, v : Working(t, [d EXCEPT !.bit = b, !.bit_value = x, !.scan = v])
<1>1. ASSUME NEW e, Working(t, e)
      PROVE  /\ \A v : Working(t, [e EXCEPT !.cv = v])
             /\ \A v : Working(t, [e EXCEPT !.value = v])
             /\ \A v : Working(t, [e EXCEPT !.bit = v])
  BY <1>1 DEF Working, IsContext, Fields
<1>2. ASSUME NEW e, Working(t, e)
      PROVE  /\ \A v : Working(t, [e EXCEPT !.scan = v])
             /\ \A v : Working(t, [e EXCEPT !.register = v])
             /\ \A v : Working(t, [e EXCEPT !.bit_value = v])
  BY <1>2 DEF Working, IsContext, Fields
<1>3. \A cv, v : Working(t, [d EXCEPT !.cv = cv, !.value = v])
  <2> TAKE cv, v
  <2>1. Working(t, [d EXCEPT !.cv = cv])
    BY <1>1, <1>2
  <2>2. Working(t, [[d EXCEPT !.cv = cv] EXCEPT !.value = v])
    BY <2>1, <1>1, <1>2
  <2> QED BY <2>2
<1>4. \A cv, b : Working(t, [d EXCEPT !.cv = cv, !.bit = b])
  <2> TAKE cv, b
  <2>1. Working(t, [d EXCEPT !.cv = cv])
    BY <1>1, <1>2
  <2>2. Working(t, [[d EXCEPT !.cv = cv] EXCEPT !.bit = b])
    BY <2>1, <1>1, <1>2
  <2> QED BY <2>2
<1>5. \A cv, r : Working(t, [d EXCEPT !.cv = cv, !.register = r])
  <2> TAKE cv, r
  <2>1. Working(t, [d EXCEPT !.cv = cv])
    BY <1>1, <1>2
  <2>2. Working(t, [[d EXCEPT !.cv = cv] EXCEPT !.register = r])
    BY <2>1, <1>1, <1>2
  <2> QED BY <2>2
<1>6. \A b, v : Working(t, [d EXCEPT !.bit = b, !.scan = v])
  <2> TAKE b, v
  <2>1. Working(t, [d EXCEPT !.bit = b])
    BY <1>1, <1>2
  <2>2. Working(t, [[d EXCEPT !.bit = b] EXCEPT !.scan = v])
    BY <2>1, <1>1, <1>2
  <2> QED BY <2>2
<1>7. \A b, x : Working(t, [d EXCEPT !.bit = b, !.bit_value = x])
  <2> TAKE b, x
  <2>1. Working(t, [d EXCEPT !.bit = b])
    BY <1>1, <1>2
  <2>2. Working(t, [[d EXCEPT !.bit = b] EXCEPT !.bit_value = x])
    BY <2>1, <1>1, <1>2
  <2> QED BY <2>2
<1>8. \A cv, b, x : Working(t, [d EXCEPT !.cv = cv, !.bit = b, !.bit_value = x])
  <2> TAKE cv, b, x
  <2>1. Working(t, [d EXCEPT !.cv = cv])
    BY <1>1, <1>2
  <2>2. Working(t, [[d EXCEPT !.cv = cv] EXCEPT !.bit = b])
    BY <1>1, <1>2, <2>1
  <2>3. Working(t, [[[d EXCEPT !.cv = cv] EXCEPT !.bit = b] EXCEPT !.bit_value = x])
    BY <2>2, <1>1, <1>2
  <2> QED BY <2>3
<1>9. \A b, x, v : Working(t, [d EXCEPT !.bit = b, !.bit_value = x, !.scan = v])
  <2> TAKE b, x, v
  <2>1. Working(t, [d EXCEPT !.bit = b])
    BY <1>1, <1>2
  <2>2. Working(t, [[d EXCEPT !.bit = b] EXCEPT !.bit_value = x])
    BY <1>1, <1>2, <2>1
  <2>3. Working(t, [[[d EXCEPT !.bit = b] EXCEPT !.bit_value = x] EXCEPT !.scan = v])
    BY <2>2, <1>1, <1>2
  <2> QED BY <2>3
<1> QED BY <1>1, <1>2, <1>3, <1>4, <1>5, <1>6, <1>7, <1>8, <1>9

LEMMA OwnerStartTask ==
  ASSUME OwnerInv, StartTask
  PROVE  OwnerInv'
<1>1. \A cv, v, b, x :
        /\ Working("direct", [Fresh("READ_CV") EXCEPT !.cv = cv])
        /\ Working("direct", [Fresh("WRITE_CV") EXCEPT !.cv = cv, !.value = v])
        /\ Working("direct", [Fresh("READ_BIT") EXCEPT !.cv = cv, !.bit = b])
        /\ Working("direct", [Fresh("WRITE_BIT") EXCEPT
                                !.cv = cv, !.bit = b, !.bit_value = x])
  <2>1. {"READ_CV", "WRITE_CV", "READ_BIT", "WRITE_BIT"} \subseteq StatesOf("direct")
    BY DEF StatesOf
  <2>2. \A s \in {"READ_CV", "WRITE_CV", "READ_BIT", "WRITE_BIT"} :
          Working("direct", Fresh(s))
    BY <2>1, FreshContext DEF Working
  <2> QED BY <2>2, EditedContext
<1>2. \A cv, v, b, x :
        /\ Working("paged", [Fresh("READ_CV") EXCEPT !.cv = cv])
        /\ Working("paged", [Fresh("WRITE_CV") EXCEPT !.cv = cv, !.value = v])
        /\ Working("paged", [Fresh("READ_BIT_READ_BYTE") EXCEPT
                               !.cv = cv, !.bit = b])
        /\ Working("paged", [Fresh("WRITE_BIT_READ_BYTE") EXCEPT
                               !.cv = cv, !.bit = b, !.bit_value = x])
  <2>1. {"READ_CV", "WRITE_CV", "READ_BIT_READ_BYTE", "WRITE_BIT_READ_BYTE"}
          \subseteq StatesOf("paged")
    BY DEF StatesOf, ScanStates
  <2>2. \A s \in {"READ_CV", "WRITE_CV", "READ_BIT_READ_BYTE",
                    "WRITE_BIT_READ_BYTE"} : Working("paged", Fresh(s))
    BY <2>1, FreshContext DEF Working
  <2> QED BY <2>2, EditedContext
<1>3. \A cv, v, b, x :
        /\ Working("register", InRegister(cv, "READ_CV"))
        /\ Working("register", [InRegister(cv, "WRITE_CV") EXCEPT !.value = v])
        /\ Working("register", [InRegister(cv, "READ_BIT_READ_BYTE") EXCEPT !.bit = b])
        /\ Working("register", [InRegister(cv, "WRITE_BIT_READ_BYTE") EXCEPT
                                  !.bit = b, !.bit_value = x])
        /\ Working("register", [InRegister(cv, "VERIFY_VALUE") EXCEPT !.value = v])
        /\ Working("register", [Fresh("FACTORY_RESET") EXCEPT !.cv = 8])
  <2> TAKE cv, v, b, x
  <2>1. {"READ_CV", "WRITE_CV", "READ_BIT_READ_BYTE", "WRITE_BIT_READ_BYTE",
         "VERIFY_VALUE", "FACTORY_RESET"} \subseteq StatesOf("register")
    BY DEF StatesOf, ScanStates
  <2>2. ASSUME NEW s \in StatesOf("register")
        PROVE  Working("register", Fresh(s)) /\ Working("register", InRegister(cv, s))
    <3> DEFINE r == CvToRegister(cv)
    <3>1. InRegister(cv, s) = [Fresh(s) EXCEPT !.cv = cv, !.register = r]
      BY DEF InRegister
    <3>2. Working("register", Fresh(s))
      BY FreshContext DEF Working
    <3>3. \A k, l : Working("register", [Fresh(s) EXCEPT !.cv = k, !.register = l])
      BY <3>2, EditedContext
    <3>4. Working("register", [Fresh(s) EXCEPT !.cv = cv, !.register = r])
      BY <3>3, Zenon
    <3> QED BY <3>1, <3>2, <3>4, Zenon
  <2> QED BY <2>1, <2>2, EditedContext
<1>4. \A v, b, x :
        /\ Working("address", [OfCv1("READ_CV") EXCEPT !.scan = 1])
        /\ Working("address", [OfCv1("WRITE_CV") EXCEPT !.value = v])
        /\ Working("address", [OfCv1("VERIFY_VALUE") EXCEPT !.value = v])
        /\ Working("address", [OfCv1("READ_BIT_READ_BYTE") EXCEPT
                                 !.bit = b, !.scan = 1])
        /\ Working("address", [OfCv1("WRITE_BIT_READ_BYTE") EXCEPT
                                 !.bit = b, !.bit_value = x, !.scan = 1])
  <2>1. {"READ_CV", "WRITE_CV", "VERIFY_VALUE", "READ_BIT_READ_BYTE",
         "WRITE_BIT_READ_BYTE"} \subseteq StatesOf("address")
    BY DEF StatesOf, ScanStates
  <2>2. ASSUME NEW s \in StatesOf("address")
        PROVE  Working("address", OfCv1(s))
    <3>1. Working("address", Fresh(s))
      BY FreshContext DEF Working
    <3> QED BY <3>1, EditedContext DEF OfCv1
  <2> QED BY <2>1, <2>2, EditedContext
<1>5. Working("detect", Fresh("PROBE_DIRECT_0"))
  BY FreshContext DEF Working, StatesOf
<1>6. \E t \in Tasks : \E c, packets : Working(t, c) /\ Start(t, c, packets)
  <2>1. \/ \E cv, v, b, x :
             \/ DirectReadCv(cv) \/ DirectWriteCv(cv, v) \/ DirectReadBit(cv, b)
             \/ DirectWriteBitOf(cv, b, x)
        \/ \E cv, v, b, x :
             \/ PagedReadCv(cv) \/ PagedWriteCv(cv, v) \/ PagedReadBit(cv, b)
             \/ PagedWriteBit(cv, b, x)
        \/ \E cv, v, b, x :
             \/ RegisterReadCv(cv) \/ RegisterWriteCv(cv, v) \/ RegisterReadBit(cv, b)
             \/ RegisterWriteBit(cv, b, x) \/ RegisterVerifyValue(cv, v)
             \/ RegisterFactoryReset
        \/ \E v, b, x :
             \/ AddressRead \/ AddressWriteValue(v) \/ AddressVerifyValue(v)
             \/ AddressReadBit(b) \/ AddressWriteBit(b, x)
        \/ DetectMode
    BY Zenon DEF StartTask
  <2>2. {"direct", "paged", "register", "address", "detect"} \subseteq Tasks
    BY DEF Tasks
  <2>3. ASSUME NEW cv, NEW v, NEW b, NEW x,
               \/ DirectReadCv(cv) \/ DirectWriteCv(cv, v) \/ DirectReadBit(cv, b)
               \/ DirectWriteBitOf(cv, b, x)
        PROVE  \E c, packets : Working("direct", c) /\ Start("direct", c, packets)
    BY <1>1, <2>3, Zenon
    DEF DirectReadCv, DirectWriteCv, DirectReadBit, DirectWriteBitOf
  <2>4. ASSUME NEW cv, NEW v, NEW b, NEW x,
               \/ PagedReadCv(cv) \/ PagedWriteCv(cv, v) \/ PagedReadBit(cv, b)
               \/ PagedWriteBit(cv, b, x)
        PROVE  \E c, packets : Working("paged", c) /\ Start("paged", c, packets)
    BY <1>2, <2>4, Zenon
    DEF PagedReadCv, PagedWriteCv, PagedReadBit, PagedWriteBit
  <2>5. ASSUME NEW cv, NEW v, NEW b, NEW x,
               \/ RegisterReadCv(cv) \/ RegisterWriteCv(cv, v) \/ RegisterReadBit(cv, b)
               \/ RegisterWriteBit(cv, b, x) \/ RegisterVerifyValue(cv, v)
               \/ RegisterFactoryReset
        PROVE  \E c, packets : Working("register", c) /\ Start("register", c, packets)
    BY <1>3, <2>5, Zenon
    DEF RegisterReadCv, RegisterWriteCv, RegisterReadBit, RegisterWriteBit,
        RegisterVerifyValue, RegisterFactoryReset
  <2>6. ASSUME NEW v, NEW b, NEW x,
               \/ AddressRead \/ AddressWriteValue(v) \/ AddressVerifyValue(v)
               \/ AddressReadBit(b) \/ AddressWriteBit(b, x)
        PROVE  \E c, packets : Working("address", c) /\ Start("address", c, packets)
    BY <1>4, <2>6, Zenon
    DEF AddressRead, AddressWriteValue, AddressVerifyValue, AddressReadBit,
        AddressWriteBit
  <2>7. DetectMode => \E c, packets : Working("detect", c) /\ Start("detect", c, packets)
    BY <1>5, Zenon DEF DetectMode
  <2> QED BY <2>1, <2>2, <2>3, <2>4, <2>5, <2>6, <2>7, Zenon
<1> QED BY <1>6, OwnerStart

\* The handler of a task that acts on another's result finds its own operation
\* in progress, so it cannot begin the next and is over.
LEMMA OwnerHandler ==
  ASSUME OwnerInv, PrimitiveComplete
  PROVE  OwnerInv'
<1>1. Active(Turn) /\ Outcome(Turn) /\ Turn \in Tasks /\ Position(Turn) = turn
  BY HandlerOutcome, ShapeFacts DEF OwnerInv
<1>2. at \in {"called", "progress"}
  BY DEF PrimitiveComplete
<1>3. \A t \in Tasks \ {Turn} : Active(t) => Waits(t)
  BY <1>2 DEF OwnerInv, Alone
<1>4. /\ task' = [u \in Tasks |-> task'[u]]
      /\ \A u \in Tasks \ {Turn} : task'[u] = task[u]
  BY <1>1, OutcomeEffect DEF OwnerInv
<1>5. CASE /\ op = NoOp /\ op' # NoOp
           /\ op'.owner = Turn /\ op'.context = task'[Turn]
           /\ Working(Turn, task'[Turn]) /\ NextTurn
  <2>1. \A t \in Tasks \ {Turn} : ~Active(t) /\ ~Active(t)'
    BY <1>3, <1>4, <1>5, WaitsForIt DEF Active
  <2>2. turn + 1 \in 1..6 /\ DispatchFrom(turn + 1)
    BY <1>5 DEF NextTurn, OwnerInv, Shape
  <2>3. ASSUME turn' \in turn + 1..5
        PROVE  task'[Order[turn']].state = "IDLE"
    <3>1. turn' \in 1..5 /\ turn' # turn
      BY <2>2, <2>3 DEF OwnerInv, Shape
    <3>2. Order[turn'] \in Tasks \ {Turn}
      BY <3>1, TurnFacts DEF OwnerInv, Shape, Turn
    <3> QED BY <2>1, <3>2 DEF Active
  <2>4. at' = "main" /\ turn' = 1
    BY <2>2, <2>3, DispatchGoesOn
  <2>5. Shape'
    <3>1. ASSUME NEW t \in Tasks
          PROVE  IF task'[t].state # "IDLE" THEN Working(t, task'[t]) ELSE task'[t] = Idle
      BY <1>4, <1>5, <2>1, NoIdleState DEF OwnerInv, Shape, Active, Working
    <3> QED BY <1>1, <1>4, <1>5, <2>4, <3>1 DEF Shape, Active
  <2>6. \A t \in Tasks : task'[t].state # "IDLE" => t = Turn
    BY <1>4, <2>1 DEF Active
  <2>7. \A t \in Tasks : Active(t)' => Waits(t)'
    BY <1>5, <2>6 DEF Active, Waits
  <2> QED BY <2>4, <2>5, <2>7 DEF OwnerInv, Alone
<1>6. CASE /\ op' = op /\ task'[Turn] = Idle
           /\ at' = "complete" /\ turn' = turn /\ owner' = owner
  <2>1. Shape'
    BY <1>1, <1>4, <1>6, IdleShape DEF OwnerInv, Shape, Active
  <2>2. \A t \in Tasks : Active(t)' => Waits(t)'
    BY <1>3, <1>4, <1>6, IdleShape DEF Active, Waits
  <2>3. owner' \in Tasks /\ Position(owner') <= turn'
    BY <1>2, <1>6 DEF OwnerInv, Alone
  <2>4. Alone'
    BY <1>6, <2>2, <2>3 DEF Alone
  <2> QED BY <2>1, <2>4 DEF OwnerInv
<1> QED BY <1>1, <1>5, <1>6, OutcomeEffect DEF OwnerInv

\* Power and mode leave the tasks and the operation alone.
LEMMA OwnerSame ==
  ASSUME OwnerInv, UNCHANGED <<op, task, at, turn, owner>>
  PROVE  OwnerInv'
BY DEF OwnerInv, Shape, Alone, Answered, Strayed, Active, Waits, Turn, Working

LEMMA OwnerPageSet ==
  ASSUME OwnerInv, PageSet
  PROVE  OwnerInv'
<1>1. /\ at = "main" /\ Len(op.packets) = 2
      /\ op' = [op EXCEPT !.packets = Tail(@)]
      /\ UNCHANGED <<task, at, turn, owner>>
  BY DEF PageSet, Performs, call
<1>2. op # NoOp
  BY <1>1 DEF NoOp
<1>3. op' # NoOp /\ op'.owner = op.owner /\ op'.context = op.context
  <2>1. op.owner # "none"
    BY <1>2 DEF OwnerInv, Shape, Tasks
  <2>2. op'.owner = op.owner /\ op'.context = op.context
    BY <1>1
  <2> QED BY <2>1, <2>2 DEF NoOp
<1>4. \A t \in Tasks : (Active(t)' <=> Active(t)) /\ (Waits(t)' <=> Waits(t))
  BY <1>1, <1>3 DEF Active, Waits
<1>5. Shape'
  BY <1>1, <1>2, <1>3 DEF OwnerInv, Shape, Active
<1> QED BY <1>1, <1>4, <1>5 DEF OwnerInv, Alone

\* The only task that can be active is the one whose operation it was; if that
\* is over already, nobody hears of the result.
LEMMA OwnerCompletes ==
  ASSUME OwnerInv, OperationCompletes
  PROVE  OwnerInv'
<1>1. /\ at = "main" /\ Len(op.packets) = 1 /\ op' = NoOp
      /\ task' = task /\ DispatchFrom(1)
      /\ at' = "called" => owner' = op.owner
  BY DEF OperationCompletes, Performs
<1>2. op # NoOp
  BY <1>1 DEF NoOp
<1>3. op.owner \in Tasks /\ \A t \in Tasks : Active(t) => t = op.owner
  BY <1>1, <1>2 DEF OwnerInv, Shape, Alone, Waits
<1>4. \A t \in Tasks : Active(t)' <=> Active(t)
  BY <1>1 DEF Active
<1>5. CASE at' = "main" /\ turn' = 1
           /\ \A t \in Tasks : Position(t) >= 1 => task'[t].state = "IDLE"
  <2>1. \A t \in Tasks : ~Active(t)
    <3> SUFFICES ASSUME NEW t \in Tasks PROVE ~Active(t)
      OBVIOUS
    <3>1. Position(t) \in 1..5
      BY 1 \in 1..5, TurnFacts
    <3> QED BY <1>1, <1>5, <3>1 DEF Active
  <2> QED BY <1>1, <1>4, <1>5, <2>1 DEF OwnerInv, Shape, Alone, Active
<1>6. CASE at' = "called" /\ turn' \in 1..5 /\ task'[Order[turn']].state # "IDLE"
  <2>1. Order[turn'] \in Tasks /\ Position(Order[turn']) = turn'
    BY <1>6, TurnFacts
  <2>2. Order[turn'] = op.owner
    BY <1>1, <1>3, <1>6, <2>1 DEF Active
  <2>3. Turn' = op.owner /\ owner' = Turn' /\ Active(op.owner)
    BY <1>1, <1>3, <1>6, <2>1, <2>2 DEF Turn, Active
  <2>4. Active(Turn)' /\ Answered'
    BY <1>1, <1>4, <1>6, <2>1, <2>3 DEF Answered, Active, Turn
  <2>5. Shape'
    BY <1>1, <1>4, <1>6 DEF OwnerInv, Shape, Active
  <2>6. owner' \in Tasks /\ Position(owner)' <= turn'
    BY <1>6, <2>1, <2>2, <2>3
  <2> QED BY <1>3, <1>4, <1>6, <2>3, <2>4, <2>5, <2>6 DEF OwnerInv, Alone
<1> QED BY <1>1, <1>5, <1>6, DispatchGoesOn

LEMMA OwnerProgress ==
  ASSUME OwnerInv, ReportProgress
  PROVE  OwnerInv'
<1>1. at = "called" /\ at' = "progress" /\ UNCHANGED <<op, task, turn, owner>>
  BY DEF ReportProgress
<1>2. Turn' = Turn /\ \A t \in Tasks : (Active(t)' <=> Active(t))
                                    /\ (Waits(t)' <=> Waits(t))
  BY <1>1 DEF Turn, Active, Waits
<1>3. Turn \in Tasks
  BY ShapeFacts DEF OwnerInv
<1>4. Shape'
  BY <1>1, <1>2 DEF OwnerInv, Shape, Active
<1>5. (Answered => Answered') /\ (Strayed => Strayed')
  BY <1>1, <1>2, <1>3 DEF Answered, Strayed
<1> QED BY <1>1, <1>2, <1>3, <1>4, <1>5 DEF OwnerInv, Alone

\* A task started in the callback that comes after the one that has ended is
\* handed the same result.
LEMMA OwnerReturn ==
  ASSUME OwnerInv, Return
  PROVE  OwnerInv'
<1>1. /\ at = "complete" /\ task' = task /\ op' = op
      /\ DispatchFrom(turn + 1) /\ turn \in 1..5 /\ turn + 1 \in 1..6
      /\ at' = "called" => owner' = owner
  BY DEF Return, NextTurn, OwnerInv, Shape
<1>2. /\ \A t \in Tasks : Active(t)' => Waits(t)'
      /\ owner \in Tasks /\ Position(owner) <= turn
  BY <1>1 DEF OwnerInv, Alone, Active, Waits
<1>3. CASE at' = "main" /\ turn' = 1
  <2>1. Shape'
    BY <1>1, <1>3 DEF OwnerInv, Shape, Active
  <2> QED BY <1>2, <1>3, <2>1 DEF OwnerInv, Alone
<1>4. CASE /\ at' = "called" /\ turn' \in turn + 1..5
           /\ task'[Order[turn']].state # "IDLE"
  <2>1. turn' \in 1..5 /\ turn < turn'
    BY <1>1, <1>4
  <2>2. Turn' \in Tasks /\ Position(Turn') = turn' /\ Active(Turn)'
    BY <1>4, <2>1, TurnFacts DEF Turn, Active
  <2>3. Position(owner) \in 1..5 /\ Position(owner) < turn'
    BY <1>1, <1>2, <2>1, TurnFacts
  <2>4. Strayed'
    BY <1>1, <1>2, <1>4, <2>2, <2>3 DEF Strayed
  <2>5. Shape'
    BY <1>1, <1>4, <2>1 DEF OwnerInv, Shape, Active
  <2> QED BY <1>1, <1>2, <1>4, <2>2, <2>3, <2>4, <2>5 DEF OwnerInv, Alone
<1> QED BY <1>1, <1>3, <1>4, DispatchGoesOn

LEMMA OwnerNext ==
  ASSUME OwnerInv, [Next]_vars
  PROVE  OwnerInv'
<1>1. CASE StartTask
  BY <1>1, OwnerStartTask
<1>2. CASE EnterServiceMode \/ ExitServiceMode \/ PowerOn \/ PowerOff
  BY <1>2, OwnerSame
  DEF EnterServiceMode, ExitServiceMode, PowerOn, PowerOff, Control, call
<1>3. CASE PageSet
  BY <1>3, OwnerPageSet
<1>4. CASE OperationCompletes
  BY <1>4, OwnerCompletes
<1>5. CASE ReportProgress
  BY <1>5, OwnerProgress
<1>6. CASE PrimitiveComplete
  BY <1>6, OwnerHandler
<1>7. CASE Return
  BY <1>7, OwnerReturn
<1>8. CASE UNCHANGED vars
  BY <1>8, OwnerSame DEF vars, call
<1> QED BY <1>1, <1>2, <1>3, <1>4, <1>5, <1>6, <1>7, <1>8 DEF Next, Dispatch

\* A result is acted on by the task whose primitive it answers, and between two
\* results a busy task waits for the operation in progress: "only the
\* orchestrator that is mid-operation acts on it" (dcc_config.c,
\* _service_task_primitive_complete), but for a task that was started while the
\* result was passed on.  For every decoder and every width, whatever the
\* application calls from its callbacks.
THEOREM ResultsReachTheirTask ==
  Spec => []OnlyOwnerActs
<1>1. Init => OwnerInv
  BY OwnerInit
<1>2. OwnerInv /\ [Next]_vars => OwnerInv'
  BY OwnerNext
<1>3. OwnerInv => OnlyOwnerActs
  BY DEF OwnerInv, Alone, Answered, Strayed, OnlyOwnerActs, Active
<1> QED BY <1>1, <1>2, <1>3, PTL DEF Spec
=============================================================================
