---------------------------- MODULE MCScheduler -----------------------------
(***************************************************************************)
(* Small instances of DccScheduler.                                        *)
(***************************************************************************)
EXTENDS DccScheduler

\* DCC_PRIORITY_ESTOP .. DCC_PRIORITY_CV
ESTOP    == 0
SPEED    == 1
FUNCTION == 2
CV       == 4

Refresh(a, t, p) == [address |-> a, tag |-> t, priority |-> p,
                     auto_refresh |-> TRUE, repeat_count |-> 2]
OneShot(a, t, p, n) == [address |-> a, tag |-> t, priority |-> p,
                        auto_refresh |-> FALSE, repeat_count |-> n]

\* A throttle on an ordinary address, a throttle and a one-shot on an address
\* that aliases a service-mode command, and an emergency stop that replaces
\* the throttle's slot.
MixedCommands == {Refresh(3, "SPEED", SPEED), Refresh(112, "SPEED", SPEED),
                  OneShot(112, "CV", CV, 2), OneShot(3, "SPEED", ESTOP, 1),
                  OneShot(3, "CV", CV, 0)}
\* From the hook, a command replaced by one of the same key, also while its slot
\* is being charged.
HookInserts == {Refresh(112, "SPEED", SPEED), OneShot(112, "CV", CV, 2)}

\* Three refresh commands, one of them for an aliasing address.
RefreshCommands == {Refresh(3, "SPEED", SPEED), Refresh(3, "FUNC_GROUP_1", FUNCTION),
                    Refresh(112, "SPEED", SPEED)}

\* A throttle and a function group of one locomotive at address 112.
AliasingCommands == {Refresh(112, "SPEED", SPEED), Refresh(112, "FUNC_GROUP_1", FUNCTION)}
=============================================================================
