------------------------------- MODULE Machine ------------------------------
(***************************************************************************)
(* The machine that the realtime executor of grblHAL drives: the system    *)
(* record `sys`, the statics of state_machine.c, and what is left of the   *)
(* planner and of the stepper driver once distances and speeds are         *)
(* forgotten.  Every operator maps a machine to the machine a C function   *)
(* leaves behind, so that a handler that calls state_set() twice is the    *)
(* composition of two operators.  How much st_prep_buffer() prepares       *)
(* depends on distances and speeds: it, and what calls it before waking    *)
(* the steppers up, maps a machine to the set of those it may leave.       *)
(*                                                                         *)
(* Settings: parking, sleep, homing and tool change are off, hard limits,  *)
(* soft limits and the door switch are on, E-stop may be unlocked (the     *)
(* defaults of config.h, with the limits enabled), and restoring spindle   *)
(* and coolant takes no time.                                              *)
(***************************************************************************)
EXTENDS Naturals

CONSTANTS MaxSeg,    \* segments the step segment ring holds
          MaxBlk     \* blocks the planner ring holds

ASSUME MaxSegAssumption == MaxSeg \in Nat /\ MaxSeg >= 1
ASSUME MaxBlkAssumption == MaxBlk \in Nat /\ MaxBlk >= 1

\* sys_state_t
States == {"IDLE", "CYCLE", "HOLD", "JOG", "DOOR", "ALARM", "ESTOP"}
Locked == {"ALARM", "ESTOP"}

\* EXEC_* bits of sys.rt_exec_state
Flags == {"RESET", "STOP", "CYCLE_START", "CYCLE_COMPLETE", "FEED_HOLD",
          "MOTION_CANCEL", "SAFETY_DOOR", "DOOR_CLOSED"}

\* alarm_code_t
Alarms == {"None", "HardLimit", "SoftLimit", "AbortCycle", "EStop", "ProbeProtect"}

\* alarm_is_critical
Critical == {"HardLimit", "SoftLimit", "EStop"}

HoldStates == {"NotHolding", "Pending", "Complete"}            \* hold_state_t
ParkingStates == {"DoorClosed", "DoorAjar", "Retracting"}      \* parking_state_t
Profiles == {"none", "normal", "decel"}

Handlers == {"idle", "cycle", "await_motion_cancel", "await_hold",
             "await_resume", "noop"}

Machines ==
    [st : States,                 \* sys_state
     handler : Handlers,          \* stateHandler
     pending : States,            \* pending_state
     rtx : SUBSET Flags,          \* sys.rt_exec_state
     rta : Alarms,                \* sys.rt_exec_alarm
     alarm : Alarms,              \* sys.alarm
     alarmPending : Alarms,       \* sys.alarm_pending
     abort : BOOLEAN, cancel : BOOLEAN, suspend : BOOLEAN,
     positionLost : BOOLEAN, resetPending : BOOLEAN, blocking : BOOLEAN,
     softLimit : BOOLEAN,         \* sys.flags.soft_limit
     endMotion : BOOLEAN, execHold : BOOLEAN,   \* sys.step_control
     holding : HoldStates,
     parking : ParkingStates,
     stepping : BOOLEAN,          \* stepper.c: the step timer runs
     exec : BOOLEAN,              \* stepper.c: st.exec_block # NULL
     seg : 0..MaxSeg,             \* segments prepared and not yet loaded
     blk : 0..MaxBlk,             \* blocks in the planner
     plb : Profiles,   \* pl_block and its velocity profile
     bad : BOOLEAN]               \* history: an out-of-limits block is planned

PowerUp ==
    [st |-> "IDLE", handler |-> "idle", pending |-> "IDLE", rtx |-> {},
     rta |-> "None", alarm |-> "None", alarmPending |-> "None",
     abort |-> FALSE, cancel |-> FALSE, suspend |-> FALSE,
     positionLost |-> FALSE, resetPending |-> FALSE, blocking |-> FALSE,
     softLimit |-> FALSE, endMotion |-> FALSE, execHold |-> FALSE,
     holding |-> "NotHolding", parking |-> "DoorClosed",
     stepping |-> FALSE, exec |-> FALSE, seg |-> 0, blk |-> 0,
     plb |-> "none", bad |-> FALSE]

\* ABORTED
Aborted(m) == m.abort \/ m.cancel

Flag(m, f) == [m EXCEPT !.rtx = @ \cup {f}]

-----------------------------------------------------------------------------
(* planner.c and stepper.c                                                 *)

PlanReset(m) == [m EXCEPT !.blk = 0, !.bad = FALSE]

\* Mutant of StReset: the block being prepared is kept.
StResetKeeps(m) == [m EXCEPT !.stepping = FALSE, !.exec = FALSE, !.seg = 0]

StReset(m) == [m EXCEPT !.stepping = FALSE, !.exec = FALSE, !.seg = 0, !.plb = "none"]

\* st_is_stepping
IsStepping(m) == m.stepping /\ m.exec

\* st_update_plan_block_parameters(false), plan_cycle_reinitialize: the
\* velocity profile of the block being prepared is computed again.
Replan(m) == [m EXCEPT !.plb = "none"]

\* Mutant of CanPrep: a full segment ring is not noticed.
CanPrepOverrun(m) == ~m.endMotion /\ (m.plb # "none" \/ m.blk > 0)

\* The guards of the loop of st_prep_buffer.
CanPrep(m) == /\ ~m.endMotion
              /\ m.seg < MaxSeg
              /\ m.plb # "none" \/ m.blk > 0

\* The profile st_prep_buffer uses for its next segment.
Profile(m) == IF m.plb # "none" THEN m.plb
              ELSE IF m.execHold THEN "decel" ELSE "normal"

\* One segment that ends neither its block nor a forced deceleration.
PrepSegment(m) == [m EXCEPT !.seg = @ + 1, !.plb = Profile(m)]

\* How the loop of st_prep_buffer may end: between two blocks or within one with
\* the ring full, with no block left (the finished ones are discarded), or at the
\* end of a forced deceleration, which needs no last segment.
PrepEnds(m, r) ==
    LET new == r.seg - m.seg
        used == m.blk - r.blk
        profile == Profile(IF used = 0 THEN m ELSE Replan(m))
    IN  \/ /\ r.plb = "none" /\ ~r.endMotion
           /\ used \in 1..new
           /\ r.seg = MaxSeg \/ r.blk = 0
        \/ /\ r.plb = profile /\ ~r.endMotion /\ r.blk > 0
           /\ used < new /\ r.seg = MaxSeg
        \/ /\ r.plb = profile /\ profile = "decel" /\ r.endMotion /\ r.blk > 0
           /\ used < new \/ (m.execHold /\ used = new /\ r.seg < MaxSeg)

\* What st_prep_buffer may leave of the rings and of its own state.
Prepared(m) ==
    {r \in [seg : m.seg..MaxSeg, blk : 0..m.blk, plb : Profiles, endMotion : BOOLEAN] :
        PrepEnds(m, r)}

\* The machines that st_prep_buffer may leave.
PrepBuffer(m) ==
    IF ~CanPrep(m) THEN {m}
    ELSE {[m EXCEPT !.seg = r.seg, !.blk = r.blk, !.plb = r.plb, !.endMotion = r.endMotion,
                    !.bad = @ /\ r.blk > 0] : r \in Prepared(m)}

-----------------------------------------------------------------------------
(* state_machine.c: state_set, one operator per new state.                 *)

\* The common end of state_set.
ClearAlarm(m) == IF m.st \in Locked THEN m ELSE [m EXCEPT !.alarm = "None"]

\* Mutant of SetIdle: the suspend state is not broken.
SetIdleSuspended(m) ==
    IF m.st = "IDLE" THEN m
    ELSE [m EXCEPT !.st = "IDLE", !.pending = "IDLE", !.handler = "idle",
                   !.endMotion = FALSE, !.execHold = FALSE,
                   !.parking = "DoorClosed", !.holding = "NotHolding",
                   !.alarm = "None"]

SetIdle(m) ==
    IF m.st = "IDLE" THEN m
    ELSE [m EXCEPT !.st = "IDLE", !.pending = "IDLE", !.handler = "idle",
                   !.suspend = FALSE, !.endMotion = FALSE, !.execHold = FALSE,
                   !.parking = "DoorClosed", !.holding = "NotHolding",
                   !.alarm = "None"]

\* Mutant of SetCycle: nobody asks whether there is a block.
SetCycleEmpty(m) ==
    IF m.st = "IDLE"
    THEN {[p EXCEPT !.handler = "cycle", !.stepping = TRUE, !.alarm = "None"] :
             p \in PrepBuffer([m EXCEPT !.st = "CYCLE"])}
    ELSE {ClearAlarm(m)}

\* A cycle starts from IDLE only, and only with a block to execute.
SetCycle(m) ==
    IF m.st = "IDLE" /\ m.blk > 0
    THEN {[p EXCEPT !.handler = "cycle", !.stepping = TRUE, !.alarm = "None"] :
             p \in PrepBuffer([m EXCEPT !.st = "CYCLE"])}
    ELSE {ClearAlarm(m)}

SetJog(m) == [m EXCEPT !.st = "JOG", !.handler = "cycle", !.alarm = "None"]

\* Mutant of SetLocked: the handler of the state before stays in place.
SetLockedHandler(m, s) ==
    IF m.st = s THEN m ELSE [m EXCEPT !.st = s, !.suspend = FALSE]

\* STATE_ALARM and STATE_ESTOP
SetLocked(m, s) ==
    IF m.st = s THEN m
    ELSE [m EXCEPT !.st = s, !.suspend = FALSE, !.handler = "noop"]

\* initiate_hold: a moving machine starts to decelerate.
InitiateHold(m, new) ==
    LET held == [m EXCEPT !.suspend = ~m.softLimit,
                          !.pending = IF m.st = "JOG" THEN new ELSE "IDLE",
                          !.holding = IF new = "HOLD" THEN "Pending" ELSE @,
                          !.parking = IF new = "HOLD" THEN @ ELSE "Retracting"]
    IN  IF m.st \in {"CYCLE", "JOG"}
        THEN [Replan(held) EXCEPT !.execHold = TRUE, !.handler = "await_hold"]
        ELSE held

\* Mutant of SetHold: every hold is complete at once.
SetHoldAtOnce(m) ==
    IF m.st \in {"HOLD", "JOG"} THEN ClearAlarm(m)
    ELSE [InitiateHold(m, "HOLD") EXCEPT !.st = "HOLD", !.alarm = "None",
                               !.holding = "Complete", !.handler = "await_resume"]

\* Jogging ignores feed hold.
SetHold(m) ==
    IF m.st \in {"HOLD", "JOG"} THEN ClearAlarm(m)
    ELSE LET held == InitiateHold(m, "HOLD")
         IN  IF m.st = "CYCLE" THEN [held EXCEPT !.st = "HOLD", !.alarm = "None"]
             ELSE [held EXCEPT !.st = "HOLD", !.alarm = "None",
                               !.holding = "Complete", !.handler = "await_resume"]

\* state_await_hold(EXEC_CYCLE_COMPLETE): the machine has come to a stop.
HoldComplete(m, ajar) ==
    LET stopped == [Replan(m) EXCEPT
                       !.endMotion = FALSE, !.execHold = FALSE,
                       !.rta = IF m.alarmPending # "None" THEN m.alarmPending ELSE @,
                       !.parking = IF m.st # "DOOR" THEN @
                                   ELSE IF ajar THEN "DoorAjar" ELSE "DoorClosed"]
    IN  IF m.softLimit THEN SetIdle(stopped)
        ELSE [stopped EXCEPT !.holding = "Complete", !.handler = "await_resume"]

\* A machine that is not in a cycle is taken to be stopped already; a jog
\* keeps its state until its deceleration ends.
SetDoor(m, ajar) ==
    IF m.st \in {"DOOR", "ALARM", "ESTOP"} THEN m
    ELSE LET held == InitiateHold(m, "DOOR")
         IN  ClearAlarm(IF m.st = "CYCLE" THEN [held EXCEPT !.st = "DOOR"]
                        ELSE IF held.pending # "DOOR"
                             THEN HoldComplete([held EXCEPT !.st = "DOOR"], ajar)
                             ELSE held)

-----------------------------------------------------------------------------
(* state_machine.c: the handlers of realtime requests; those that may start *)
(* a cycle map a machine to a set.                                          *)

HandleIdle(m, rt) ==
    LET started == IF "CYCLE_START" \in rt THEN SetCycle(m) ELSE {m}
    IN  IF "FEED_HOLD" \in rt THEN {SetHold(s) : s \in started} ELSE started

HandleCycle(m, rt) ==
    LET ended == IF "CYCLE_COMPLETE" \in rt THEN SetIdle(m) ELSE m
        cancelled ==
            IF "MOTION_CANCEL" \notin rt THEN ended
            ELSE [Replan(ended) EXCEPT !.suspend = TRUE, !.execHold = TRUE,
                                       !.handler = "await_motion_cancel"]
    IN  IF rt = {"CYCLE_START"} THEN m
        ELSE IF "FEED_HOLD" \in rt THEN SetHold(cancelled) ELSE cancelled

\* Mutant of HandleMotionCancel: the planner is not reset.
HandleMotionCancelKeeps(m, rt, ajar) ==
    IF "CYCLE_COMPLETE" \notin rt THEN m
    ELSE LET reset == IF m.st # "JOG" THEN m
                      ELSE [StReset(m) EXCEPT
                               !.endMotion = FALSE, !.execHold = FALSE, !.suspend = FALSE]
             set == IF reset.pending = "DOOR" THEN SetDoor(reset, ajar) ELSE SetIdle(reset)
         IN  IF set.alarmPending # "None" THEN [set EXCEPT !.rta = set.alarmPending] ELSE set

\* pending_state is IDLE here, or DOOR when the door opened during a jog.
HandleMotionCancel(m, rt, ajar) ==
    IF "CYCLE_COMPLETE" \notin rt THEN m
    ELSE LET reset == IF m.st # "JOG" THEN m
                      ELSE [StReset(PlanReset(m)) EXCEPT
                               !.endMotion = FALSE, !.execHold = FALSE, !.suspend = FALSE]
             set == IF reset.pending = "DOOR" THEN SetDoor(reset, ajar) ELSE SetIdle(reset)
         IN  IF set.alarmPending # "None" THEN [set EXCEPT !.rta = set.alarmPending] ELSE set

\* "Restart cycle" in state_await_resume: step_control survives state_set.
RestartCycle(m) ==
    SetCycle([SetIdle(m) EXCEPT !.endMotion = m.endMotion, !.execHold = m.execHold])

\* Without parking motion, state_restore and state_await_resumed follow at
\* once, and the common restart of state_await_resume comes after them: it
\* finds no block, and leaves the machine in IDLE, when the first start has
\* used up the last one.
DoorResume(m) == UNION {RestartCycle(c) : c \in SetCycle(SetIdle(m))}

HandleResume(m, rt, ajar) ==
    IF "SAFETY_DOOR" \in rt
    THEN {[m EXCEPT !.parking = IF ajar THEN "DoorAjar" ELSE "DoorClosed"]}
    ELSE IF "CYCLE_START" \in rt
    THEN IF m.st # "DOOR" THEN RestartCycle(m) ELSE IF ajar THEN {m} ELSE DoorResume(m)
    ELSE IF "DOOR_CLOSED" \in rt /\ ~ajar THEN {[m EXCEPT !.parking = "DoorClosed"]}
    ELSE {m}

\* stateHandler(rt_exec)
Handle(m, rt, ajar) ==
    CASE m.handler = "idle" -> HandleIdle(m, rt)
      [] m.handler = "cycle" -> {HandleCycle(m, rt)}
      [] m.handler = "await_motion_cancel" -> {HandleMotionCancel(m, rt, ajar)}
      [] m.handler = "await_hold" ->
            {IF "CYCLE_COMPLETE" \in rt THEN HoldComplete(m, ajar) ELSE m}
      [] m.handler = "await_resume" -> HandleResume(m, rt, ajar)
      [] m.handler = "noop" -> {m}

StateUpdate(m, rt, ajar) ==
    Handle(IF "SAFETY_DOOR" \in rt /\ m.st # "DOOR" THEN SetDoor(m, ajar) ELSE m,
           rt, ajar)

-----------------------------------------------------------------------------
(* system.c and motion_control.c                                           *)

\* system_raise_alarm: a second alarm waits while a critical one blocks.
RaiseAlarm(m, a) ==
    IF m.alarm = a THEN m
    ELSE IF m.st = "ESTOP" \/ m.blocking THEN [m EXCEPT !.alarmPending = a]
    ELSE SetLocked([m EXCEPT !.alarm = a,
                             !.alarmPending = IF @ = a THEN "None" ELSE @,
                             !.blocking = a \in Critical],
                   IF a = "EStop" THEN "ESTOP" ELSE "ALARM")

\* The motion states in which mc_reset kills the steppers.
InMotion(m) == m.st \in {"CYCLE", "JOG"} \/ m.execHold

\* Mutant of McReset: a reset during a hold deceleration is a clean one.
McResetIgnoresHold(m, estop) ==
    IF "RESET" \in m.rtx THEN m
    ELSE IF m.resetPending \/ m.blocking THEN Flag(m, "RESET")
    ELSE LET moving == m.st \in {"CYCLE", "JOG"}
         IN  [Flag(m, "RESET") EXCEPT
                 !.positionLost = moving,
                 !.stepping = @ /\ ~moving,
                 !.rta = IF estop THEN "EStop" ELSE IF moving THEN "AbortCycle" ELSE @]

\* mc_reset, called from interrupts and from limits_soft_check.
McReset(m, estop) ==
    IF "RESET" \in m.rtx THEN m
    ELSE IF m.resetPending \/ m.blocking THEN Flag(m, "RESET")
    ELSE [Flag(m, "RESET") EXCEPT
             !.positionLost = InMotion(m),
             !.stepping = @ /\ ~InMotion(m),
             !.rta = IF estop THEN "EStop" ELSE IF InMotion(m) THEN "AbortCycle" ELSE @]

\* The initialization loop of grbl_enter up to protocol_main_loop.
Reinitialize(m) ==
    LET cleared == [m EXCEPT
            !.abort = FALSE, !.cancel = FALSE, !.suspend = FALSE,
            !.positionLost = FALSE, !.resetPending = FALSE, !.blocking = FALSE,
            !.softLimit = FALSE, !.endMotion = FALSE, !.execHold = FALSE,
            !.parking = "DoorClosed", !.holding = "NotHolding",
            !.rtx = {}, !.rta = "None"]
        reset == StReset(PlanReset(cleared))
    IN  IF m.st = "ESTOP" THEN SetLocked(reset, "ALARM") ELSE reset
=============================================================================
