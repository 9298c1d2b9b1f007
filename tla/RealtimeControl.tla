-------------------------- MODULE RealtimeControl ---------------------------
(***************************************************************************)
(* Realtime control in grblHAL: the main loop of protocol.c, the realtime  *)
(* executor it calls at every check point, and the interrupts that ask it  *)
(* for something.  The main thread is one process with a program counter;  *)
(* every interrupt handler is one step, which may come between any two     *)
(* steps of the main thread.  The executor is a subroutine: "site" is its  *)
(* call site, and "inSusp" tells that it is running inside                 *)
(* protocol_exec_rt_suspend().  What the C functions do to the machine is  *)
(* in module Machine.                                                      *)
(***************************************************************************)
EXTENDS Machine

CONSTANTS Inputs,      \* the inputs that occur
          LineKinds,   \* the lines the stream delivers
          MaxEvents,   \* bound: how many inputs occur
          MaxLines     \* bound: how many lines arrive

AllInputs == {"reset", "stop", "hold", "start", "jogCancel", "door", "doorCommand",
              "estop", "limit", "probe"}
AllKinds == {"move", "bad", "jog", "sync", "unlock"}

ASSUME InputsAssumption == Inputs \subseteq AllInputs
ASSUME LineKindsAssumption == LineKinds \subseteq AllKinds
ASSUME BoundsAssumption == MaxEvents \in Nat /\ MaxLines \in Nat

VARIABLES m,        \* the machine
          pc,       \* the main thread
          site,     \* who called protocol_execute_realtime
          inSusp,   \* inside protocol_exec_rt_suspend
          rt,       \* rt_exec: the requests taken from sys.rt_exec_state
          kind,     \* the line being executed
          estop, ajar,      \* the E-stop and door switches
          events, lines     \* inputs and lines that may still come

executor == <<site, inSusp, rt>>
pins == <<estop, ajar>>
vars == <<m, pc, executor, kind, pins, events, lines>>

Pcs == {"init", "startup", "started", "read", "loopend", "softreset", "jogwake", "endline",
        "alarm", "critical", "fetch", "exec", "stopping", "stopped", "prep", "ret",
        "susp", "back"}
Sites == {"door", "eol", "loop", "soft", "softend", "line", "wait", "sync"}

\* The machine is powered up with its switches in any position.
Init == /\ m = PowerUp
        /\ pc = "init" /\ site = "loop" /\ inSusp = FALSE /\ rt = {}
        /\ kind = "move"
        /\ estop \in BOOLEAN /\ ajar \in BOOLEAN
        /\ events = MaxEvents /\ lines = MaxLines

Goto(l) == pc' = l /\ UNCHANGED executor

\* protocol_execute_realtime() is called from s.
Call(s) == pc' = "alarm" /\ site' = s /\ UNCHANGED <<inSusp, rt>>

\* protocol_auto_cycle_start
AutoCycleStart == IF ~Aborted(m) /\ m.blk > 0 THEN Flag(m, "CYCLE_START") ELSE m

-----------------------------------------------------------------------------
(* grbl_enter and protocol_main_loop                                       *)

\* One turn of the initialization loop.
Reinit == /\ pc = "init"
          /\ m' = Reinitialize(m)
          /\ Goto("startup")
          /\ UNCHANGED <<kind, pins, events, lines>>

\* What protocol_main_loop does once.
StartupEstop == /\ pc = "startup" /\ estop
                /\ m' = RaiseAlarm(m, "EStop")
                /\ Goto("read")
                /\ UNCHANGED <<kind, pins, events, lines>>

StartupLocked == /\ pc = "startup" /\ ~estop /\ m.st = "ALARM"
                 /\ Goto("read")
                 /\ UNCHANGED <<m, kind, pins, events, lines>>

StartupDoor == /\ pc = "startup" /\ ~estop /\ m.st # "ALARM" /\ ajar
               /\ m' = Flag(SetIdle(m), "SAFETY_DOOR")
               /\ Call("door")
               /\ UNCHANGED <<kind, pins, events, lines>>

StartupIdle == /\ pc = "startup" /\ ~estop /\ m.st # "ALARM" /\ ~ajar
               /\ m' = SetIdle(m)
               /\ Goto("started")
               /\ UNCHANGED <<kind, pins, events, lines>>

\* An alarm that was pending is raised before the loop starts.
Started == /\ pc = "started" \/ (pc = "back" /\ site = "door")
           /\ m' = IF m.alarmPending # "None" THEN RaiseAlarm(m, m.alarmPending) ELSE m
           /\ Goto("read")
           /\ UNCHANGED <<kind, pins, events, lines>>

\* The end of a line is read: a check point comes before its execution.
ReadLine(k) == /\ pc = "read" /\ lines > 0
               /\ kind' = k /\ lines' = lines - 1
               /\ Call("eol")
               /\ UNCHANGED <<m, pins, events>>

\* Mutant of LoopEnd: what is planned is not started.
LoopEndIdles == /\ pc \in {"read", "loopend"}
                /\ Call("loop")
                /\ UNCHANGED <<m, kind, pins, events, lines>>

\* Nothing (more) to read in this turn.
LoopEnd == /\ pc \in {"read", "loopend"}
           /\ m' = AutoCycleStart
           /\ Call("loop")
           /\ UNCHANGED <<kind, pins, events, lines>>

\* Mutant of LoopAgain: the abort is not looked at.
LoopAgainAborted == /\ pc = "back" /\ site = "loop"
                    /\ m' = [m EXCEPT !.cancel = FALSE] /\ Goto("read")
                    /\ UNCHANGED <<kind, pins, events, lines>>

LoopAgain == /\ pc = "back" /\ site = "loop"
             /\ IF m.abort THEN m' = m /\ Goto("init")
                ELSE m' = [m EXCEPT !.cancel = FALSE] /\ Goto("read")
             /\ UNCHANGED <<kind, pins, events, lines>>

-----------------------------------------------------------------------------
(* One line: system_execute_line, gc_execute_block, mc_line.               *)

AbortedAtEol == /\ pc = "back" /\ site = "eol" /\ Aborted(m)
                /\ Goto("init")
                /\ UNCHANGED <<m, kind, pins, events, lines>>

AtLine(k) == pc = "back" /\ site = "eol" /\ ~Aborted(m) /\ kind = k

\* $X: disable_lock and check_status.
Unlock == /\ AtLine("unlock")
          /\ m' = IF m.blocking \/ m.st \notin Locked \/ estop \/ ajar THEN m
                  ELSE LET idle == SetIdle(m)
                       IN  IF idle.alarmPending = "None" THEN idle
                           ELSE RaiseAlarm(idle, idle.alarmPending)
          /\ Goto("endline")
          /\ UNCHANGED <<kind, pins, events, lines>>

\* $J=
JogLine == /\ AtLine("jog")
           /\ IF m.st \in {"IDLE", "JOG"} /\ ~m.blocking THEN Call("line") ELSE Goto("endline")
           /\ UNCHANGED <<m, kind, pins, events, lines>>

GcodeLocked == m.st \in {"ALARM", "ESTOP", "JOG"}

RejectLine == /\ \E k \in {"move", "bad", "sync"} : AtLine(k)
              /\ GcodeLocked
              /\ Goto("endline")
              /\ UNCHANGED <<m, kind, pins, events, lines>>

MoveLine == /\ AtLine("move") /\ ~GcodeLocked
            /\ Call("line")
            /\ UNCHANGED <<m, kind, pins, events, lines>>

SyncLine == /\ AtLine("sync") /\ ~GcodeLocked
            /\ m' = AutoCycleStart
            /\ Call("sync")
            /\ UNCHANGED <<kind, pins, events, lines>>

SyncWait == /\ pc = "back" /\ site = "sync"
            /\ IF ~Aborted(m) /\ (m.blk > 0 \/ m.st = "CYCLE") THEN Call("sync")
               ELSE Goto("endline")
            /\ UNCHANGED <<m, kind, pins, events, lines>>

\* Mutant of BadLine: the violation is noted, and the line goes on.
BadLineGoesOn == /\ AtLine("bad") /\ ~GcodeLocked
                 /\ m' = [m EXCEPT !.softLimit = TRUE]
                 /\ Call("line")
                 /\ UNCHANGED <<kind, pins, events, lines>>

\* limits_soft_check with a target out of limits: hold a running cycle first.
BadLine == /\ AtLine("bad") /\ ~GcodeLocked
           /\ LET limited == [m EXCEPT !.softLimit = TRUE]
              IN  IF m.st = "CYCLE" THEN m' = Flag(limited, "FEED_HOLD") /\ Call("soft")
                  ELSE m' = limited /\ Goto("softreset")
           /\ UNCHANGED <<kind, pins, events, lines>>

SoftWait == /\ pc = "back" /\ site = "soft"
            /\ IF Aborted(m) THEN Call("line")
               ELSE IF m.st # "IDLE" THEN Call("soft") ELSE Goto("softreset")
            /\ UNCHANGED <<m, kind, pins, events, lines>>

SoftReset == /\ pc = "softreset"
             /\ m' = [McReset(m, estop) EXCEPT !.rta = "SoftLimit"]
             /\ Call("softend")
             /\ UNCHANGED <<kind, pins, events, lines>>

SoftEnd == /\ pc = "back" /\ site = "softend"
           /\ Call("line")
           /\ UNCHANGED <<m, kind, pins, events, lines>>

\* mc_line: a first check point, then one for every wait on a full planner.
LineStart == /\ pc = "back" /\ site = "line"
             /\ IF Aborted(m) THEN Goto("endline") ELSE Call("wait")
             /\ UNCHANGED <<m, kind, pins, events, lines>>

PlanAborted == /\ pc = "back" /\ site = "wait" /\ Aborted(m)
               /\ Goto("endline")
               /\ UNCHANGED <<m, kind, pins, events, lines>>

PlanWait == /\ pc = "back" /\ site = "wait" /\ ~Aborted(m) /\ m.blk = MaxBlk
            /\ m' = AutoCycleStart
            /\ Call("wait")
            /\ UNCHANGED <<kind, pins, events, lines>>

\* plan_buffer_line; a jog starts the machine by hand when it is idle.
PlanBlock == /\ pc = "back" /\ site = "wait" /\ ~Aborted(m) /\ m.blk < MaxBlk
             /\ LET planned == [m EXCEPT !.blk = @ + 1, !.bad = @ \/ kind = "bad"]
                IN  IF kind = "jog" /\ m.st = "IDLE"
                    THEN m' \in PrepBuffer(SetJog(planned)) /\ Goto("jogwake")
                    ELSE m' = planned /\ Goto("endline")
             /\ UNCHANGED <<kind, pins, events, lines>>

\* st_wake_up
JogWake == /\ pc = "jogwake"
           /\ m' = [m EXCEPT !.stepping = TRUE]
           /\ Goto("endline")
           /\ UNCHANGED <<kind, pins, events, lines>>

EndLine == /\ pc = "endline"
           /\ Goto(IF Aborted(m) THEN "loopend" ELSE "read")
           /\ UNCHANGED <<m, kind, pins, events, lines>>

-----------------------------------------------------------------------------
(* protocol_exec_rt_system and protocol_exec_rt_suspend                    *)

\* Where protocol_exec_rt_system returns to, with a result the suspend loop
\* ignores: false ends protocol_execute_realtime.
ReturnFalse == pc' = IF inSusp THEN "susp" ELSE "back"
ReturnTrue == pc' = IF inSusp THEN "susp" ELSE "ret"

Quiet == m.rta = "None"

NoAlarm == /\ pc = "alarm" /\ Quiet
           /\ Goto("fetch")
           /\ UNCHANGED <<m, kind, pins, events, lines>>

ExecAlarm ==
    /\ pc = "alarm" /\ ~Quiet
    /\ LET raised == RaiseAlarm([m EXCEPT !.rta = "None",
                                          !.resetPending = "RESET" \in m.rtx], m.rta)
       IN  IF m.rta \in Critical
           THEN /\ m' = [raised EXCEPT !.blocking = TRUE, !.rta = m.rta,
                                       !.rtx = @ \ {"RESET"}]
                /\ Goto("critical")
           ELSE m' = [raised EXCEPT !.blocking = FALSE] /\ Goto("fetch")
    /\ UNCHANGED <<kind, pins, events, lines>>

\* Everything but a reset is ignored, and a reset while E-stop is asserted.
CriticalLoop ==
    /\ pc = "critical"
    /\ IF "RESET" \in m.rtx /\ ~estop
       THEN m' = [m EXCEPT !.abort = TRUE, !.rta = "None"] /\ ReturnFalse
       ELSE m' = [m EXCEPT !.abort = "RESET" \in m.rtx] /\ UNCHANGED pc
    /\ UNCHANGED <<executor, kind, pins, events, lines>>

\* system_clear_exec_states()
Fetch == /\ pc = "fetch" /\ "RESET" \notin m.rtx
         /\ rt' = m.rtx
         /\ m' = IF m.rtx = {} THEN m ELSE [m EXCEPT !.rtx = {}, !.resetPending = FALSE]
         /\ pc' = IF m.rtx = {} THEN "prep" ELSE "exec"
         /\ UNCHANGED <<site, inSusp, kind, pins, events, lines>>

FetchReset ==
    /\ pc = "fetch" /\ "RESET" \in m.rtx
    /\ rt' = {}
    /\ LET taken == [m EXCEPT !.rtx = {}, !.resetPending = TRUE, !.abort = ~estop]
       IN  IF estop THEN m' = RaiseAlarm(taken, "EStop") /\ ReturnTrue
           ELSE m' = taken /\ ReturnFalse
    /\ UNCHANGED <<site, inSusp, kind, pins, events, lines>>

\* The machines state_update(r) may leave: a motion cancel cuts a full ring
\* behind the segment after the one in execution (a "fast hold").
Updates(before, r) ==
    LET updated == StateUpdate(before, r, ajar)
        cut == /\ before.handler = "cycle" /\ before.seg = MaxSeg
               /\ "MOTION_CANCEL" \in r /\ "SAFETY_DOOR" \notin r
    IN  IF cut THEN UNION {{[u EXCEPT !.seg = kept] : kept \in 1..MaxSeg} : u \in updated}
        ELSE updated

\* Requests other than a stop go to the state machine.
ExecUpdate == /\ pc = "exec" /\ "STOP" \notin rt
              /\ m' \in Updates(m, rt)
              /\ rt' = {}
              /\ pc' = "prep"
              /\ UNCHANGED <<site, inSusp, kind, pins, events, lines>>

\* EXEC_STOP: a moving machine is first brought to a stop.
ExecStop ==
    /\ pc = "exec" /\ "STOP" \in rt
    /\ LET cancelled == [m EXCEPT !.cancel = TRUE, !.endMotion = FALSE, !.execHold = FALSE]
       IN  \/ /\ m.alarmPending # "None"
              /\ m' = RaiseAlarm([cancelled EXCEPT !.positionLost = IsStepping(m)],
                                 m.alarmPending)
              /\ Goto("stopped")
           \/ /\ m.alarmPending = "None" /\ ~IsStepping(m)
              /\ m' = cancelled
              /\ Goto("stopped")
           \/ /\ m.alarmPending = "None" /\ IsStepping(m)
              /\ m' \in Updates(cancelled, {"MOTION_CANCEL"})
              /\ Goto("stopping")
    /\ UNCHANGED <<kind, pins, events, lines>>

\* The wait ends; whatever was requested meanwhile joins the requests.
StopWaited == /\ pc = "stopping" /\ ~IsStepping(m)
              /\ rt' = rt \cup m.rtx
              /\ m' = [m EXCEPT !.rtx = {}]
              /\ pc' = "stopped"
              /\ UNCHANGED <<site, inSusp, kind, pins, events, lines>>

\* Mutant of ExecStopped: the planner is not reset.
ExecStoppedKeeps ==
    /\ pc = "stopped"
    /\ LET reset == StReset(m)
           set == IF m.st = "ALARM" /\ m.alarm = "ProbeProtect" THEN reset
                  ELSE IF ajar THEN SetDoor(reset, ajar) ELSE SetIdle(reset)
           rest == rt \ {"STOP"}
       IN  m' \in IF rest = {} THEN {set} ELSE StateUpdate(set, rest, ajar)
    /\ rt' = {}
    /\ pc' = "prep"
    /\ UNCHANGED <<site, inSusp, kind, pins, events, lines>>

ExecStopped ==
    /\ pc = "stopped"
    /\ LET reset == StReset(PlanReset(m))
           set == IF m.st = "ALARM" /\ m.alarm = "ProbeProtect" THEN reset
                  ELSE IF ajar THEN SetDoor(reset, ajar) ELSE SetIdle(reset)
           rest == rt \ {"STOP"}
       IN  m' \in IF rest = {} THEN {set} ELSE StateUpdate(set, rest, ajar)
    /\ rt' = {}
    /\ pc' = "prep"
    /\ UNCHANGED <<site, inSusp, kind, pins, events, lines>>

\* st_prep_buffer, one segment at a time: from the executor, which calls it
\* in the states that may move, and from the wait of a stop.
Preparing == /\ \/ pc = "prep" /\ m.st \in {"CYCLE", "HOLD", "DOOR", "JOG"}
                \/ pc = "stopping" /\ IsStepping(m)
             /\ CanPrep(m)

PrepMore == /\ Preparing
            /\ m' = PrepSegment(m)
            /\ UNCHANGED <<pc, executor, kind, pins, events, lines>>

\* The last segment of a block.
PrepBlockEnd == /\ Preparing
                /\ m' = [m EXCEPT !.seg = @ + 1, !.plb = "none", !.blk = @ - 1,
                                  !.bad = @ /\ m.blk > 1]
                /\ UNCHANGED <<pc, executor, kind, pins, events, lines>>

\* The end of a forced deceleration: with a last segment, or without one
\* when less than a step is left.
PrepHoldEnd == /\ Preparing /\ Profile(m) = "decel"
               /\ \/ m' = [m EXCEPT !.seg = @ + 1, !.plb = "decel", !.endMotion = TRUE]
                  \/ /\ m.execHold
                     /\ m' = [m EXCEPT !.plb = "decel", !.endMotion = TRUE]
               /\ UNCHANGED <<pc, executor, kind, pins, events, lines>>

PrepDone == /\ pc = "prep"
            /\ ~(m.st \in {"CYCLE", "HOLD", "DOOR", "JOG"} /\ CanPrep(m))
            /\ IF Aborted(m) THEN ReturnFalse ELSE ReturnTrue
            /\ UNCHANGED <<m, executor, kind, pins, events, lines>>

Return == /\ pc = "ret"
          /\ IF m.suspend
             THEN m' = [m EXCEPT !.blocking = FALSE] /\ inSusp' = TRUE /\ pc' = "susp"
             ELSE m' = m /\ inSusp' = FALSE /\ pc' = "back"
          /\ UNCHANGED <<site, rt, kind, pins, events, lines>>

SuspendLoop == /\ pc = "susp" /\ m.suspend /\ ~m.abort
               /\ m' = IF m.st = "DOOR" /\ ~ajar THEN Flag(m, "DOOR_CLOSED") ELSE m
               /\ pc' = "alarm"
               /\ UNCHANGED <<executor, kind, pins, events, lines>>

SuspendEnd == /\ pc = "susp" /\ (~m.suspend \/ m.abort)
              /\ inSusp' = FALSE
              /\ pc' = "back"
              /\ UNCHANGED <<m, site, rt, kind, pins, events, lines>>

-----------------------------------------------------------------------------
(* Interrupts                                                              *)

\* Mutant of StepperSegment: completion is reported as the last one is loaded.
StepperSegmentEarly ==
    /\ m.stepping /\ m.seg > 0
    /\ LET loaded == [m EXCEPT !.seg = @ - 1, !.exec = TRUE]
       IN  m' = IF m.seg = 1 THEN Flag(loaded, "CYCLE_COMPLETE") ELSE loaded
    /\ UNCHANGED <<pc, executor, kind, pins, events, lines>>

\* Mutant of StepperEmpty: nobody is told.
StepperEmptySilent == /\ m.stepping /\ m.seg = 0
                      /\ m' = [m EXCEPT !.stepping = FALSE, !.exec = FALSE]
                      /\ UNCHANGED <<pc, executor, kind, pins, events, lines>>

\* Mutant of StepperEmpty: the step timer is left running.
StepperEmptyRuns == /\ m.stepping /\ m.seg = 0
                    /\ m' = Flag(m, "CYCLE_COMPLETE")
                    /\ UNCHANGED <<pc, executor, kind, pins, events, lines>>

\* The stepper interrupt: load a segment, or shut down.
StepperSegment == /\ m.stepping /\ m.seg > 0
                  /\ m' = [m EXCEPT !.seg = @ - 1, !.exec = TRUE]
                  /\ UNCHANGED <<pc, executor, kind, pins, events, lines>>

StepperEmpty == /\ m.stepping /\ m.seg = 0
                /\ m' = [Flag(m, "CYCLE_COMPLETE") EXCEPT !.stepping = FALSE, !.exec = FALSE]
                /\ UNCHANGED <<pc, executor, kind, pins, events, lines>>

Input(i) == /\ i \in Inputs /\ events > 0
            /\ events' = events - 1
            /\ UNCHANGED <<pc, executor, kind, lines>>

\* protocol_enqueue_realtime_command, and the same requests from switches.
Reset == /\ Input("reset") /\ ~estop
         /\ m' = McReset(m, estop)
         /\ UNCHANGED pins

Stop == Input("stop") /\ m' = Flag(m, "STOP") /\ UNCHANGED pins

FeedHold == Input("hold") /\ m' = Flag(m, "FEED_HOLD") /\ UNCHANGED pins

CycleStart == Input("start") /\ m' = Flag(m, "CYCLE_START") /\ UNCHANGED pins

JogCancel == /\ Input("jogCancel") /\ m.st = "JOG"
             /\ m' = Flag(m, "MOTION_CANCEL")
             /\ UNCHANGED pins

DoorCommand == /\ Input("doorCommand") /\ m.st # "DOOR"
               /\ m' = Flag(m, "SAFETY_DOOR")
               /\ UNCHANGED pins

\* control_interrupt_handler
DoorOpens == /\ Input("door") /\ ~ajar
             /\ ajar' = TRUE
             /\ m' = Flag(m, "SAFETY_DOOR")
             /\ UNCHANGED estop

DoorCloses == /\ ajar /\ ajar' = FALSE
              /\ UNCHANGED <<m, pc, executor, kind, estop, events, lines>>

EStopPressed == /\ Input("estop") /\ ~estop
                /\ estop' = TRUE
                /\ m' = IF m.st = "ESTOP" THEN m ELSE McReset(m, TRUE)
                /\ UNCHANGED ajar

EStopReleased == /\ estop /\ estop' = FALSE
                 /\ UNCHANGED <<m, pc, executor, kind, ajar, events, lines>>

ProbeTripped == /\ Input("probe") /\ m.st \in {"CYCLE", "JOG"}
                /\ m' = [Flag(m, "STOP") EXCEPT !.alarmPending = "ProbeProtect"]
                /\ UNCHANGED pins

\* limit_interrupt_handler
LimitTripped == /\ Input("limit") /\ m.st \notin Locked /\ Quiet
                /\ m' = [McReset(m, estop) EXCEPT !.rta = "HardLimit"]
                /\ UNCHANGED pins

-----------------------------------------------------------------------------
MainLoop == \/ Reinit \/ StartupEstop \/ StartupLocked \/ StartupDoor \/ StartupIdle
            \/ Started \/ (\E k \in LineKinds : ReadLine(k)) \/ LoopEnd \/ LoopAgain
            \/ AbortedAtEol \/ EndLine

Lines == \/ Unlock \/ JogLine \/ RejectLine \/ MoveLine \/ SyncLine \/ SyncWait
         \/ BadLine \/ SoftWait \/ SoftReset \/ SoftEnd
         \/ LineStart \/ PlanAborted \/ PlanWait \/ PlanBlock \/ JogWake

Executor == \/ NoAlarm \/ ExecAlarm \/ CriticalLoop \/ Fetch \/ FetchReset
            \/ ExecUpdate \/ ExecStop \/ StopWaited \/ ExecStopped
            \/ PrepMore \/ PrepBlockEnd \/ PrepHoldEnd \/ PrepDone
            \/ Return \/ SuspendLoop \/ SuspendEnd

Main == MainLoop \/ Lines \/ Executor
Stepper == StepperSegment \/ StepperEmpty
Environment == \/ Reset \/ Stop \/ FeedHold \/ CycleStart \/ JogCancel \/ DoorCommand
               \/ DoorOpens \/ DoorCloses \/ EStopPressed \/ EStopReleased
               \/ ProbeTripped \/ LimitTripped

Next == Main \/ Stepper \/ Environment

Spec == Init /\ [][Next]_vars

-----------------------------------------------------------------------------
(* Safety                                                                  *)

\* Every variable has a value of its C type, within the bounds of the rings.
TypeOK == /\ m \in Machines
          /\ pc \in Pcs /\ site \in Sites /\ inSusp \in BOOLEAN
          /\ rt \in SUBSET Flags /\ kind \in AllKinds
          /\ estop \in BOOLEAN /\ ajar \in BOOLEAN
          /\ events \in 0..MaxEvents /\ lines \in 0..MaxLines

\* The step timer never runs with nothing to execute: the stepper interrupt
\* reads st.exec_block on an empty ring without testing it (stepper.c:576).
\* Without door and jog cancel, see section 5 of the README.
NoBareWake == m.stepping => m.seg > 0 \/ m.exec

\* Whatever way a line out of limits takes out of the soft limit check, it is not
\* planned: "All buffered blocks are guaranteed to be within workspace volume"
\* (machine_limits.c:635).  Without the E-stop, see section 5 of the README.
PlannedIsWithinLimits == ~m.bad

\* Until sys.cancel is cleared again, a stop leaves nothing planned, nothing
\* prepared and nothing moving.
StopDiscardsMotion ==
    m.cancel /\ pc \notin {"stopping", "stopped"}
        => m.blk = 0 /\ m.seg = 0 /\ ~m.stepping

\* st_prep_buffer never keeps preparing a block the planner has let go of: a
\* reset of the planner is always followed by one of the stepper driver.
PreparedBlockIsPlanned == m.plb # "none" => m.blk > 0

\* The suspend loop is entered only with a handler that can end it.
SuspendHasExit ==
    m.suspend => m.handler \in {"await_hold", "await_resume", "await_motion_cancel"}

\* A cancelled jog that ends in IDLE leaves no motion behind.
JogCancelDiscards ==
    [][m.st = "JOG" /\ m.handler = "await_motion_cancel" /\ m'.st = "IDLE"
          => m'.blk = 0 /\ m'.seg = 0 /\ ~m'.stepping]_vars

\* The executor keeps its promise to the operator, whatever is interleaved.
View == INSTANCE OperatorView WITH mode <- m.st, moving <- m.stepping
ImplementsOperatorView == View!Spec

\* A machine that reports IDLE or a completed hold is at a standstill.
RestIsStill ==
    m.st = "IDLE" \/ (m.st = "HOLD" /\ m.holding = "Complete") => ~m.stepping

\* EXEC_CYCLE_COMPLETE is never a leftover of a motion before this one.
CompletionIsFresh == "CYCLE_COMPLETE" \in m.rtx => ~m.stepping

\* A reset that hits a moving machine notes that the position is lost (but not
\* while a stop request is being served, which has cleared step_control, nor
\* while an alarm is raised that let the machine move on).
ResetKnowsMotion ==
    [][(/\ "RESET" \notin m.rtx /\ "RESET" \in m'.rtx
        /\ IsStepping(m) /\ m.st \notin Locked
        /\ ~m.resetPending /\ ~m.blocking /\ ~m.cancel)
           => m'.positionLost]_vars

-----------------------------------------------------------------------------
(* Liveness.  The main loop and the stepper interrupt keep running, and a  *)
(* velocity profile ends: its distance is finite (strong fairness, for the *)
(* executor and the start of a cycle visit st_prep_buffer again and again, *)
(* either of which may end a block).  Inputs owe nothing.                  *)

BlockEnds == PrepBlockEnd \/ (ExecUpdate /\ m'.blk < m.blk)

Fairness == /\ WF_vars(Main) /\ WF_vars(Stepper)
            /\ SF_vars(BlockEnds) /\ SF_vars(PrepHoldEnd)

FairSpec == Spec /\ Fairness

\* A feed hold is completed, or given up for another state.
HoldCompletes == m.st = "HOLD" ~> m.holding = "Complete" \/ m.st # "HOLD"

\* What is planned is executed, unless the machine is held, locked or waits for a
\* motion cancel in IDLE (the cancel of a jog raced its end, see CancelOnlyJogs).
MovesAreExecuted ==
    m.blk > 0 ~> \/ m.blk = 0 \/ m.suspend \/ m.st \in Locked
                 \/ m.st = "IDLE" /\ m.handler = "await_motion_cancel"

\* A stop request leads to a machine at rest with an empty planner.
StopEndsMotion == "STOP" \in m.rtx ~> ~m.stepping /\ m.blk = 0

\* A reset request leads to a re-initialization, unless E-stop is asserted or a
\* stop is being served: realtime characters "are always acted upon" (protocol.c:830).
ResetIsHonoured == "RESET" \in m.rtx /\ "STOP" \notin rt ~> pc = "init" \/ estop

-----------------------------------------------------------------------------
(* What comments of the source say and the code does not do.               *)

\* protocol.c:830, also of a reset that arrives while a stop is served.
EveryResetIsHonoured == "RESET" \in m.rtx ~> pc = "init" \/ estop

\* protocol.c:127, of an active E-stop: "Blocks everything until cleared".
EstopBlocksStart == [][~m.stepping /\ m'.stepping => ~estop]_vars

\* protocol.c:899: "Block all other states from invoking motion cancel".
CancelOnlyJogs == m.handler = "await_motion_cancel" => m.st # "IDLE"

\* system.h:82: "Safety door is ajar. Feed holds and de-energizes system".
DoorFeedHolds == m.st = "DOOR" /\ IsStepping(m) => m.execHold

\* system.h:79, of STATE_CYCLE: "Cycle is running or motions are being executed."
MotionIsReported == [][~m.stepping /\ m'.stepping => m'.st \in {"CYCLE", "HOLD", "JOG"}]_vars

\* motion_control.c:1158: a reset in a motion state "sets the system alarm to
\* flag position lost": the machine comes back locked.
LostPositionLocks == [][pc = "init" /\ m.positionLost => m'.st = "ALARM"]_vars

\* motion_control.c:1158: the same reset "kills the steppers".
ResetKillsSteppers == m.st = "ALARM" /\ m.alarm = "AbortCycle" => ~m.stepping

\* protocol.c:236: the main loop is left "upon system abort".
LeftUponAbort == [][pc # "init" /\ pc' = "init" => m.abort]_vars

\* machine_limits.c:636: the cycle comes "to a controlled stop [...] When
\* complete enter alarm mode".
SoftLimitEntersAlarm == site = "soft" ~> site # "soft"

\* protocol.c:369: a synchronize call is to "ensure cycle resumes".
SyncEnds == site = "sync" ~> site # "sync" \/ m.suspend \/ m.st \in Locked
=============================================================================
