----------------------- MODULE RealtimeControl_proofs -----------------------
(***************************************************************************)
(* Type correctness of realtime control, that it implements OperatorView,  *)
(* and the safety invariants about suspensions, stops, soft limits and     *)
(* cancelled jogs, for every size of the rings, every set of inputs and    *)
(* lines, and any number of them.                                          *)
(***************************************************************************)
EXTENDS RealtimeControl, TLAPS

(***************************************************************************)
(* First the operators of module Machine, which take machines to machines. *)
(* A machine has many fields, so every leaf is one EXCEPT with values      *)
(* whose sets are known, and conditions are split before.                  *)
(***************************************************************************)

\* The values the operators write.
LEMMA Values ==
    /\ "IDLE" \in States /\ "CYCLE" \in States /\ "HOLD" \in States /\ "JOG" \in States
    /\ "DOOR" \in States /\ "ALARM" \in States /\ "ESTOP" \in States
    /\ "idle" \in Handlers /\ "cycle" \in Handlers /\ "noop" \in Handlers
    /\ "await_hold" \in Handlers /\ "await_resume" \in Handlers
    /\ "await_motion_cancel" \in Handlers
    /\ "None" \in Alarms /\ "EStop" \in Alarms /\ "AbortCycle" \in Alarms
    /\ "SoftLimit" \in Alarms /\ "HardLimit" \in Alarms /\ "ProbeProtect" \in Alarms
    /\ "NotHolding" \in HoldStates /\ "Pending" \in HoldStates /\ "Complete" \in HoldStates
    /\ "DoorClosed" \in ParkingStates /\ "DoorAjar" \in ParkingStates
    /\ "Retracting" \in ParkingStates
    /\ "none" \in Profiles /\ "normal" \in Profiles /\ "decel" \in Profiles
    /\ TRUE \in BOOLEAN /\ FALSE \in BOOLEAN
BY DEF States, Handlers, Alarms, HoldStates, ParkingStates, Profiles

LEMMA Zeros == 0 \in 0..MaxSeg /\ 0 \in 0..MaxBlk
BY MaxSegAssumption, MaxBlkAssumption

\* What is known of a field.
LEMMA Fields ==
    ASSUME NEW n \in Machines
    PROVE  /\ n.st \in States /\ n.handler \in Handlers /\ n.pending \in States
           /\ n.rtx \in SUBSET Flags
           /\ n.rta \in Alarms /\ n.alarm \in Alarms /\ n.alarmPending \in Alarms
           /\ n.abort \in BOOLEAN /\ n.cancel \in BOOLEAN /\ n.suspend \in BOOLEAN
           /\ n.positionLost \in BOOLEAN /\ n.resetPending \in BOOLEAN
           /\ n.blocking \in BOOLEAN /\ n.softLimit \in BOOLEAN
           /\ n.endMotion \in BOOLEAN /\ n.execHold \in BOOLEAN
           /\ n.holding \in HoldStates /\ n.parking \in ParkingStates
           /\ n.stepping \in BOOLEAN /\ n.exec \in BOOLEAN
           /\ n.seg \in 0..MaxSeg /\ n.blk \in 0..MaxBlk
           /\ n.plb \in Profiles /\ n.bad \in BOOLEAN
BY DEF Machines

LEMMA PowerUpType == PowerUp \in Machines
<1>1. {} \in SUBSET Flags
    OBVIOUS
<1> QED BY <1>1, Values, Zeros, Zenon DEF PowerUp, Machines

LEMMA FlagType ==
    ASSUME NEW n \in Machines, NEW f \in Flags PROVE Flag(n, f) \in Machines
<1>1. n.rtx \cup {f} \in SUBSET Flags
    BY Fields
<1> QED BY <1>1, Zenon DEF Flag, Machines

LEMMA PlanResetType == ASSUME NEW n \in Machines PROVE PlanReset(n) \in Machines
BY Values, Zeros, Zenon DEF PlanReset, Machines

LEMMA StResetType == ASSUME NEW n \in Machines PROVE StReset(n) \in Machines
BY Values, Zeros, Zenon DEF StReset, Machines

LEMMA ReplanType == ASSUME NEW n \in Machines PROVE Replan(n) \in Machines
BY Values, Zenon DEF Replan, Machines

LEMMA PrepSegmentType ==
    ASSUME NEW n \in Machines, n.seg < MaxSeg PROVE PrepSegment(n) \in Machines
<1>1. n.seg + 1 \in 0..MaxSeg
    BY Fields, MaxSegAssumption
<1>2. Profile(n) \in Profiles
    BY Values, Fields DEF Profile
<1> QED BY <1>1, <1>2, Zenon DEF PrepSegment, Machines

\* st_prep_buffer fills the segment ring, uses up blocks and changes nothing else
\* but its own state.
LEMMA PrepBufferResult ==
    ASSUME NEW n \in Machines, NEW b \in PrepBuffer(n), b # n
    PROVE  /\ CanPrep(n)
           /\ \E r \in Prepared(n), d \in BOOLEAN :
                 /\ b = [n EXCEPT !.seg = r.seg, !.blk = r.blk, !.plb = r.plb,
                                  !.endMotion = r.endMotion, !.bad = d]
                 /\ d => n.bad
<1>1. CanPrep(n)
    BY DEF PrepBuffer
<1>2. PICK r \in Prepared(n) :
         b = [n EXCEPT !.seg = r.seg, !.blk = r.blk, !.plb = r.plb,
                       !.endMotion = r.endMotion, !.bad = n.bad /\ r.blk > 0]
    BY <1>1, Zenon DEF PrepBuffer
<1> DEFINE d == n.bad /\ r.blk > 0
<1>3. d \in BOOLEAN /\ (d => n.bad)
    OBVIOUS
<1>4. b = [n EXCEPT !.seg = r.seg, !.blk = r.blk, !.plb = r.plb,
                    !.endMotion = r.endMotion, !.bad = d]
    BY <1>2
<1> HIDE DEF d
<1> QED BY <1>1, <1>3, <1>4

LEMMA PreparedType ==
    ASSUME NEW n \in Machines, NEW r \in Prepared(n)
    PROVE  /\ r.seg \in 0..MaxSeg /\ r.blk \in 0..MaxBlk
           /\ r.plb \in Profiles /\ r.endMotion \in BOOLEAN
           /\ r.seg >= n.seg /\ r.blk <= n.blk /\ PrepEnds(n, r)
<1>1. /\ r \in [seg : n.seg..MaxSeg, blk : 0..n.blk, plb : Profiles, endMotion : BOOLEAN]
      /\ PrepEnds(n, r)
    BY DEF Prepared
<1>2. n.seg \in 0..MaxSeg /\ n.blk \in 0..MaxBlk
    BY Fields
<1> QED BY <1>1, <1>2, MaxSegAssumption, MaxBlkAssumption

LEMMA PrepBufferType ==
    ASSUME NEW n \in Machines, NEW b \in PrepBuffer(n) PROVE b \in Machines
<1>1. CASE b = n
    BY <1>1
<1>2. CASE b # n
    <2>1. PICK r \in Prepared(n), d \in BOOLEAN :
             /\ b = [n EXCEPT !.seg = r.seg, !.blk = r.blk, !.plb = r.plb,
                              !.endMotion = r.endMotion, !.bad = d]
             /\ d => n.bad
        BY <1>2, PrepBufferResult
    <2>2. /\ r.seg \in 0..MaxSeg /\ r.blk \in 0..MaxBlk
          /\ r.plb \in Profiles /\ r.endMotion \in BOOLEAN
        BY PreparedType
    <2> QED BY <2>1, <2>2, Zenon DEF Machines
<1> QED BY <1>1, <1>2

LEMMA ClearAlarmType == ASSUME NEW n \in Machines PROVE ClearAlarm(n) \in Machines
<1>1. [n EXCEPT !.alarm = "None"] \in Machines
    BY Values, Zenon DEF Machines
<1> QED BY <1>1 DEF ClearAlarm

LEMMA SetIdleType == ASSUME NEW n \in Machines PROVE SetIdle(n) \in Machines
<1>1. [n EXCEPT !.st = "IDLE", !.pending = "IDLE", !.handler = "idle",
                   !.suspend = FALSE, !.endMotion = FALSE, !.execHold = FALSE,
                   !.parking = "DoorClosed", !.holding = "NotHolding",
                   !.alarm = "None"] \in Machines
    BY Values, Zenon DEF Machines
<1> QED BY <1>1 DEF SetIdle

LEMMA SetCycleType ==
    ASSUME NEW n \in Machines, NEW r \in SetCycle(n) PROVE r \in Machines
<1> DEFINE c == [n EXCEPT !.st = "CYCLE"]
<1>1. c \in Machines
    BY Values, Zenon DEF Machines
<1>2. \A p \in PrepBuffer(c) :
         [p EXCEPT !.handler = "cycle", !.stepping = TRUE, !.alarm = "None"] \in Machines
    <2> HIDE DEF c
    <2> TAKE p \in PrepBuffer(c)
    <2>1. p \in Machines
        BY <1>1, PrepBufferType
    <2> QED BY <2>1, Values, Zenon DEF Machines
<1>3. \/ r = ClearAlarm(n)
      \/ \E p \in PrepBuffer(c) :
            r = [p EXCEPT !.handler = "cycle", !.stepping = TRUE, !.alarm = "None"]
    BY Zenon DEF SetCycle
<1> QED BY <1>2, <1>3, ClearAlarmType, Zenon

LEMMA SetJogType == ASSUME NEW n \in Machines PROVE SetJog(n) \in Machines
BY Values, Zenon DEF SetJog, Machines

LEMMA SetLockedType ==
    ASSUME NEW n \in Machines, NEW s \in Locked PROVE SetLocked(n, s) \in Machines
<1>1. s \in States
    BY DEF Locked, States
<1>2. [n EXCEPT !.st = s, !.suspend = FALSE, !.handler = "noop"] \in Machines
    BY <1>1, Values, Zenon DEF Machines
<1> QED BY <1>2 DEF SetLocked

LEMMA InitiateHoldType ==
    ASSUME NEW n \in Machines, NEW new \in {"HOLD", "DOOR"}
    PROVE  InitiateHold(n, new) \in Machines
<1> DEFINE pending == IF n.st = "JOG" THEN new ELSE "IDLE"
           holding == IF new = "HOLD" THEN "Pending" ELSE n.holding
           parking == IF new = "HOLD" THEN n.parking ELSE "Retracting"
           held == [n EXCEPT !.suspend = ~n.softLimit, !.pending = pending,
                             !.holding = holding, !.parking = parking]
           r == Replan(held)
<1>1. /\ pending \in States /\ holding \in HoldStates /\ parking \in ParkingStates
      /\ (~n.softLimit) \in BOOLEAN
    <2>1. pending \in States
        BY Values
    <2>2. holding \in HoldStates
        BY Values, Fields
    <2>3. parking \in ParkingStates
        BY Values, Fields
    <2>4. (~n.softLimit) \in BOOLEAN
        OBVIOUS
    <2> QED BY <2>1, <2>2, <2>3, <2>4
<1>2. held \in Machines
    <2> HIDE DEF pending, holding, parking
    <2> QED BY <1>1, Zenon DEF Machines
<1>3. r \in Machines
    BY <1>2, ReplanType
<1>4. [r EXCEPT !.execHold = TRUE, !.handler = "await_hold"] \in Machines
    <2> HIDE DEF r
    <2> QED BY <1>3, Values, Zenon DEF Machines
<1> QED BY <1>2, <1>4 DEF InitiateHold

LEMMA SetHoldType == ASSUME NEW n \in Machines PROVE SetHold(n) \in Machines
<1> DEFINE held == InitiateHold(n, "HOLD")
<1>1. held \in Machines
    BY InitiateHoldType
<1> HIDE DEF held
<1>2. [held EXCEPT !.st = "HOLD", !.alarm = "None"] \in Machines
    BY <1>1, Values, Zenon DEF Machines
<1>3. [held EXCEPT !.st = "HOLD", !.alarm = "None",
                   !.holding = "Complete", !.handler = "await_resume"] \in Machines
    BY <1>1, Values, Zenon DEF Machines
<1> QED BY <1>2, <1>3, ClearAlarmType DEF SetHold, held

LEMMA HoldCompleteType ==
    ASSUME NEW n \in Machines, NEW open \in BOOLEAN PROVE HoldComplete(n, open) \in Machines
<1> DEFINE r == Replan(n)
           rta == IF n.alarmPending # "None" THEN n.alarmPending ELSE r.rta
           parking == IF n.st # "DOOR" THEN r.parking
                      ELSE IF open THEN "DoorAjar" ELSE "DoorClosed"
           stopped == [r EXCEPT !.endMotion = FALSE, !.execHold = FALSE,
                                !.rta = rta, !.parking = parking]
<1>1. r \in Machines
    BY ReplanType
<1>2. rta \in Alarms /\ parking \in ParkingStates
    <2> HIDE DEF r
    <2> QED BY <1>1, Values, Fields
<1>3. stopped \in Machines
    <2> HIDE DEF r, rta, parking
    <2> QED BY <1>1, <1>2, Values, Zenon DEF Machines
<1>4. [stopped EXCEPT !.holding = "Complete", !.handler = "await_resume"] \in Machines
    <2> HIDE DEF stopped
    <2> QED BY <1>3, Values, Zenon DEF Machines
<1>5. SetIdle(stopped) \in Machines
    BY <1>3, SetIdleType
<1> QED BY <1>4, <1>5 DEF HoldComplete

LEMMA SetDoorType ==
    ASSUME NEW n \in Machines, NEW open \in BOOLEAN PROVE SetDoor(n, open) \in Machines
<1> DEFINE held == InitiateHold(n, "DOOR")
           door == [held EXCEPT !.st = "DOOR"]
<1>1. held \in Machines
    BY InitiateHoldType
<1>2. door \in Machines
    <2> HIDE DEF held
    <2> QED BY <1>1, Values, Zenon DEF Machines
<1>3. HoldComplete(door, open) \in Machines
    BY <1>2, HoldCompleteType
<1> HIDE DEF held
<1> QED BY <1>1, <1>2, <1>3, ClearAlarmType DEF SetDoor, held

-----------------------------------------------------------------------------
(* The handlers of the state machine.                                      *)

\* What state_idle does to a machine: it starts a cycle or not, and holds it or not.
LEMMA HandleIdleSteps ==
    ASSUME NEW n, NEW flags, NEW r \in HandleIdle(n, flags)
    PROVE  \E c \in SetCycle(n) \cup {n} : r \in {c, SetHold(c)}
BY Zenon DEF HandleIdle

LEMMA HandleIdleType ==
    ASSUME NEW n \in Machines, NEW flags, NEW r \in HandleIdle(n, flags)
    PROVE  r \in Machines
BY HandleIdleSteps, SetCycleType, SetHoldType

LEMMA HandleCycleType ==
    ASSUME NEW n \in Machines, NEW flags PROVE HandleCycle(n, flags) \in Machines
<1> DEFINE ended == IF "CYCLE_COMPLETE" \in flags THEN SetIdle(n) ELSE n
           r == Replan(ended)
           slowed == [r EXCEPT !.suspend = TRUE, !.execHold = TRUE,
                               !.handler = "await_motion_cancel"]
           cancelled == IF "MOTION_CANCEL" \notin flags THEN ended ELSE slowed
<1>1. ended \in Machines
    BY SetIdleType
<1>2. r \in Machines
    <2> HIDE DEF ended
    <2> QED BY <1>1, ReplanType
<1>3. slowed \in Machines
    <2> HIDE DEF r
    <2> QED BY <1>2, Values, Zenon DEF Machines
<1>4. cancelled \in Machines
    <2> HIDE DEF ended, slowed
    <2> QED BY <1>1, <1>3
<1>5. HandleCycle(n, flags) = IF flags = {"CYCLE_START"} THEN n
                           ELSE IF "FEED_HOLD" \in flags THEN SetHold(cancelled) ELSE cancelled
    BY Zenon DEF HandleCycle
<1> HIDE DEF cancelled
<1> QED BY <1>4, <1>5, SetHoldType

LEMMA HandleMotionCancelType ==
    ASSUME NEW n \in Machines, NEW flags, NEW open \in BOOLEAN
    PROVE  HandleMotionCancel(n, flags, open) \in Machines
<1> DEFINE r == StReset(PlanReset(n))
           stopped == [r EXCEPT !.endMotion = FALSE, !.execHold = FALSE, !.suspend = FALSE]
           reset == IF n.st # "JOG" THEN n ELSE stopped
           set == IF reset.pending = "DOOR" THEN SetDoor(reset, open) ELSE SetIdle(reset)
           alarmed == [set EXCEPT !.rta = set.alarmPending]
<1>1. r \in Machines
    BY PlanResetType, StResetType
<1>2. stopped \in Machines
    <2> HIDE DEF r
    <2> QED BY <1>1, Values, Zenon DEF Machines
<1>3. reset \in Machines
    <2> HIDE DEF stopped
    <2> QED BY <1>2
<1>4. set \in Machines
    <2> HIDE DEF reset
    <2> QED BY <1>3, SetDoorType, SetIdleType
<1>5. alarmed \in Machines
    <2> HIDE DEF set
    <2>1. set.alarmPending \in Alarms
        BY <1>4, Fields
    <2> QED BY <1>4, <2>1, Zenon DEF Machines
<1>6. HandleMotionCancel(n, flags, open) =
         IF "CYCLE_COMPLETE" \notin flags THEN n
         ELSE IF set.alarmPending # "None" THEN alarmed ELSE set
    BY Zenon DEF HandleMotionCancel
<1> HIDE DEF set, alarmed
<1> QED BY <1>4, <1>5, <1>6

LEMMA RestartCycleType ==
    ASSUME NEW n \in Machines, NEW r \in RestartCycle(n) PROVE r \in Machines
<1> DEFINE idle == SetIdle(n)
<1>1. idle \in Machines
    BY SetIdleType
<1>2. n.endMotion \in BOOLEAN /\ n.execHold \in BOOLEAN
    BY Fields
<1>3. [idle EXCEPT !.endMotion = n.endMotion, !.execHold = n.execHold] \in Machines
    <2> HIDE DEF idle
    <2> QED BY <1>1, <1>2, Zenon DEF Machines
<1> QED BY <1>3, SetCycleType DEF RestartCycle

LEMMA DoorResumeSteps ==
    ASSUME NEW n, NEW r \in DoorResume(n)
    PROVE  \E c \in SetCycle(SetIdle(n)) : r \in RestartCycle(c)
BY Zenon DEF DoorResume

LEMMA DoorResumeType ==
    ASSUME NEW n \in Machines, NEW r \in DoorResume(n) PROVE r \in Machines
BY DoorResumeSteps, SetIdleType, SetCycleType, RestartCycleType

LEMMA HandleResumeType ==
    ASSUME NEW n \in Machines, NEW flags, NEW open \in BOOLEAN,
           NEW r \in HandleResume(n, flags, open)
    PROVE  r \in Machines
<1> DEFINE door == IF open THEN "DoorAjar" ELSE "DoorClosed"
<1>1. door \in ParkingStates
    BY Values
<1>2. [n EXCEPT !.parking = door] \in Machines
    <2> HIDE DEF door
    <2> QED BY <1>1, Zenon DEF Machines
<1>3. [n EXCEPT !.parking = "DoorClosed"] \in Machines
    BY Values, Zenon DEF Machines
<1> QED BY <1>2, <1>3, RestartCycleType, DoorResumeType DEF HandleResume

LEMMA HandleType ==
    ASSUME NEW n \in Machines, NEW flags, NEW open \in BOOLEAN,
           NEW r \in Handle(n, flags, open)
    PROVE  r \in Machines
<1>1. n.handler \in {"idle", "cycle", "await_motion_cancel", "await_hold",
                     "await_resume", "noop"}
    BY Fields DEF Handlers
<1> QED BY <1>1, HandleIdleType, HandleCycleType, HandleMotionCancelType,
           HoldCompleteType, HandleResumeType DEF Handle

LEMMA StateUpdateType ==
    ASSUME NEW n \in Machines, NEW flags, NEW open \in BOOLEAN,
           NEW r \in StateUpdate(n, flags, open)
    PROVE  r \in Machines
BY SetDoorType, HandleType DEF StateUpdate

-----------------------------------------------------------------------------
(* system.c, motion_control.c, grbllib.c                                   *)

LEMMA RaiseAlarmType ==
    ASSUME NEW n \in Machines, NEW a \in Alarms PROVE RaiseAlarm(n, a) \in Machines
<1> DEFINE rest == IF n.alarmPending = a THEN "None" ELSE n.alarmPending
           critical == a \in Critical
           raised == [n EXCEPT !.alarm = a, !.alarmPending = rest, !.blocking = critical]
           locked == IF a = "EStop" THEN "ESTOP" ELSE "ALARM"
<1>1. rest \in Alarms
    BY Values, Fields
<1>2. critical \in BOOLEAN
    OBVIOUS
<1>3. raised \in Machines
    <2> HIDE DEF rest, critical
    <2> QED BY <1>1, <1>2, Zenon DEF Machines
<1>4. locked \in Locked
    BY DEF Locked
<1>5. SetLocked(raised, locked) \in Machines
    <2> HIDE DEF raised, locked
    <2> QED BY <1>3, <1>4, SetLockedType
<1>6. [n EXCEPT !.alarmPending = a] \in Machines
    BY Zenon DEF Machines
<1>7. RaiseAlarm(n, a) = IF n.alarm = a THEN n
                         ELSE IF n.st = "ESTOP" \/ n.blocking THEN [n EXCEPT !.alarmPending = a]
                         ELSE SetLocked(raised, locked)
    BY Zenon DEF RaiseAlarm
<1> HIDE DEF raised, locked
<1> QED BY <1>5, <1>6, <1>7

LEMMA McResetType ==
    ASSUME NEW n \in Machines, NEW pressed \in BOOLEAN PROVE McReset(n, pressed) \in Machines
<1> DEFINE f == Flag(n, "RESET")
           moving == InMotion(n)
           stepping == f.stepping /\ ~InMotion(n)
           rta == IF pressed THEN "EStop" ELSE IF InMotion(n) THEN "AbortCycle" ELSE f.rta
           reset == [f EXCEPT !.positionLost = moving, !.stepping = stepping, !.rta = rta]
<1>1. f \in Machines
    BY FlagType DEF Flags
<1>2. moving \in BOOLEAN /\ stepping \in BOOLEAN
    BY DEF InMotion
<1>3. rta \in Alarms
    <2> HIDE DEF f
    <2> QED BY <1>1, Values, Fields
<1>4. reset \in Machines
    <2> HIDE DEF f, moving, stepping, rta
    <2> QED BY <1>1, <1>2, <1>3, Zenon DEF Machines
<1>5. McReset(n, pressed) = IF "RESET" \in n.rtx THEN n
                          ELSE IF n.resetPending \/ n.blocking THEN f ELSE reset
    BY Zenon DEF McReset
<1> HIDE DEF f, reset
<1> QED BY <1>1, <1>4, <1>5

LEMMA ClearedType ==
    ASSUME NEW n \in Machines
    PROVE  [n EXCEPT
            !.abort = FALSE, !.cancel = FALSE, !.suspend = FALSE,
            !.positionLost = FALSE, !.resetPending = FALSE, !.blocking = FALSE,
            !.softLimit = FALSE, !.endMotion = FALSE, !.execHold = FALSE,
            !.parking = "DoorClosed", !.holding = "NotHolding",
            !.rtx = {}, !.rta = "None"] \in Machines
<1> DEFINE sys == [n EXCEPT
            !.abort = FALSE, !.cancel = FALSE, !.suspend = FALSE,
            !.positionLost = FALSE, !.resetPending = FALSE, !.blocking = FALSE]
           control == [sys EXCEPT
            !.softLimit = FALSE, !.endMotion = FALSE, !.execHold = FALSE,
            !.parking = "DoorClosed", !.holding = "NotHolding",
            !.rtx = {}, !.rta = "None"]
<1>1. {} \in SUBSET Flags
    OBVIOUS
<1>2. sys \in Machines
    BY Values, Zenon DEF Machines
<1>3. control \in Machines
    <2> HIDE DEF sys
    <2> QED BY <1>1, <1>2, Values, Zenon DEF Machines
<1> QED BY <1>3, Zenon

-----------------------------------------------------------------------------
(* What the operators may do to the state, the steppers and the planner.   *)

\* The block being prepared is one of the blocks that are planned.
Planned(n) == n.plb # "none" => n.blk > 0

\* Nothing is started: the machine stays as it is or comes to rest.
Calm(a, b) == /\ b.st \in {a.st, "IDLE", "HOLD", "DOOR"}
              /\ b.stepping => a.stepping
              /\ b.blk \in {a.blk, 0}
              /\ Planned(a) => Planned(b)

\* A cycle is started, for blocks that were planned.
Starts(a, b) == /\ b.st \in {"CYCLE", "HOLD"}
                /\ b.stepping
                /\ a.blk > 0 /\ b.blk \in 0..a.blk
                /\ Planned(a) => Planned(b)

\* A machine resumed from DOOR has used up what was planned when it starts again.
Resumes(a, b) == /\ a.st = "DOOR" /\ b.st = "IDLE"
                 /\ b.stepping
                 /\ a.blk > 0
                 /\ Planned(a) => Planned(b)

LEMMA CalmSelf == ASSUME NEW a PROVE Calm(a, a)
BY DEF Calm

LEMMA CalmCalm ==
    ASSUME NEW a, NEW b, NEW c, Calm(a, b), Calm(b, c) PROVE Calm(a, c)
BY DEF Calm

LEMMA CalmStarts ==
    ASSUME NEW a, NEW b, NEW c, Calm(a, b), Starts(b, c) PROVE Starts(a, c)
BY DEF Calm, Starts

\* st_prep_buffer leaves the fields of the system and of the step timer alone, and
\* with no block left it is preparing none.
LEMMA PrepBufferEffect ==
    ASSUME NEW n \in Machines, NEW b \in PrepBuffer(n)
    PROVE  /\ b.st = n.st /\ b.handler = n.handler /\ b.pending = n.pending
           /\ b.rtx = n.rtx /\ b.rta = n.rta
           /\ b.alarm = n.alarm /\ b.alarmPending = n.alarmPending
           /\ b.abort = n.abort /\ b.cancel = n.cancel /\ b.suspend = n.suspend
           /\ b.positionLost = n.positionLost /\ b.resetPending = n.resetPending
           /\ b.blocking = n.blocking /\ b.softLimit = n.softLimit
           /\ b.execHold = n.execHold /\ b.holding = n.holding /\ b.parking = n.parking
           /\ b.stepping = n.stepping /\ b.exec = n.exec
           /\ b.seg \in n.seg..MaxSeg /\ b.blk \in 0..n.blk
           /\ b.bad => n.bad
           /\ Planned(n) => Planned(b)
<1>1. CASE b = n
    BY <1>1, Fields, MaxSegAssumption, MaxBlkAssumption
<1>2. CASE b # n
    <2>1. PICK r \in Prepared(n), d \in BOOLEAN :
             /\ b = [n EXCEPT !.seg = r.seg, !.blk = r.blk, !.plb = r.plb,
                              !.endMotion = r.endMotion, !.bad = d]
             /\ d => n.bad
        BY <1>2, PrepBufferResult
    <2>2. b.seg = r.seg /\ b.blk = r.blk /\ b.plb = r.plb /\ (b.bad => n.bad)
        BY <2>1 DEF Machines
    <2>3. Planned(b)
        BY <2>2, PreparedType DEF PrepEnds, Planned
    <2>4. b.seg \in n.seg..MaxSeg /\ b.blk \in 0..n.blk
        BY <2>2, PreparedType, Fields, MaxSegAssumption, MaxBlkAssumption
    <2>5. /\ b.st = n.st /\ b.handler = n.handler /\ b.pending = n.pending
          /\ b.rtx = n.rtx /\ b.rta = n.rta
          /\ b.alarm = n.alarm /\ b.alarmPending = n.alarmPending
          /\ b.abort = n.abort /\ b.cancel = n.cancel /\ b.suspend = n.suspend
        BY <2>1, Zenon DEF Machines
    <2>6. /\ b.positionLost = n.positionLost /\ b.resetPending = n.resetPending
          /\ b.blocking = n.blocking /\ b.softLimit = n.softLimit
          /\ b.execHold = n.execHold /\ b.holding = n.holding /\ b.parking = n.parking
          /\ b.stepping = n.stepping /\ b.exec = n.exec
        BY <2>1, Zenon DEF Machines
    <2> QED BY <2>2, <2>3, <2>4, <2>5, <2>6
<1> QED BY <1>1, <1>2

LEMMA SetIdleEffect ==
    ASSUME NEW n \in Machines
    PROVE  LET r == SetIdle(n) IN
           r.st = "IDLE" /\ r.stepping = n.stepping /\ r.blk = n.blk /\ r.plb = n.plb
BY DEF SetIdle, Machines

LEMMA SetIdleCalm == ASSUME NEW n \in Machines PROVE Calm(n, SetIdle(n))
BY SetIdleEffect DEF Calm, Planned

LEMMA ClearAlarmCalm == ASSUME NEW n \in Machines PROVE Calm(n, ClearAlarm(n))
BY DEF ClearAlarm, Calm, Planned, Machines

\* state_set(STATE_CYCLE) starts a cycle from IDLE if, and only if, there is a block.
LEMMA SetCycleSteps ==
    ASSUME NEW n, NEW b \in SetCycle(n)
    PROVE  IF n.st = "IDLE" /\ n.blk > 0
           THEN \E p \in PrepBuffer([n EXCEPT !.st = "CYCLE"]) :
                   b = [p EXCEPT !.handler = "cycle", !.stepping = TRUE, !.alarm = "None"]
           ELSE b = ClearAlarm(n)
BY Zenon DEF SetCycle

LEMMA SetCycleEffect ==
    ASSUME NEW n \in Machines, NEW b \in SetCycle(n)
    PROVE  IF n.st = "IDLE" /\ n.blk > 0
           THEN Starts(n, b) /\ b.st = "CYCLE"
           ELSE /\ Calm(n, b) /\ b.st = n.st /\ b.blk = n.blk
                /\ b.stepping = n.stepping /\ b.plb = n.plb
<1> DEFINE c == [n EXCEPT !.st = "CYCLE"]
<1>1. c \in Machines
    BY Values, Zenon DEF Machines
<1>2. c.st = "CYCLE" /\ c.blk = n.blk /\ c.plb = n.plb
    BY DEF Machines
<1>3. CASE n.st = "IDLE" /\ n.blk > 0
    <2>1. PICK p \in PrepBuffer(c) :
             b = [p EXCEPT !.handler = "cycle", !.stepping = TRUE, !.alarm = "None"]
        BY <1>3, SetCycleSteps, Zenon
    <2> HIDE DEF c
    <2>2. /\ p \in Machines /\ p.st = "CYCLE" /\ p.blk \in 0..n.blk
          /\ Planned(n) => Planned(p)
        BY <1>1, <1>2, PrepBufferType, PrepBufferEffect DEF Planned
    <2>3. b.st = "CYCLE" /\ b.stepping /\ b.blk = p.blk /\ b.plb = p.plb
        BY <2>1, <2>2 DEF Machines
    <2> QED BY <1>3, <2>2, <2>3 DEF Starts, Planned
<1>4. CASE ~(n.st = "IDLE" /\ n.blk > 0)
    <2>1. b = ClearAlarm(n)
        BY <1>4, SetCycleSteps
    <2>2. /\ ClearAlarm(n).st = n.st /\ ClearAlarm(n).blk = n.blk
          /\ ClearAlarm(n).stepping = n.stepping /\ ClearAlarm(n).plb = n.plb
        BY DEF ClearAlarm, Machines
    <2> QED BY <1>4, <2>1, <2>2, ClearAlarmCalm
<1> QED BY <1>3, <1>4

LEMMA InitiateHoldEffect ==
    ASSUME NEW n \in Machines, NEW new \in {"HOLD", "DOOR"}
    PROVE  LET r == InitiateHold(n, new) IN
           /\ r.st = n.st /\ r.stepping = n.stepping /\ r.blk = n.blk
           /\ r.plb \in {n.plb, "none"}
BY DEF InitiateHold, Replan, Machines

LEMMA SetHoldCalm == ASSUME NEW n \in Machines PROVE Calm(n, SetHold(n))
<1> DEFINE held == InitiateHold(n, "HOLD")
<1>1. held \in Machines
    BY InitiateHoldType
<1>2. /\ held.stepping = n.stepping /\ held.blk = n.blk /\ held.plb \in {n.plb, "none"}
    BY InitiateHoldEffect
<1> HIDE DEF held
<1>3. Calm(n, [held EXCEPT !.st = "HOLD", !.alarm = "None"])
    BY <1>1, <1>2 DEF Calm, Planned, Machines
<1>4. Calm(n, [held EXCEPT !.st = "HOLD", !.alarm = "None",
                           !.holding = "Complete", !.handler = "await_resume"])
    BY <1>1, <1>2 DEF Calm, Planned, Machines
<1> QED BY <1>3, <1>4, ClearAlarmCalm DEF SetHold, held

\* A hold request leaves no cycle running as such.
LEMMA SetHoldStarted ==
    ASSUME NEW n \in Machines, NEW c \in Machines, Starts(n, c), c.st = "CYCLE"
    PROVE  Starts(n, SetHold(c))
<1> DEFINE held == InitiateHold(c, "HOLD")
           r == [held EXCEPT !.st = "HOLD", !.alarm = "None"]
<1>1. held \in Machines
    BY InitiateHoldType
<1>2. held.stepping = c.stepping /\ held.blk = c.blk /\ held.plb \in {c.plb, "none"}
    BY InitiateHoldEffect
<1>3. SetHold(c) = r
    BY Zenon DEF SetHold
<1> HIDE DEF held
<1>4. r.st = "HOLD" /\ r.stepping = c.stepping /\ r.blk = c.blk /\ r.plb \in {c.plb, "none"}
    BY <1>1, <1>2 DEF Machines
<1> HIDE DEF r
<1> QED BY <1>3, <1>4 DEF Starts, Planned

LEMMA HoldCompleteCalm ==
    ASSUME NEW n \in Machines, NEW open \in BOOLEAN PROVE Calm(n, HoldComplete(n, open))
<1> DEFINE r == Replan(n)
           rta == IF n.alarmPending # "None" THEN n.alarmPending ELSE r.rta
           parking == IF n.st # "DOOR" THEN r.parking
                      ELSE IF open THEN "DoorAjar" ELSE "DoorClosed"
           stopped == [r EXCEPT !.endMotion = FALSE, !.execHold = FALSE,
                                !.rta = rta, !.parking = parking]
           complete == [stopped EXCEPT !.holding = "Complete", !.handler = "await_resume"]
<1>1. r \in Machines
    BY ReplanType
<1>2. rta \in Alarms /\ parking \in ParkingStates
    <2> HIDE DEF r
    <2> QED BY <1>1, Values, Fields
<1>3. stopped \in Machines
    <2> HIDE DEF r, rta, parking
    <2> QED BY <1>1, <1>2, Values, Zenon DEF Machines
<1>4. r.st = n.st /\ r.stepping = n.stepping /\ r.blk = n.blk /\ r.plb = "none"
    BY DEF Replan, Machines
<1>5. /\ stopped.st = n.st /\ stopped.stepping = n.stepping
      /\ stopped.blk = n.blk /\ stopped.plb = "none"
    <2> HIDE DEF r, rta, parking
    <2> QED BY <1>1, <1>4 DEF Machines
<1>6. /\ complete.st = n.st /\ complete.stepping = n.stepping
      /\ complete.blk = n.blk /\ complete.plb = "none"
    <2> HIDE DEF stopped
    <2> QED BY <1>3, <1>5 DEF Machines
<1>7. HoldComplete(n, open) = IF n.softLimit THEN SetIdle(stopped) ELSE complete
    BY Zenon DEF HoldComplete
<1> HIDE DEF stopped, complete
<1>8. Calm(n, complete)
    BY <1>6 DEF Calm, Planned
<1>9. Calm(n, stopped)
    BY <1>5 DEF Calm, Planned
<1> QED BY <1>3, <1>7, <1>8, <1>9, SetIdleCalm, CalmCalm

LEMMA SetDoorCalm ==
    ASSUME NEW n \in Machines, NEW open \in BOOLEAN PROVE Calm(n, SetDoor(n, open))
<1> DEFINE held == InitiateHold(n, "DOOR")
           door == [held EXCEPT !.st = "DOOR"]
           set == IF n.st = "CYCLE" THEN door
                  ELSE IF held.pending # "DOOR" THEN HoldComplete(door, open) ELSE held
<1>1. held \in Machines
    BY InitiateHoldType
<1>2. door \in Machines
    <2> HIDE DEF held
    <2> QED BY <1>1, Values, Zenon DEF Machines
<1>3. /\ held.st = n.st /\ held.stepping = n.stepping /\ held.blk = n.blk
      /\ held.plb \in {n.plb, "none"}
    BY InitiateHoldEffect
<1>4. Calm(n, held)
    <2> HIDE DEF held
    <2> QED BY <1>3 DEF Calm, Planned
<1>5. Calm(n, door)
    <2> HIDE DEF held
    <2> QED BY <1>1, <1>3 DEF Calm, Planned, Machines
<1>6. SetDoor(n, open) = IF n.st \in {"DOOR", "ALARM", "ESTOP"} THEN n ELSE ClearAlarm(set)
    BY Zenon DEF SetDoor
<1> HIDE DEF held, door
<1>7. Calm(n, HoldComplete(door, open))
    BY <1>2, <1>5, HoldCompleteCalm, CalmCalm
<1>8. set \in Machines /\ Calm(n, set)
    BY <1>1, <1>2, <1>4, <1>5, <1>7, HoldCompleteType
<1> HIDE DEF set
<1> QED BY <1>6, <1>8, ClearAlarmCalm, CalmCalm, CalmSelf

\* A realtime request, but for a resume, starts a planned cycle or starts nothing.
Effect(a, b) == Calm(a, b) \/ Starts(a, b)

LEMMA CalmEffect ==
    ASSUME NEW a, NEW b, NEW c, Calm(a, b), Effect(b, c) PROVE Effect(a, c)
BY CalmCalm, CalmStarts DEF Effect

LEMMA HandleIdleEffect ==
    ASSUME NEW n \in Machines, NEW flags, NEW b \in HandleIdle(n, flags)
    PROVE  Effect(n, b)
<1>1. PICK c \in SetCycle(n) \cup {n} : b \in {c, SetHold(c)}
    BY HandleIdleSteps
<1>2. c \in Machines
    BY SetCycleType
<1>3. Calm(n, c) \/ (Starts(n, c) /\ c.st = "CYCLE")
    BY SetCycleEffect, CalmSelf
<1>4. CASE Calm(n, c)
    BY <1>1, <1>2, <1>4, SetHoldCalm, CalmCalm DEF Effect
<1>5. CASE Starts(n, c) /\ c.st = "CYCLE"
    BY <1>1, <1>2, <1>5, SetHoldStarted DEF Effect
<1> QED BY <1>3, <1>4, <1>5

LEMMA HandleCycleCalm ==
    ASSUME NEW n \in Machines, NEW flags PROVE Calm(n, HandleCycle(n, flags))
<1> DEFINE ended == IF "CYCLE_COMPLETE" \in flags THEN SetIdle(n) ELSE n
           r == Replan(ended)
           slowed == [r EXCEPT !.suspend = TRUE, !.execHold = TRUE,
                               !.handler = "await_motion_cancel"]
           cancelled == IF "MOTION_CANCEL" \notin flags THEN ended ELSE slowed
<1>1. ended \in Machines /\ Calm(n, ended)
    BY SetIdleType, SetIdleCalm, CalmSelf
<1>2. r \in Machines /\ Calm(ended, r)
    <2> HIDE DEF ended
    <2> QED BY <1>1, ReplanType DEF Replan, Calm, Planned, Machines
<1>3. slowed \in Machines
    <2> HIDE DEF r
    <2> QED BY <1>2, Values, Zenon DEF Machines
<1>4. Calm(r, slowed)
    <2> HIDE DEF r
    <2> QED BY <1>2 DEF Calm, Planned, Machines
<1>5. cancelled \in Machines /\ Calm(n, cancelled)
    <2> HIDE DEF ended, r, slowed
    <2> QED BY <1>1, <1>2, <1>3, <1>4, CalmCalm
<1>6. HandleCycle(n, flags) = IF flags = {"CYCLE_START"} THEN n
                           ELSE IF "FEED_HOLD" \in flags THEN SetHold(cancelled) ELSE cancelled
    BY Zenon DEF HandleCycle
<1> HIDE DEF cancelled
<1> QED BY <1>5, <1>6, SetHoldCalm, CalmCalm, CalmSelf

LEMMA ResetsEffect ==
    ASSUME NEW n \in Machines
    PROVE  LET r == StReset(PlanReset(n)) IN
           r.st = n.st /\ ~r.stepping /\ r.blk = 0 /\ r.plb = "none" /\ r.handler = n.handler
<1> DEFINE p == PlanReset(n)
<1>1. p \in Machines /\ p.st = n.st /\ p.blk = 0 /\ p.handler = n.handler
    BY PlanResetType DEF PlanReset, Machines
<1> HIDE DEF p
<1>2. LET r == StReset(p) IN
      r.st = p.st /\ ~r.stepping /\ r.blk = p.blk /\ r.plb = "none" /\ r.handler = p.handler
    BY <1>1 DEF StReset, Machines
<1> QED BY <1>1, <1>2 DEF p

LEMMA HandleMotionCancelCalm ==
    ASSUME NEW n \in Machines, NEW flags, NEW open \in BOOLEAN
    PROVE  Calm(n, HandleMotionCancel(n, flags, open))
<1> DEFINE r == StReset(PlanReset(n))
           stopped == [r EXCEPT !.endMotion = FALSE, !.execHold = FALSE, !.suspend = FALSE]
           reset == IF n.st # "JOG" THEN n ELSE stopped
           set == IF reset.pending = "DOOR" THEN SetDoor(reset, open) ELSE SetIdle(reset)
           alarmed == [set EXCEPT !.rta = set.alarmPending]
<1>1. r \in Machines /\ Calm(n, r)
    BY PlanResetType, StResetType, ResetsEffect DEF Calm, Planned
<1>2. stopped \in Machines
    <2> HIDE DEF r
    <2> QED BY <1>1, Values, Zenon DEF Machines
<1>3. Calm(r, stopped)
    <2> HIDE DEF r
    <2> QED BY <1>1 DEF Calm, Planned, Machines
<1>4. reset \in Machines /\ Calm(n, reset)
    <2> HIDE DEF r, stopped
    <2> QED BY <1>1, <1>2, <1>3, CalmCalm, CalmSelf
<1>5. set \in Machines /\ Calm(n, set)
    <2> HIDE DEF reset
    <2> QED BY <1>4, SetDoorType, SetIdleType, SetDoorCalm, SetIdleCalm, CalmCalm
<1>6. Calm(set, alarmed)
    <2> HIDE DEF set
    <2> QED BY <1>5 DEF Calm, Planned, Machines
<1>7. HandleMotionCancel(n, flags, open) =
         IF "CYCLE_COMPLETE" \notin flags THEN n
         ELSE IF set.alarmPending # "None" THEN alarmed ELSE set
    BY Zenon DEF HandleMotionCancel
<1> HIDE DEF set, alarmed
<1> QED BY <1>5, <1>6, <1>7, CalmCalm, CalmSelf

\* The machine that "restart cycle" starts a cycle of, if there is a block.
LEMMA RestartCycleSteps ==
    ASSUME NEW n \in Machines
    PROVE  \E x \in Machines :
              /\ RestartCycle(n) = SetCycle(x)
              /\ Calm(n, x) /\ x.st = "IDLE" /\ x.blk = n.blk
              /\ x.stepping = n.stepping /\ x.plb = n.plb
<1> DEFINE idle == SetIdle(n)
           x == [idle EXCEPT !.endMotion = n.endMotion, !.execHold = n.execHold]
<1>1. /\ idle \in Machines /\ Calm(n, idle) /\ idle.st = "IDLE" /\ idle.blk = n.blk
      /\ idle.stepping = n.stepping /\ idle.plb = n.plb
    BY SetIdleType, SetIdleCalm, SetIdleEffect
<1>2. n.endMotion \in BOOLEAN /\ n.execHold \in BOOLEAN
    BY Fields
<1>3. x \in Machines
    <2> HIDE DEF idle
    <2> QED BY <1>1, <1>2, Zenon DEF Machines
<1>4. /\ Calm(idle, x) /\ x.st = "IDLE" /\ x.blk = n.blk
      /\ x.stepping = n.stepping /\ x.plb = n.plb
    <2> HIDE DEF idle
    <2> QED BY <1>1 DEF Calm, Planned, Machines
<1>5. Calm(n, x)
    BY <1>1, <1>4, CalmCalm
<1>6. RestartCycle(n) = SetCycle(x)
    BY Zenon DEF RestartCycle
<1> HIDE DEF x
<1> QED BY <1>3, <1>4, <1>5, <1>6

LEMMA RestartCycleEffect ==
    ASSUME NEW n \in Machines, NEW b \in RestartCycle(n)
    PROVE  IF n.blk > 0 THEN Starts(n, b)
           ELSE /\ Calm(n, b) /\ b.st = "IDLE"
                /\ b.stepping = n.stepping /\ b.blk = n.blk /\ b.plb = n.plb
<1>1. PICK x \in Machines :
         /\ RestartCycle(n) = SetCycle(x)
         /\ Calm(n, x) /\ x.st = "IDLE" /\ x.blk = n.blk
         /\ x.stepping = n.stepping /\ x.plb = n.plb
    BY RestartCycleSteps
<1>2. b \in SetCycle(x)
    BY <1>1
<1>3. IF x.blk > 0 THEN Starts(x, b)
      ELSE Calm(x, b) /\ b.st = x.st /\ b.blk = x.blk /\ b.stepping = x.stepping /\ b.plb = x.plb
    BY <1>1, <1>2, SetCycleEffect
<1> QED BY <1>1, <1>3, CalmCalm, CalmStarts

\* The cycle is started twice; what is left for the second start decides.
LEMMA DoorResumeEffect ==
    ASSUME NEW n \in Machines, n.st = "DOOR", NEW b \in DoorResume(n)
    PROVE  Effect(n, b) \/ Resumes(n, b)
<1>1. PICK c \in SetCycle(SetIdle(n)) : b \in RestartCycle(c)
    BY DoorResumeSteps
<1> DEFINE idle == SetIdle(n)
<1>2. idle \in Machines /\ Calm(n, idle) /\ idle.st = "IDLE" /\ idle.blk = n.blk
    BY SetIdleType, SetIdleCalm, SetIdleEffect
<1>3. c \in SetCycle(idle)
    BY <1>1
<1> HIDE DEF idle
<1>4. c \in Machines /\ c.blk \in Nat /\ n.blk \in Nat
    BY <1>2, <1>3, SetCycleType, Fields, MaxBlkAssumption
<1>5. IF n.blk > 0 THEN Starts(idle, c) /\ c.st = "CYCLE" ELSE Calm(idle, c) /\ c.blk = n.blk
    BY <1>2, <1>3, SetCycleEffect
<1>6. IF c.blk > 0 THEN Starts(c, b)
      ELSE /\ Calm(c, b) /\ b.st = "IDLE"
           /\ b.stepping = c.stepping /\ b.blk = c.blk /\ b.plb = c.plb
    BY <1>1, <1>4, RestartCycleEffect
<1>7. CASE n.blk > 0
    <2>1. Starts(n, c)
        BY <1>2, <1>5, <1>7, CalmStarts
    <2>2. CASE c.blk > 0
        <3>1. c.blk \in 0..n.blk /\ b.blk \in 0..c.blk
            BY <1>6, <2>1, <2>2 DEF Starts
        <3>2. b.blk \in 0..n.blk
            BY <1>4, <3>1
        <3>3. Starts(n, b)
            BY <1>6, <2>1, <2>2, <3>2 DEF Starts
        <3> QED BY <3>3 DEF Effect
    <2>3. CASE ~(c.blk > 0)
        BY <1>6, <1>7, <2>1, <2>3 DEF Resumes, Starts, Planned
    <2> QED BY <2>2, <2>3
<1>8. CASE ~(n.blk > 0)
    BY <1>2, <1>5, <1>6, <1>8, CalmCalm DEF Effect
<1> QED BY <1>7, <1>8

LEMMA HandleResumeEffect ==
    ASSUME NEW n \in Machines, NEW flags, NEW open \in BOOLEAN,
           NEW b \in HandleResume(n, flags, open)
    PROVE  Effect(n, b) \/ ("SAFETY_DOOR" \notin flags /\ Resumes(n, b))
<1>1. \A p : Calm(n, [n EXCEPT !.parking = p])
    BY DEF Calm, Planned, Machines
<1>2. Calm(n, n)
    BY CalmSelf
<1>3. CASE "SAFETY_DOOR" \in flags
    BY <1>1, <1>3 DEF HandleResume, Effect
<1>4. CASE "SAFETY_DOOR" \notin flags
    <2>1. \/ b = n \/ b = [n EXCEPT !.parking = "DoorClosed"]
          \/ b \in RestartCycle(n)
          \/ n.st = "DOOR" /\ b \in DoorResume(n)
        BY <1>4, Zenon DEF HandleResume
    <2> QED BY <1>1, <1>2, <1>4, <2>1, RestartCycleEffect, DoorResumeEffect DEF Effect
<1> QED BY <1>3, <1>4

LEMMA HandleEffect ==
    ASSUME NEW n \in Machines, NEW flags, NEW open \in BOOLEAN,
           NEW b \in Handle(n, flags, open)
    PROVE  Effect(n, b) \/ ("SAFETY_DOOR" \notin flags /\ Resumes(n, b))
<1>1. n.handler \in {"idle", "cycle", "await_motion_cancel", "await_hold",
                     "await_resume", "noop"}
    BY Fields DEF Handlers
<1>2. CASE n.handler = "idle"
    BY <1>2, HandleIdleEffect DEF Handle
<1>3. CASE n.handler = "cycle"
    BY <1>3, HandleCycleCalm DEF Handle, Effect
<1>4. CASE n.handler = "await_motion_cancel"
    BY <1>4, HandleMotionCancelCalm DEF Handle, Effect
<1>5. CASE n.handler = "await_hold"
    BY <1>5, HoldCompleteCalm, CalmSelf DEF Handle, Effect
<1>6. CASE n.handler = "await_resume"
    BY <1>6, HandleResumeEffect DEF Handle
<1>7. CASE n.handler = "noop"
    BY <1>7, CalmSelf DEF Handle, Effect
<1> QED BY <1>1, <1>2, <1>3, <1>4, <1>5, <1>6, <1>7

\* Whatever is requested in whatever state: state_update starts the steppers
\* only for a planned block, and only from DOOR with another result than a cycle.
LEMMA StateUpdateEffect ==
    ASSUME NEW n \in Machines, NEW flags, NEW open \in BOOLEAN,
           NEW b \in StateUpdate(n, flags, open)
    PROVE  Effect(n, b) \/ Resumes(n, b)
<1> DEFINE d == IF "SAFETY_DOOR" \in flags /\ n.st # "DOOR" THEN SetDoor(n, open) ELSE n
<1>1. d \in Machines /\ Calm(n, d) /\ ("SAFETY_DOOR" \notin flags => d = n)
    BY SetDoorType, SetDoorCalm, CalmSelf
<1>2. b \in Handle(d, flags, open)
    BY DEF StateUpdate
<1> HIDE DEF d
<1>3. Effect(d, b) \/ ("SAFETY_DOOR" \notin flags /\ Resumes(d, b))
    BY <1>1, <1>2, HandleEffect
<1> QED BY <1>1, <1>3, CalmEffect

\* A locked machine whose handler is state_noop ignores every request.
LEMMA StateUpdateLocked ==
    ASSUME NEW n \in Machines, NEW flags, NEW open \in BOOLEAN,
           n.st \in Locked, n.handler = "noop"
    PROVE  StateUpdate(n, flags, open) = {n}
BY DEF StateUpdate, SetDoor, Locked, Handle

LEMMA RaiseAlarmEffect ==
    ASSUME NEW n \in Machines, NEW a \in Alarms
    PROVE  LET r == RaiseAlarm(n, a) IN
           /\ r.st \in {n.st} \cup Locked
           /\ r.stepping = n.stepping /\ r.blk = n.blk /\ r.plb = n.plb
           /\ r.handler = "noop" \/ (r.st = n.st /\ r.handler = n.handler)
<1> DEFINE raised == [n EXCEPT !.alarm = a,
                               !.alarmPending = IF @ = a THEN "None" ELSE @,
                               !.blocking = a \in Critical]
           locked == IF a = "EStop" THEN "ESTOP" ELSE "ALARM"
           r == SetLocked(raised, locked)
<1>1. raised \in [DOMAIN n -> {raised[x] : x \in DOMAIN n}] /\ DOMAIN raised = DOMAIN n
    OBVIOUS
<1>2. /\ raised.st = n.st /\ raised.stepping = n.stepping /\ raised.blk = n.blk
      /\ raised.plb = n.plb /\ raised.handler = n.handler
    BY DEF Machines
<1>3. DOMAIN n = {"st", "handler", "pending", "rtx", "rta", "alarm", "alarmPending",
                  "abort", "cancel", "suspend", "positionLost", "resetPending",
                  "blocking", "softLimit", "endMotion", "execHold", "holding", "parking",
                  "stepping", "exec", "seg", "blk", "plb", "bad"}
    BY DEF Machines
<1> HIDE DEF raised
<1>4. /\ r.st \in {n.st} \cup Locked
      /\ r.stepping = n.stepping /\ r.blk = n.blk /\ r.plb = n.plb
      /\ r.handler = "noop" \/ (r.st = n.st /\ r.handler = n.handler)
    BY <1>1, <1>2, <1>3 DEF SetLocked, Locked
<1> HIDE DEF r, locked
<1>5. RaiseAlarm(n, a) = IF n.alarm = a THEN n
                         ELSE IF n.st = "ESTOP" \/ n.blocking
                              THEN [n EXCEPT !.alarmPending = a] ELSE r
    BY Zenon DEF RaiseAlarm, r, raised, locked
<1>6. LET p == [n EXCEPT !.alarmPending = a] IN
      /\ p.st = n.st /\ p.stepping = n.stepping /\ p.blk = n.blk
      /\ p.plb = n.plb /\ p.handler = n.handler
    BY DEF Machines
<1> QED BY <1>4, <1>5, <1>6

LEMMA McResetEffect ==
    ASSUME NEW n \in Machines, NEW pressed \in BOOLEAN
    PROVE  LET r == McReset(n, pressed) IN
           /\ r.st = n.st /\ (r.stepping => n.stepping)
           /\ r.blk = n.blk /\ r.plb = n.plb /\ r.handler = n.handler
BY DEF McReset, Flag, Machines

-----------------------------------------------------------------------------
(* What no request does: it begins or ends no abort and no cancel, plans no *)
(* block, and leaves no suspension without an exit.                        *)

\* Nothing is planned, prepared or moving.
Empty(a) == a.blk = 0 /\ a.seg = 0 /\ a.plb = "none" /\ ~a.stepping

\* A suspended machine has a handler that ends the suspension, and of those
\* handlers only the wait for a cancelled motion may be left over in IDLE.
Exits(a) ==
    /\ a.suspend => a.handler \in {"await_hold", "await_resume", "await_motion_cancel"}
    /\ a.handler \in {"await_hold", "await_resume"} => a.st # "IDLE"

\* What no handler of a request does: end or begin an abort or a cancel, plan
\* a block, or leave a suspension without an exit.
Keeps(a, b) == /\ b.abort = a.abort /\ b.cancel = a.cancel
               /\ b.softLimit = a.softLimit
               /\ b.bad => a.bad
               /\ Empty(a) => Empty(b)
               /\ Exits(a) => Exits(b)


LEMMA KeepsSelf == ASSUME NEW a PROVE Keeps(a, a)
BY DEF Keeps

LEMMA KeepsKeeps ==
    ASSUME NEW a, NEW b, NEW c, Keeps(a, b), Keeps(b, c) PROVE Keeps(a, c)
BY DEF Keeps

LEMMA FlagKeeps == ASSUME NEW a \in Machines, NEW f PROVE Keeps(a, Flag(a, f))
BY DEF Flag, Keeps, Exits, Empty, Machines

LEMMA SetIdleKeeps ==
    ASSUME NEW a \in Machines
    PROVE  Keeps(a, SetIdle(a)) /\ (a.st # "IDLE" => ~SetIdle(a).suspend)
BY DEF SetIdle, Keeps, Exits, Empty, Machines

LEMMA ClearAlarmKeeps == ASSUME NEW a \in Machines PROVE Keeps(a, ClearAlarm(a))
BY DEF ClearAlarm, Keeps, Exits, Empty, Machines

LEMMA SetHoldKeeps == ASSUME NEW a \in Machines PROVE Keeps(a, SetHold(a))
BY DEF SetHold, InitiateHold, Replan, ClearAlarm, Keeps, Exits, Empty, Machines

LEMMA HoldCompleteKeeps ==
    ASSUME NEW a \in Machines, a.st # "IDLE", NEW s
    PROVE  Keeps(a, HoldComplete(a, s)) /\ Exits(HoldComplete(a, s))
BY DEF HoldComplete, SetIdle, Replan, Keeps, Exits, Empty, Machines

LEMMA SetDoorKeeps ==
    ASSUME NEW a \in Machines, NEW s \in BOOLEAN PROVE Keeps(a, SetDoor(a, s))
<1> DEFINE held == InitiateHold(a, "DOOR")
           door == [held EXCEPT !.st = "DOOR"]
           set == IF a.st = "CYCLE" THEN door
                  ELSE IF held.pending # "DOOR" THEN HoldComplete(door, s) ELSE held
<1>1. CASE a.st \in {"DOOR", "ALARM", "ESTOP"}
    BY <1>1, KeepsSelf DEF SetDoor
<1>2. CASE a.st \notin {"DOOR", "ALARM", "ESTOP"}
    <2>1. held \in Machines
        BY InitiateHoldType, Values
    <2>2. /\ held.abort = a.abort /\ held.cancel = a.cancel /\ held.softLimit = a.softLimit
          /\ held.bad = a.bad /\ held.st = a.st
          /\ Empty(a) => Empty(held)
          /\ a.st \in {"CYCLE", "JOG"} => held.handler = "await_hold"
          /\ held.pending = "DOOR" => a.st = "JOG"
        BY DEF InitiateHold, Replan, Empty, Machines
    <2> HIDE DEF held
    <2>3. door \in Machines
        BY <2>1, Values, Zenon DEF Machines
    <2>4. /\ door.abort = a.abort /\ door.cancel = a.cancel /\ door.softLimit = a.softLimit
          /\ door.bad = a.bad /\ door.st = "DOOR" /\ door.handler = held.handler
          /\ Empty(a) => Empty(door)
        BY <2>1, <2>2 DEF Empty, Machines
    <2> HIDE DEF door
    <2>5. HoldComplete(door, s) \in Machines
        BY <2>3, HoldCompleteType
    <2>6. Keeps(door, HoldComplete(door, s)) /\ Exits(HoldComplete(door, s))
        BY <2>3, <2>4, HoldCompleteKeeps
    <2>7. set \in Machines /\ Keeps(a, set)
        BY <2>1, <2>2, <2>3, <2>4, <2>5, <2>6 DEF Keeps, Exits
    <2>8. SetDoor(a, s) = ClearAlarm(set)
        BY <1>2, Zenon DEF SetDoor, held, door
    <2> HIDE DEF set
    <2> QED BY <2>7, <2>8, ClearAlarmKeeps, KeepsKeeps
<1> QED BY <1>1, <1>2

\* A cycle must not be started from a suspension.
LEMMA SetCycleKeeps ==
    ASSUME NEW a \in Machines, ~a.suspend, NEW b \in SetCycle(a)
    PROVE  Keeps(a, b) /\ ~b.suspend
<1>1. CASE a.st = "IDLE" /\ a.blk > 0
    <2> DEFINE c == [a EXCEPT !.st = "CYCLE"]
    <2>1. PICK p \in PrepBuffer(c) :
             b = [p EXCEPT !.handler = "cycle", !.stepping = TRUE, !.alarm = "None"]
        BY <1>1, SetCycleSteps, Zenon
    <2>2. c \in Machines
        BY Values, Zenon DEF Machines
    <2>3. /\ c.abort = a.abort /\ c.cancel = a.cancel /\ c.softLimit = a.softLimit
          /\ c.bad = a.bad /\ c.suspend = a.suspend
        BY DEF Machines
    <2> HIDE DEF c
    <2>4. /\ p \in Machines
          /\ p.abort = a.abort /\ p.cancel = a.cancel /\ p.softLimit = a.softLimit
          /\ p.bad => a.bad
          /\ p.suspend = a.suspend
        BY <2>2, <2>3, PrepBufferType, PrepBufferEffect
    <2>5. /\ b.abort = a.abort /\ b.cancel = a.cancel /\ b.softLimit = a.softLimit
          /\ b.bad => a.bad
          /\ b.suspend = a.suspend /\ b.handler = "cycle"
        BY <2>1, <2>4 DEF Machines
    <2>6. ~Empty(a)
        BY <1>1 DEF Empty
    <2> QED BY <2>5, <2>6 DEF Keeps, Exits
<1>2. CASE ~(a.st = "IDLE" /\ a.blk > 0)
    <2>1. b = ClearAlarm(a)
        BY <1>2, SetCycleSteps
    <2>2. ClearAlarm(a).suspend = a.suspend
        BY DEF ClearAlarm, Machines
    <2> QED BY <2>1, <2>2, ClearAlarmKeeps
<1> QED BY <1>1, <1>2

LEMMA RestartCycleKeeps ==
    ASSUME NEW a \in Machines, a.st = "IDLE" => ~a.suspend, NEW b \in RestartCycle(a)
    PROVE  Keeps(a, b)
<1> DEFINE idle == SetIdle(a)
           x == [idle EXCEPT !.endMotion = a.endMotion, !.execHold = a.execHold]
<1>1. idle \in Machines /\ ~idle.suspend /\ Keeps(a, idle)
    BY SetIdleType, SetIdleKeeps DEF SetIdle
<1>2. a.endMotion \in BOOLEAN /\ a.execHold \in BOOLEAN
    BY Fields
<1>3. x \in Machines
    <2> HIDE DEF idle
    <2> QED BY <1>1, <1>2, Zenon DEF Machines
<1>4. ~x.suspend /\ Keeps(idle, x)
    <2> HIDE DEF idle
    <2> QED BY <1>1, <1>2 DEF Keeps, Exits, Empty, Machines
<1> HIDE DEF idle
<1>5. b \in SetCycle(x)
    BY Zenon DEF RestartCycle, idle
<1> HIDE DEF x
<1> QED BY <1>1, <1>3, <1>4, <1>5, SetCycleKeeps, KeepsKeeps

LEMMA DoorResumeKeeps ==
    ASSUME NEW a \in Machines, a.st # "IDLE", NEW b \in DoorResume(a)
    PROVE  Keeps(a, b)
<1>1. PICK c \in SetCycle(SetIdle(a)) : b \in RestartCycle(c)
    BY DoorResumeSteps
<1> DEFINE idle == SetIdle(a)
<1>2. idle \in Machines /\ Keeps(a, idle) /\ ~idle.suspend /\ c \in SetCycle(idle)
    BY <1>1, SetIdleType, SetIdleKeeps
<1> HIDE DEF idle
<1>3. c \in Machines /\ Keeps(idle, c) /\ ~c.suspend
    BY <1>2, SetCycleType, SetCycleKeeps
<1>4. Keeps(c, b)
    BY <1>1, <1>3, RestartCycleKeeps
<1> QED BY <1>2, <1>3, <1>4, KeepsKeeps

LEMMA HandleIdleKeeps ==
    ASSUME NEW a \in Machines, a.handler = "idle", Exits(a), NEW q, NEW b \in HandleIdle(a, q)
    PROVE  Keeps(a, b)
<1>1. PICK c \in SetCycle(a) \cup {a} : b \in {c, SetHold(c)}
    BY HandleIdleSteps
<1>2. c \in Machines /\ Keeps(a, c)
    BY SetCycleType, SetCycleKeeps, KeepsSelf DEF Exits
<1>3. Keeps(a, SetHold(c))
    BY <1>2, SetHoldKeeps, KeepsKeeps
<1> QED BY <1>1, <1>2, <1>3

LEMMA HandleCycleKeeps ==
    ASSUME NEW a \in Machines, NEW q PROVE Keeps(a, HandleCycle(a, q))
BY DEF HandleCycle, SetHold, SetIdle, InitiateHold, Replan, ClearAlarm,
       Keeps, Exits, Empty, Machines

LEMMA ResetsKeep ==
    ASSUME NEW a \in Machines
    PROVE  LET r == StReset(PlanReset(a)) IN Keeps(a, r) /\ Empty(r) /\ ~r.bad
BY DEF StReset, PlanReset, Keeps, Exits, Empty, Machines

\* A jog that was to be cancelled leaves nothing behind.
LEMMA MotionCancelKeeps ==
    ASSUME NEW a \in Machines, NEW q, NEW s \in BOOLEAN
    PROVE  /\ Keeps(a, HandleMotionCancel(a, q, s))
           /\ (a.st = "JOG" /\ "CYCLE_COMPLETE" \in q
                  => Empty(HandleMotionCancel(a, q, s)))
<1> DEFINE r == StReset(PlanReset(a))
           stopped == [r EXCEPT !.endMotion = FALSE, !.execHold = FALSE, !.suspend = FALSE]
           reset == IF a.st # "JOG" THEN a ELSE stopped
           set == IF reset.pending = "DOOR" THEN SetDoor(reset, s) ELSE SetIdle(reset)
           alarmed == [set EXCEPT !.rta = set.alarmPending]
           result == IF set.alarmPending # "None" THEN alarmed ELSE set
<1>1. r \in Machines /\ Keeps(a, r) /\ Empty(r)
    BY PlanResetType, StResetType, ResetsKeep
<1>2. stopped \in Machines
    <2> HIDE DEF r
    <2> QED BY <1>1, Values, Zenon DEF Machines
<1>3. Keeps(r, stopped)
    <2> HIDE DEF r
    <2> QED BY <1>1 DEF Keeps, Exits, Empty, Machines
<1>4. reset \in Machines /\ Keeps(a, reset) /\ (a.st = "JOG" => Empty(reset))
    <2> HIDE DEF r, stopped
    <2> QED BY <1>1, <1>2, <1>3, KeepsKeeps, KeepsSelf DEF Keeps, reset
<1> HIDE DEF r, stopped, reset
<1>5. Keeps(reset, set) /\ set \in Machines
    BY <1>4, SetDoorType, SetIdleType, SetDoorKeeps, SetIdleKeeps
<1> HIDE DEF set
<1>6. Keeps(set, alarmed)
    BY <1>5 DEF Keeps, Exits, Empty, Machines
<1>7. Keeps(set, result)
    BY <1>6, KeepsSelf
<1>8. HandleMotionCancel(a, q, s) = IF "CYCLE_COMPLETE" \notin q THEN a ELSE result
    BY Zenon DEF HandleMotionCancel, set, reset, stopped, r
<1> HIDE DEF result
<1>9. Keeps(a, result) /\ (a.st = "JOG" => Empty(result))
    BY <1>4, <1>5, <1>7, KeepsKeeps DEF Keeps
<1> QED BY <1>8, <1>9, KeepsSelf

LEMMA HandleResumeKeeps ==
    ASSUME NEW a \in Machines, a.handler = "await_resume", Exits(a),
           NEW q, NEW s \in BOOLEAN, NEW b \in HandleResume(a, q, s)
    PROVE  Keeps(a, b)
<1>1. \A p : Keeps(a, [a EXCEPT !.parking = p])
    BY DEF Keeps, Exits, Empty, Machines
<1>2. \/ b = a \/ (\E p : b = [a EXCEPT !.parking = p])
      \/ b \in RestartCycle(a) \/ b \in DoorResume(a)
    BY Zenon DEF HandleResume
<1> QED BY <1>1, <1>2, RestartCycleKeeps, DoorResumeKeeps, KeepsSelf DEF Exits

LEMMA HandleKeeps ==
    ASSUME NEW a \in Machines, Exits(a), NEW q, NEW s \in BOOLEAN, NEW b \in Handle(a, q, s)
    PROVE  Keeps(a, b)
<1>1. a.handler \in {"idle", "cycle", "await_motion_cancel", "await_hold",
                     "await_resume", "noop"}
    BY Fields DEF Handlers
<1>2. CASE a.handler = "idle"
    BY <1>2, HandleIdleKeeps DEF Handle
<1>3. CASE a.handler = "cycle"
    BY <1>3, HandleCycleKeeps DEF Handle
<1>4. CASE a.handler = "await_motion_cancel"
    BY <1>4, MotionCancelKeeps DEF Handle
<1>5. CASE a.handler = "await_hold"
    BY <1>5, HoldCompleteKeeps, KeepsSelf DEF Handle, Exits
<1>6. CASE a.handler = "await_resume"
    BY <1>6, HandleResumeKeeps DEF Handle
<1>7. CASE a.handler = "noop"
    BY <1>7, KeepsSelf DEF Handle
<1> QED BY <1>1, <1>2, <1>3, <1>4, <1>5, <1>6, <1>7

LEMMA StateUpdateKeeps ==
    ASSUME NEW a \in Machines, Exits(a), NEW q, NEW s \in BOOLEAN,
           NEW b \in StateUpdate(a, q, s)
    PROVE  Keeps(a, b)
<1> DEFINE d == IF "SAFETY_DOOR" \in q /\ a.st # "DOOR" THEN SetDoor(a, s) ELSE a
<1>1. d \in Machines /\ Keeps(a, d) /\ b \in Handle(d, q, s)
    BY SetDoorType, SetDoorKeeps, KeepsSelf DEF StateUpdate
<1> HIDE DEF d
<1>2. Exits(d)
    BY <1>1 DEF Keeps
<1> QED BY <1>1, <1>2, HandleKeeps, KeepsKeeps

LEMMA RaiseAlarmKeeps ==
    ASSUME NEW a \in Machines, NEW x \in Alarms PROVE Keeps(a, RaiseAlarm(a, x))
BY DEF RaiseAlarm, SetLocked, Keeps, Exits, Empty, Machines

LEMMA McResetKeeps ==
    ASSUME NEW a \in Machines, NEW e
    PROVE  Keeps(a, McReset(a, e)) /\ McReset(a, e).suspend = a.suspend
BY DEF McReset, Flag, Keeps, Exits, Empty, Machines

-----------------------------------------------------------------------------
(***************************************************************************)
(* The actions of module RealtimeControl.                                  *)
(***************************************************************************)

\* The inductive part of the invariant that is about the machine: a locked
\* machine obeys no request, and no block is prepared that is not planned.
MachineOK(a) == /\ a \in Machines
                /\ a.st \in Locked => a.handler = "noop"
                /\ Planned(a)

\* What the program counter tells of a jog whose steppers are not awake yet.
JogIsReported == pc = "jogwake" => m.st = "JOG"

IInv == TypeOK /\ MachineOK(m) /\ JogIsReported

\* The steps of OperatorView, on machines.
Rests(a, b) == /\ b.st \in {a.st, "IDLE", "HOLD", "DOOR", "ALARM", "ESTOP"}
               /\ b.stepping => a.stepping

Visible(a, b) == \/ Rests(a, b)
                 \/ a.st \notin Locked /\ b.st \in {"CYCLE", "HOLD"} /\ b.stepping
                 \/ a.st = "DOOR" /\ b.st = "IDLE" /\ b.stepping
                 \/ a.st = "IDLE" /\ b.st = "JOG" /\ b.stepping = a.stepping
                 \/ a.st = "JOG" /\ b.st = "JOG" /\ b.stepping

\* Machines that differ in no field these invariants are about.
Same(a, b) == /\ b.st = a.st /\ b.handler = a.handler /\ b.stepping = a.stepping
              /\ b.blk = a.blk /\ b.plb = a.plb

-----------------------------------------------------------------------------
(* How the operators of Machine preserve MachineOK.                        *)

LEMMA SameStep ==
    ASSUME NEW a, NEW b \in Machines, MachineOK(a), Same(a, b)
    PROVE  MachineOK(b) /\ Rests(a, b)
BY DEF MachineOK, Same, Rests, Planned

LEMMA RestsRests ==
    ASSUME NEW a, NEW b, NEW c, Rests(a, b), Rests(b, c) PROVE Rests(a, c)
BY DEF Rests

LEMMA CalmRests == ASSUME NEW a, NEW b, Calm(a, b) PROVE Rests(a, b)
BY DEF Calm, Rests

LEMMA FlagSame == ASSUME NEW a \in Machines, NEW f PROVE Same(a, Flag(a, f))
BY DEF Flag, Same, Machines

LEMMA FlagStep ==
    ASSUME NEW a, MachineOK(a), NEW f \in Flags
    PROVE  MachineOK(Flag(a, f)) /\ Rests(a, Flag(a, f)) /\ Flag(a, f).st = a.st
<1>1. a \in Machines
    BY DEF MachineOK
<1> QED BY <1>1, FlagSame, FlagType, SameStep DEF Same

LEMMA SetIdleStep ==
    ASSUME NEW a, MachineOK(a) PROVE MachineOK(SetIdle(a)) /\ Rests(a, SetIdle(a))
<1>1. a \in Machines
    BY DEF MachineOK
<1>2. SetIdle(a) \in Machines /\ Calm(a, SetIdle(a)) /\ SetIdle(a).st = "IDLE"
    BY <1>1, SetIdleType, SetIdleCalm, SetIdleEffect
<1> QED BY <1>2, CalmRests DEF MachineOK, Calm, Locked

LEMMA SetDoorStep ==
    ASSUME NEW a, MachineOK(a), NEW s \in BOOLEAN
    PROVE  MachineOK(SetDoor(a, s)) /\ Calm(a, SetDoor(a, s))
<1>1. a \in Machines
    BY DEF MachineOK
<1>2. SetDoor(a, s) \in Machines /\ Calm(a, SetDoor(a, s))
    BY <1>1, SetDoorType, SetDoorCalm
<1>3. CASE a.st \in Locked
    <2>1. SetDoor(a, s) = a
        BY <1>3 DEF SetDoor, Locked
    <2> QED BY <1>2, <2>1
<1>4. CASE a.st \notin Locked
    BY <1>2, <1>4 DEF MachineOK, Calm, Locked
<1> QED BY <1>3, <1>4

LEMMA StateUpdateStep ==
    ASSUME NEW a, MachineOK(a), NEW q, NEW s \in BOOLEAN, NEW r \in StateUpdate(a, q, s)
    PROVE  /\ MachineOK(r) /\ Visible(a, r)
           /\ a.blk = 0 => Calm(a, r)
<1>1. a \in Machines
    BY DEF MachineOK
<1>2. r \in Machines /\ (Effect(a, r) \/ Resumes(a, r))
    BY <1>1, StateUpdateType, StateUpdateEffect
<1>3. a.st \in Locked => r = a
    BY <1>1, StateUpdateLocked DEF MachineOK
<1>4. CASE a.st \in Locked
    BY <1>3, <1>4, CalmSelf, CalmRests DEF Visible
<1>5. CASE a.st \notin Locked /\ Calm(a, r)
    BY <1>2, <1>5, CalmRests DEF MachineOK, Visible, Calm, Locked
<1>6. CASE a.st \notin Locked /\ Starts(a, r)
    <2>1. MachineOK(r)
        BY <1>2, <1>6 DEF MachineOK, Starts, Locked
    <2>2. Visible(a, r)
        BY <1>6, Zenon DEF Visible, Starts
    <2>3. a.blk # 0
        BY <1>6 DEF Starts
    <2> QED BY <2>1, <2>2, <2>3
<1>7. CASE a.st \notin Locked /\ Resumes(a, r)
    <2>1. MachineOK(r)
        BY <1>2, <1>7 DEF MachineOK, Resumes, Locked
    <2>2. Visible(a, r)
        BY <1>7, Zenon DEF Visible, Resumes
    <2>3. a.blk # 0
        BY <1>7 DEF Resumes
    <2> QED BY <2>1, <2>2, <2>3
<1> QED BY <1>2, <1>4, <1>5, <1>6, <1>7 DEF Effect

LEMMA RaiseAlarmStep ==
    ASSUME NEW a, MachineOK(a), NEW x \in Alarms
    PROVE  MachineOK(RaiseAlarm(a, x)) /\ Rests(a, RaiseAlarm(a, x))
<1>1. a \in Machines
    BY DEF MachineOK
<1> DEFINE r == RaiseAlarm(a, x)
<1>2. r \in Machines
    BY <1>1, RaiseAlarmType
<1>3. /\ r.st \in {a.st} \cup Locked
      /\ r.stepping = a.stepping /\ r.blk = a.blk /\ r.plb = a.plb
      /\ r.handler = "noop" \/ (r.st = a.st /\ r.handler = a.handler)
    BY <1>1, RaiseAlarmEffect
<1> HIDE DEF r
<1>4. MachineOK(r) /\ Rests(a, r)
    BY <1>2, <1>3 DEF MachineOK, Rests, Planned, Locked
<1> QED BY <1>4 DEF r

LEMMA McResetStep ==
    ASSUME NEW a, MachineOK(a), NEW e \in BOOLEAN
    PROVE  LET r == McReset(a, e) IN MachineOK(r) /\ Rests(a, r) /\ r.st = a.st
<1>1. a \in Machines
    BY DEF MachineOK
<1> DEFINE r == McReset(a, e)
<1>2. r \in Machines
    BY <1>1, McResetType
<1>3. /\ r.st = a.st /\ (r.stepping => a.stepping)
      /\ r.blk = a.blk /\ r.plb = a.plb /\ r.handler = a.handler
    BY <1>1, McResetEffect
<1> HIDE DEF r
<1>4. MachineOK(r) /\ Rests(a, r)
    BY <1>2, <1>3 DEF MachineOK, Rests, Planned
<1> QED BY <1>3, <1>4 DEF r

LEMMA ResetsStep ==
    ASSUME NEW a, MachineOK(a)
    PROVE  LET r == StReset(PlanReset(a)) IN
           MachineOK(r) /\ Rests(a, r) /\ r.st = a.st /\ ~r.stepping /\ r.blk = 0
<1>1. a \in Machines
    BY DEF MachineOK
<1> DEFINE r == StReset(PlanReset(a))
<1>2. r \in Machines
    BY <1>1, PlanResetType, StResetType
<1>3. r.st = a.st /\ ~r.stepping /\ r.blk = 0 /\ r.plb = "none" /\ r.handler = a.handler
    BY <1>1, ResetsEffect
<1> HIDE DEF r
<1>4. MachineOK(r) /\ Rests(a, r)
    BY <1>2, <1>3 DEF MachineOK, Rests, Planned
<1> QED BY <1>3, <1>4 DEF r

-----------------------------------------------------------------------------
(* One step of the program.  ControlOK is what TypeOK says of everything   *)
(* but the machine; Kept(s) is what every step s has to establish.         *)

ControlOK == /\ pc \in Pcs /\ site \in Sites /\ inSusp \in BOOLEAN
             /\ rt \in SUBSET Flags /\ kind \in AllKinds
             /\ estop \in BOOLEAN /\ ajar \in BOOLEAN
             /\ events \in 0..MaxEvents /\ lines \in 0..MaxLines

Kept == ControlOK' /\ MachineOK(m)' /\ JogIsReported' /\ Visible(m, m')

LEMMA Hypotheses == IInv => /\ ControlOK /\ MachineOK(m) /\ m \in Machines /\ JogIsReported
BY DEF IInv, TypeOK, ControlOK, MachineOK

LEMMA VisibleSelf == ASSUME NEW a PROVE Visible(a, a)
BY DEF Visible, Rests

\* The machine stays as it is.
LEMMA IdleStep ==
    ASSUME IInv, m' = m, ControlOK', pc' # "jogwake" \/ pc' = pc PROVE Kept
BY Hypotheses, VisibleSelf DEF Kept, JogIsReported, MachineOK, Planned

\* A step of the main thread that wakes up no jog.
LEMMA MainStep ==
    ASSUME IInv, MachineOK(m)', Visible(m, m'), ControlOK', pc' # "jogwake" PROVE Kept
BY DEF Kept, JogIsReported

\* A step that changes neither the state, nor the steppers, nor the planner.
LEMMA QuietStep ==
    ASSUME IInv, m' \in Machines, Same(m, m'), ControlOK', pc' # "jogwake" \/ pc' = pc
    PROVE  Kept
<1>1. MachineOK(m') /\ Rests(m, m')
    BY Hypotheses, SameStep
<1>2. JogIsReported'
    BY Hypotheses DEF JogIsReported, Same
<1>3. MachineOK(m)'
    BY <1>1 DEF MachineOK, Planned
<1> QED BY <1>1, <1>2, <1>3 DEF Kept, Visible

LEMMA InitStep == Init => IInv
<1> SUFFICES ASSUME Init PROVE IInv
    OBVIOUS
<1>1. m \in Machines
    BY PowerUpType DEF Init
<1>2. m.st = "IDLE" /\ m.plb = "none"
    BY DEF Init, PowerUp
<1>3. ControlOK
    <2>1. pc \in Pcs /\ site \in Sites /\ kind \in AllKinds
        BY DEF Init, Pcs, Sites, AllKinds
    <2>2. rt \in SUBSET Flags /\ inSusp \in BOOLEAN /\ estop \in BOOLEAN /\ ajar \in BOOLEAN
        BY DEF Init
    <2>3. events \in 0..MaxEvents /\ lines \in 0..MaxLines
        BY BoundsAssumption DEF Init
    <2> QED BY <2>1, <2>2, <2>3 DEF ControlOK
<1> QED BY <1>1, <1>2, <1>3 DEF IInv, TypeOK, ControlOK, MachineOK, Planned,
                               JogIsReported, Locked, Init

-----------------------------------------------------------------------------
(* The main loop.                                                          *)

LEMMA ReinitStep == ASSUME IInv, Reinit PROVE Kept
<1> DEFINE cleared == [m EXCEPT
            !.abort = FALSE, !.cancel = FALSE, !.suspend = FALSE,
            !.positionLost = FALSE, !.resetPending = FALSE, !.blocking = FALSE,
            !.softLimit = FALSE, !.endMotion = FALSE, !.execHold = FALSE,
            !.parking = "DoorClosed", !.holding = "NotHolding",
            !.rtx = {}, !.rta = "None"]
           reset == StReset(PlanReset(cleared))
           locked == SetLocked(reset, "ALARM")
<1>1. cleared \in Machines /\ Same(m, cleared)
    <2>1. cleared \in Machines
        BY Hypotheses, ClearedType
    <2>2. Same(m, cleared)
        BY Hypotheses DEF Same, Machines
    <2> QED BY <2>1, <2>2
<1> HIDE DEF cleared
<1>2. MachineOK(cleared) /\ Rests(m, cleared)
    BY <1>1, Hypotheses, SameStep
<1>3. MachineOK(reset) /\ Rests(m, reset)
    BY <1>2, ResetsStep, RestsRests
<1> HIDE DEF reset
<1>4. locked \in Machines
    BY <1>3, SetLockedType DEF MachineOK, Locked
<1>5. MachineOK(locked) /\ Rests(m, locked)
    BY <1>3, <1>4 DEF SetLocked, MachineOK, Planned, Rests, Machines
<1>6. m' = IF m.st = "ESTOP" THEN locked ELSE reset
    BY Zenon DEF Reinit, Reinitialize, locked, reset, cleared
<1>7. MachineOK(m') /\ Visible(m, m')
    <2> HIDE DEF locked
    <2> QED BY <1>3, <1>5, <1>6 DEF Visible
<1>8. ControlOK' /\ pc' = "startup"
    BY Hypotheses DEF Reinit, Goto, executor, pins, ControlOK, Pcs
<1> QED BY <1>7, <1>8, MainStep DEF MachineOK, Planned

\* AutoCycleStart is a request like any other.
LEMMA AutoCycleStartStep ==
    ASSUME IInv, m' = AutoCycleStart PROVE m' \in Machines /\ Same(m, m')
<1>1. /\ Flag(m, "CYCLE_START") \in Machines
      /\ Same(m, Flag(m, "CYCLE_START"))
    BY Hypotheses, FlagType, FlagSame DEF Flags
<1>2. Same(m, m)
    BY DEF Same
<1> QED BY <1>1, <1>2, Hypotheses DEF AutoCycleStart

LEMMA MainLoopStep == ASSUME IInv, MainLoop PROVE Kept
<1> USE Hypotheses
<1>1. CASE Reinit
    BY <1>1, ReinitStep
<1>2. CASE StartupEstop
    <2>1. MachineOK(m') /\ Visible(m, m')
        BY <1>2, RaiseAlarmStep, Values DEF StartupEstop, Visible
    <2>2. ControlOK' /\ pc' = "read"
        BY <1>2 DEF StartupEstop, Goto, executor, pins, ControlOK, Pcs
    <2> QED BY <2>1, <2>2, MainStep DEF MachineOK, Planned
<1>3. CASE StartupLocked
    <2>1. ControlOK' /\ pc' = "read" /\ m' = m
        BY <1>3 DEF StartupLocked, Goto, executor, pins, ControlOK, Pcs
    <2> QED BY <2>1, IdleStep
<1>4. CASE StartupDoor
    <2>1. MachineOK(m') /\ Visible(m, m')
        BY <1>4, SetIdleStep, FlagStep, RestsRests DEF StartupDoor, Visible, Flags
    <2>2. ControlOK' /\ pc' = "alarm"
        BY <1>4 DEF StartupDoor, Call, pins, ControlOK, Pcs, Sites
    <2> QED BY <2>1, <2>2, MainStep DEF MachineOK, Planned
<1>5. CASE StartupIdle
    <2>1. MachineOK(m') /\ Visible(m, m')
        BY <1>5, SetIdleStep DEF StartupIdle, Visible
    <2>2. ControlOK' /\ pc' = "started"
        BY <1>5 DEF StartupIdle, Goto, executor, pins, ControlOK, Pcs
    <2> QED BY <2>1, <2>2, MainStep DEF MachineOK, Planned
<1>6. CASE Started
    <2>1. m.alarmPending \in Alarms
        BY Fields
    <2>2. MachineOK(m') /\ Visible(m, m')
        BY <1>6, <2>1, RaiseAlarmStep, VisibleSelf DEF Started, Visible
    <2>3. ControlOK' /\ pc' = "read"
        BY <1>6 DEF Started, Goto, executor, pins, ControlOK, Pcs
    <2> QED BY <2>2, <2>3, MainStep DEF MachineOK, Planned
<1>7. CASE \E k \in LineKinds : ReadLine(k)
    <2> PICK k \in LineKinds : ReadLine(k)
        BY <1>7
    <2>1. lines' \in 0..MaxLines
        BY BoundsAssumption DEF ReadLine, ControlOK
    <2>2. ControlOK' /\ pc' = "alarm" /\ m' = m
        BY <2>1, LineKindsAssumption DEF ReadLine, Call, pins, ControlOK, Pcs, Sites
    <2> QED BY <2>2, IdleStep
<1>8. CASE LoopEnd
    <2>1. m' \in Machines /\ Same(m, m')
        BY <1>8, AutoCycleStartStep DEF LoopEnd
    <2>2. ControlOK' /\ pc' = "alarm"
        BY <1>8 DEF LoopEnd, Call, pins, ControlOK, Pcs, Sites
    <2> QED BY <2>1, <2>2, QuietStep
<1>9. CASE LoopAgain
    <2>1. [m EXCEPT !.cancel = FALSE] \in Machines
        BY Values, Zenon DEF Machines
    <2>2. Same(m, [m EXCEPT !.cancel = FALSE]) /\ Same(m, m)
        BY DEF Same, Machines
    <2>3. m' \in Machines /\ Same(m, m')
        BY <1>9, <2>1, <2>2 DEF LoopAgain
    <2>4. ControlOK' /\ pc' # "jogwake"
        BY <1>9 DEF LoopAgain, Goto, executor, pins, ControlOK, Pcs
    <2> QED BY <2>3, <2>4, QuietStep
<1>10. CASE AbortedAtEol
    <2>1. ControlOK' /\ pc' = "init" /\ m' = m
        BY <1>10 DEF AbortedAtEol, Goto, executor, pins, ControlOK, Pcs
    <2> QED BY <2>1, IdleStep
<1>11. CASE EndLine
    <2>1. ControlOK' /\ pc' # "jogwake" /\ m' = m
        BY <1>11 DEF EndLine, Goto, executor, pins, ControlOK, Pcs
    <2> QED BY <2>1, IdleStep
<1> QED BY <1>1, <1>2, <1>3, <1>4, <1>5, <1>6, <1>7, <1>8, <1>9, <1>10, <1>11, Zenon
       DEF MainLoop

-----------------------------------------------------------------------------
(* One line.                                                               *)

LEMMA UnlockStep == ASSUME IInv, Unlock PROVE Kept
<1> USE Hypotheses
<1> DEFINE idle == SetIdle(m)
<1>1. MachineOK(idle) /\ Rests(m, idle) /\ idle.alarmPending \in Alarms
    <2>1. MachineOK(idle) /\ Rests(m, idle)
        BY SetIdleStep
    <2>2. idle \in Machines
        BY <2>1 DEF MachineOK
    <2> HIDE DEF idle
    <2> QED BY <2>1, <2>2, Fields
<1> HIDE DEF idle
<1>2. LET r == RaiseAlarm(idle, idle.alarmPending) IN MachineOK(r) /\ Rests(m, r)
    BY <1>1, RaiseAlarmStep, RestsRests
<1>3. m' \in {m, idle, RaiseAlarm(idle, idle.alarmPending)}
    BY DEF Unlock, idle
<1>4. MachineOK(m') /\ Visible(m, m')
    BY <1>1, <1>2, <1>3, VisibleSelf DEF Visible
<1>5. ControlOK' /\ pc' = "endline"
    BY DEF Unlock, Goto, executor, pins, ControlOK, Pcs
<1> QED BY <1>4, <1>5, MainStep DEF MachineOK, Planned

\* plan_buffer_line, and the start of a jog.
LEMMA PlanBlockStep == ASSUME IInv, PlanBlock PROVE Kept
<1> USE Hypotheses
<1> DEFINE planned == [m EXCEPT !.blk = @ + 1, !.bad = @ \/ kind = "bad"]
           jogging == SetJog(planned)
<1>1. planned \in Machines
    <2>1. m.blk + 1 \in 0..MaxBlk
        BY Fields, MaxBlkAssumption DEF PlanBlock
    <2>2. (m.bad \/ kind = "bad") \in BOOLEAN
        OBVIOUS
    <2> QED BY <2>1, <2>2, Zenon DEF Machines
<1>2. /\ planned.st = m.st /\ planned.handler = m.handler
      /\ planned.stepping = m.stepping /\ planned.blk = m.blk + 1
    BY DEF Machines
<1>3. planned.blk > 0
    BY <1>2, Fields
<1> HIDE DEF planned
<1>4. MachineOK(planned) /\ Rests(m, planned)
    BY <1>1, <1>2, <1>3 DEF MachineOK, Planned, Rests
<1>5. jogging \in Machines
    BY <1>1, SetJogType
<1>6. /\ jogging.st = "JOG" /\ jogging.stepping = m.stepping
      /\ jogging.blk > 0
    BY <1>1, <1>2, <1>3 DEF SetJog, Machines
<1> HIDE DEF jogging
<1>7. CASE kind = "jog" /\ m.st = "IDLE"
    <2>1. m' \in PrepBuffer(jogging) /\ pc' = "jogwake"
        BY <1>7, Zenon DEF PlanBlock, Goto, jogging, planned
    <2>2. /\ m' \in Machines /\ m'.st = "JOG" /\ m'.stepping = m.stepping
          /\ Planned(m')
        BY <1>5, <1>6, <2>1, PrepBufferType, PrepBufferEffect DEF Planned
    <2>3. MachineOK(m')
        BY <2>2 DEF MachineOK, Locked
    <2>4. Visible(m, m')
        BY <1>7, <2>2 DEF Visible
    <2>5. ControlOK'
        BY <1>7 DEF PlanBlock, Goto, executor, pins, ControlOK, Pcs
    <2> QED BY <2>1, <2>2, <2>3, <2>4, <2>5 DEF Kept, JogIsReported, MachineOK, Planned
<1>8. CASE ~(kind = "jog" /\ m.st = "IDLE")
    <2>1. m' = planned /\ pc' = "endline"
        BY <1>8, Zenon DEF PlanBlock, Goto, planned
    <2>2. MachineOK(m') /\ Visible(m, m')
        BY <1>4, <2>1 DEF Visible
    <2>3. ControlOK'
        BY <1>8 DEF PlanBlock, Goto, executor, pins, ControlOK, Pcs
    <2> QED BY <2>1, <2>2, <2>3, MainStep DEF MachineOK, Planned
<1> QED BY <1>7, <1>8

\* st_wake_up: the state has been reported as JOG before.
LEMMA JogWakeStep == ASSUME IInv, JogWake PROVE Kept
<1> USE Hypotheses
<1>1. m' \in Machines
    BY Values, Zenon DEF JogWake, Machines
<1>2. /\ m'.st = "JOG" /\ m.st = "JOG" /\ m'.stepping
      /\ m'.blk = m.blk /\ m'.plb = m.plb
    BY DEF JogWake, JogIsReported, Machines
<1>3. MachineOK(m)'
    BY <1>1, <1>2 DEF MachineOK, Planned, Locked
<1>4. Visible(m, m')
    BY <1>2 DEF Visible
<1>5. ControlOK' /\ pc' = "endline"
    BY DEF JogWake, Goto, executor, pins, ControlOK, Pcs
<1> QED BY <1>3, <1>4, <1>5, MainStep

\* A target out of limits.
LEMMA BadLineStep == ASSUME IInv, BadLine PROVE Kept
<1> USE Hypotheses
<1> DEFINE limited == [m EXCEPT !.softLimit = TRUE]
<1>1. limited \in Machines
    BY Values, Zenon DEF Machines
<1>2. Same(m, limited)
    BY DEF Same, Machines
<1> HIDE DEF limited
<1>3. MachineOK(limited) /\ Rests(m, limited)
    BY <1>1, <1>2, SameStep
<1>4. LET r == Flag(limited, "FEED_HOLD") IN MachineOK(r) /\ Rests(m, r)
    BY <1>3, FlagStep, RestsRests DEF Flags
<1>5. m' \in {limited, Flag(limited, "FEED_HOLD")}
    BY DEF BadLine, limited
<1>6. MachineOK(m') /\ Visible(m, m')
    BY <1>3, <1>4, <1>5 DEF Visible
<1>7. ControlOK' /\ pc' # "jogwake"
    BY DEF BadLine, Call, Goto, executor, pins, ControlOK, Pcs, Sites
<1> QED BY <1>6, <1>7, MainStep DEF MachineOK, Planned

LEMMA SoftResetStep == ASSUME IInv, SoftReset PROVE Kept
<1> USE Hypotheses
<1> DEFINE r == McReset(m, estop)
<1>1. estop \in BOOLEAN
    BY DEF ControlOK
<1>2. MachineOK(r) /\ Rests(m, r)
    BY <1>1, McResetStep
<1> HIDE DEF r
<1>3. r \in Machines
    BY <1>2 DEF MachineOK
<1>4. m' = [r EXCEPT !.rta = "SoftLimit"]
    BY Zenon DEF SoftReset, r
<1>5. m' \in Machines
    BY <1>3, <1>4, Values, Zenon DEF Machines
<1>6. Same(r, m')
    BY <1>3, <1>4 DEF Same, Machines
<1>7. MachineOK(m') /\ Visible(m, m')
    BY <1>2, <1>5, <1>6, SameStep, RestsRests DEF Visible
<1>8. ControlOK' /\ pc' = "alarm"
    BY DEF SoftReset, Call, pins, ControlOK, Pcs, Sites
<1> QED BY <1>7, <1>8, MainStep DEF MachineOK, Planned

LEMMA LinesStep == ASSUME IInv, Lines PROVE Kept
<1> USE Hypotheses
<1>1. CASE JogLine \/ RejectLine \/ MoveLine \/ SyncWait \/ SoftWait \/ SoftEnd
           \/ LineStart \/ PlanAborted
    <2>1. m' = m
        BY <1>1 DEF JogLine, RejectLine, MoveLine, SyncWait, SoftWait, SoftEnd,
                    LineStart, PlanAborted
    <2>2. ControlOK' /\ pc' # "jogwake"
        BY <1>1 DEF JogLine, RejectLine, MoveLine, SyncWait, SoftWait, SoftEnd,
                    LineStart, PlanAborted, Call, Goto, executor, pins, ControlOK, Pcs, Sites
    <2> QED BY <2>1, <2>2, IdleStep
<1>2. CASE SyncLine \/ PlanWait
    <2>1. m' \in Machines /\ Same(m, m')
        BY <1>2, AutoCycleStartStep DEF SyncLine, PlanWait
    <2>2. ControlOK' /\ pc' = "alarm"
        BY <1>2 DEF SyncLine, PlanWait, Call, pins, ControlOK, Pcs, Sites
    <2> QED BY <2>1, <2>2, QuietStep
<1> QED BY <1>1, <1>2, UnlockStep, BadLineStep, SoftResetStep, PlanBlockStep, JogWakeStep,
           Zenon DEF Lines

-----------------------------------------------------------------------------
(* The realtime executor.                                                  *)

LEMMA ExecAlarmStep == ASSUME IInv, ExecAlarm PROVE Kept
<1> USE Hypotheses
<1> DEFINE resetting == "RESET" \in m.rtx
           taken == [m EXCEPT !.rta = "None", !.resetPending = resetting]
           raised == RaiseAlarm(taken, m.rta)
           rest == raised.rtx \ {"RESET"}
           critical == [raised EXCEPT !.blocking = TRUE, !.rta = m.rta, !.rtx = rest]
           other == [raised EXCEPT !.blocking = FALSE]
<1>1. resetting \in BOOLEAN /\ m.rta \in Alarms
    BY Fields
<1>2. taken \in Machines /\ Same(m, taken)
    <2> HIDE DEF resetting
    <2>1. taken \in Machines
        BY <1>1, Values, Zenon DEF Machines
    <2>2. Same(m, taken)
        BY DEF Same, Machines
    <2> QED BY <2>1, <2>2
<1> HIDE DEF taken
<1>3. MachineOK(raised) /\ Rests(m, raised)
    BY <1>1, <1>2, SameStep, RaiseAlarmStep, RestsRests
<1> HIDE DEF raised
<1>4. raised \in Machines
    BY <1>3 DEF MachineOK
<1>5. rest \in SUBSET Flags
    BY <1>4, Fields
<1>6. critical \in Machines /\ other \in Machines
    <2> HIDE DEF rest
    <2>1. critical \in Machines
        BY <1>1, <1>4, <1>5, Values, Zenon DEF Machines
    <2>2. other \in Machines
        BY <1>4, Values, Zenon DEF Machines
    <2> QED BY <2>1, <2>2
<1>7. Same(raised, critical) /\ Same(raised, other)
    BY <1>4 DEF Same, Machines
<1> HIDE DEF critical, other
<1>8. \A r \in {critical, other} : MachineOK(r) /\ Visible(m, r)
    BY <1>3, <1>6, <1>7, SameStep, RestsRests DEF Visible
<1>9. m' \in {critical, other}
    BY Zenon DEF ExecAlarm, critical, other, raised, taken, resetting, rest
<1>10. ControlOK' /\ pc' # "jogwake"
    BY DEF ExecAlarm, Goto, executor, pins, ControlOK, Pcs
<1> QED BY <1>8, <1>9, <1>10, MainStep DEF MachineOK, Planned

LEMMA CriticalLoopStep == ASSUME IInv, CriticalLoop PROVE Kept
<1> USE Hypotheses
<1> DEFINE asked == "RESET" \in m.rtx
           left == [m EXCEPT !.abort = TRUE, !.rta = "None"]
           again == [m EXCEPT !.abort = asked]
<1>1. left \in Machines
    BY Values, Zenon DEF Machines
<1>2. again \in Machines
    <2>1. asked \in BOOLEAN
        OBVIOUS
    <2> HIDE DEF asked
    <2> QED BY <2>1, Zenon DEF Machines
<1>3. Same(m, left) /\ Same(m, again)
    BY DEF Same, Machines
<1> HIDE DEF left, again
<1>4. m' \in {left, again}
    BY Zenon DEF CriticalLoop, left, again, asked
<1>5. m' \in Machines /\ Same(m, m')
    BY <1>1, <1>2, <1>3, <1>4
<1>6. ControlOK' /\ (pc' # "jogwake" \/ pc' = pc)
    BY DEF CriticalLoop, ReturnFalse, executor, pins, ControlOK, Pcs
<1> QED BY <1>5, <1>6, QuietStep

LEMMA FetchStep == ASSUME IInv, Fetch PROVE Kept
<1> USE Hypotheses
<1>1. [m EXCEPT !.rtx = {}, !.resetPending = FALSE] \in Machines
    <2>1. {} \in SUBSET Flags
        OBVIOUS
    <2> QED BY <2>1, Values, Zenon DEF Machines
<1>2. Same(m, [m EXCEPT !.rtx = {}, !.resetPending = FALSE]) /\ Same(m, m)
    BY DEF Same, Machines
<1>3. m' \in Machines /\ Same(m, m')
    BY <1>1, <1>2 DEF Fetch
<1>4. m.rtx \in SUBSET Flags
    BY Fields
<1>5. ControlOK' /\ pc' # "jogwake"
    BY <1>4 DEF Fetch, pins, ControlOK, Pcs
<1> QED BY <1>3, <1>5, QuietStep

LEMMA FetchResetStep == ASSUME IInv, FetchReset PROVE Kept
<1> USE Hypotheses
<1> DEFINE abort == ~estop
           taken == [m EXCEPT !.rtx = {}, !.resetPending = TRUE, !.abort = abort]
<1>1. taken \in Machines
    <2>1. {} \in SUBSET Flags /\ abort \in BOOLEAN
        OBVIOUS
    <2> HIDE DEF abort
    <2> QED BY <2>1, Values, Zenon DEF Machines
<1>2. Same(m, taken)
    BY DEF Same, Machines
<1> HIDE DEF taken
<1>3. MachineOK(taken) /\ Rests(m, taken)
    BY <1>1, <1>2, SameStep
<1>4. LET r == RaiseAlarm(taken, "EStop") IN MachineOK(r) /\ Rests(m, r)
    BY <1>3, Values, RaiseAlarmStep, RestsRests
<1>5. m' \in {taken, RaiseAlarm(taken, "EStop")}
    BY Zenon DEF FetchReset, taken, abort
<1>6. MachineOK(m') /\ Visible(m, m')
    BY <1>3, <1>4, <1>5 DEF Visible
<1>7. ControlOK' /\ pc' # "jogwake"
    BY DEF FetchReset, ReturnFalse, ReturnTrue, pins, ControlOK, Pcs
<1> QED BY <1>6, <1>7, MainStep DEF MachineOK, Planned

\* A fast hold changes nothing of the machine that state_update leaves but the ring.
LEMMA UpdatesResult ==
    ASSUME NEW a, NEW r, NEW u \in Updates(a, r)
    PROVE  \/ u \in StateUpdate(a, r, ajar)
           \/ /\ a.handler = "cycle" /\ a.seg = MaxSeg /\ "MOTION_CANCEL" \in r
              /\ \E x \in StateUpdate(a, r, ajar), kept \in 1..MaxSeg :
                    u = [x EXCEPT !.seg = kept]
<1>1. CASE u \in StateUpdate(a, r, ajar)
    BY <1>1
<1>2. CASE u \notin StateUpdate(a, r, ajar)
    BY <1>2 DEF Updates
<1> QED BY <1>1, <1>2

LEMMA UpdatesStep ==
    ASSUME NEW a, MachineOK(a), NEW r, ajar \in BOOLEAN, NEW u \in Updates(a, r)
    PROVE  MachineOK(u) /\ Visible(a, u)
<1>1. PICK updated \in StateUpdate(a, r, ajar) :
         u = updated \/ \E kept \in 1..MaxSeg : u = [updated EXCEPT !.seg = kept]
    BY UpdatesResult
<1>2. MachineOK(updated) /\ Visible(a, updated) /\ updated \in Machines
    BY StateUpdateStep DEF MachineOK
<1> SUFFICES ASSUME NEW kept \in 1..MaxSeg, u = [updated EXCEPT !.seg = kept]
             PROVE  MachineOK(u) /\ Visible(a, u)
    BY <1>1, <1>2
<1>3. kept \in 0..MaxSeg
    OBVIOUS
<1>4. u \in Machines
    BY <1>2, <1>3, Zenon DEF Machines
<1>5. Same(updated, u)
    BY <1>2, <1>3 DEF Same, Machines
<1>6. MachineOK(u)
    BY <1>2, <1>4, <1>5, SameStep
<1> QED BY <1>2, <1>5, <1>6 DEF Visible, Rests, Same

LEMMA ExecUpdateStep == ASSUME IInv, ExecUpdate PROVE Kept
<1> USE Hypotheses
<1>1. ajar \in BOOLEAN
    BY DEF ControlOK
<1>2. MachineOK(m') /\ Visible(m, m')
    BY <1>1, UpdatesStep DEF ExecUpdate
<1>3. ControlOK' /\ pc' = "prep"
    BY DEF ExecUpdate, pins, ControlOK, Pcs
<1> QED BY <1>2, <1>3, MainStep DEF MachineOK, Planned

LEMMA ExecStopStep == ASSUME IInv, ExecStop PROVE Kept
<1> USE Hypotheses
<1> DEFINE cancelled == [m EXCEPT !.cancel = TRUE, !.endMotion = FALSE, !.execHold = FALSE]
           lost == IsStepping(m)
           losing == [cancelled EXCEPT !.positionLost = lost]
<1>1. cancelled \in Machines /\ Same(m, cancelled)
    <2>1. cancelled \in Machines
        BY Values, Zenon DEF Machines
    <2>2. Same(m, cancelled)
        BY DEF Same, Machines
    <2> QED BY <2>1, <2>2
<1> HIDE DEF cancelled
<1>2. MachineOK(cancelled) /\ Rests(m, cancelled)
    BY <1>1, SameStep
<1>3. MachineOK(losing) /\ Rests(m, losing)
    <2>1. losing \in Machines
        <3>1. lost \in BOOLEAN
            BY DEF IsStepping
        <3> HIDE DEF lost
        <3> QED BY <1>1, <3>1, Zenon DEF Machines
    <2>2. Same(cancelled, losing)
        BY <1>1 DEF Same, Machines
    <2> HIDE DEF losing
    <2> QED BY <1>2, <2>1, <2>2, SameStep, RestsRests
<1> HIDE DEF losing
<1>4. \A u \in Updates(cancelled, {"MOTION_CANCEL"}) : MachineOK(u) /\ Visible(m, u)
    <2> TAKE u \in Updates(cancelled, {"MOTION_CANCEL"})
    <2>1. ajar \in BOOLEAN
        BY DEF ControlOK
    <2>2. MachineOK(u) /\ Visible(cancelled, u)
        BY <1>2, <2>1, UpdatesStep
    <2> QED BY <1>1, <2>2 DEF Visible, Rests, Same
<1>5. \/ m' = RaiseAlarm(losing, m.alarmPending)
      \/ m' = cancelled
      \/ m' \in Updates(cancelled, {"MOTION_CANCEL"})
    BY Zenon DEF ExecStop, cancelled, losing, lost
<1>6. LET r == RaiseAlarm(losing, m.alarmPending) IN MachineOK(r) /\ Rests(m, r)
    <2>1. m.alarmPending \in Alarms
        BY Fields
    <2> QED BY <1>3, <2>1, RaiseAlarmStep, RestsRests
<1>7. MachineOK(m') /\ Visible(m, m')
    BY <1>2, <1>4, <1>5, <1>6 DEF Visible
<1>8. ControlOK' /\ pc' # "jogwake"
    BY DEF ExecStop, Goto, executor, pins, ControlOK, Pcs
<1> QED BY <1>7, <1>8, MainStep DEF MachineOK, Planned

LEMMA StopWaitedStep == ASSUME IInv, StopWaited PROVE Kept
<1> USE Hypotheses
<1>1. m' \in Machines
    <2>1. {} \in SUBSET Flags
        OBVIOUS
    <2> QED BY <2>1, Zenon DEF StopWaited, Machines
<1>2. Same(m, m')
    BY DEF StopWaited, Same, Machines
<1>3. rt \cup m.rtx \in SUBSET Flags
    BY Fields DEF ControlOK
<1>4. ControlOK' /\ pc' = "stopped"
    BY <1>3 DEF StopWaited, pins, ControlOK, Pcs
<1> QED BY <1>1, <1>2, <1>4, QuietStep

\* The planner is empty, so that no remaining request can start a cycle.
LEMMA ExecStoppedStep == ASSUME IInv, ExecStopped PROVE Kept
<1> USE Hypotheses
<1> DEFINE reset == StReset(PlanReset(m))
           set == IF m.st = "ALARM" /\ m.alarm = "ProbeProtect" THEN reset
                  ELSE IF ajar THEN SetDoor(reset, ajar) ELSE SetIdle(reset)
           rest == rt \ {"STOP"}
<1>1. ajar \in BOOLEAN
    BY DEF ControlOK
<1>2. MachineOK(reset) /\ Rests(m, reset) /\ reset.blk = 0 /\ reset \in Machines
    BY ResetsStep DEF MachineOK
<1> HIDE DEF reset
<1>3. MachineOK(set) /\ Calm(reset, set)
    <2>1. MachineOK(SetDoor(reset, ajar)) /\ Calm(reset, SetDoor(reset, ajar))
        BY <1>1, <1>2, SetDoorStep
    <2>2. MachineOK(SetIdle(reset)) /\ Calm(reset, SetIdle(reset))
        BY <1>2, SetIdleStep, SetIdleCalm
    <2> QED BY <1>2, <2>1, <2>2, CalmSelf
<1> HIDE DEF set
<1>4. set.blk = 0 /\ Rests(m, set)
    BY <1>2, <1>3, CalmRests, RestsRests DEF Calm
<1>5. \A r \in StateUpdate(set, rest, ajar) : MachineOK(r) /\ Rests(m, r)
    BY <1>1, <1>3, <1>4, StateUpdateStep, CalmRests, RestsRests
<1>6. m' \in IF rest = {} THEN {set} ELSE StateUpdate(set, rest, ajar)
    BY Zenon DEF ExecStopped, reset, set, rest
<1> HIDE DEF rest
<1>7. MachineOK(m') /\ Visible(m, m')
    BY <1>3, <1>4, <1>5, <1>6 DEF Visible
<1>8. ControlOK' /\ pc' = "prep"
    BY DEF ExecStopped, pins, ControlOK, Pcs
<1> QED BY <1>7, <1>8, MainStep DEF MachineOK, Planned

\* A segment is prepared of a planned block, and the last one of a block
\* leaves no block being prepared.
LEMMA PrepStep == ASSUME IInv, PrepMore \/ PrepBlockEnd \/ PrepHoldEnd PROVE Kept
<1> USE Hypotheses
<1>1. m.seg < MaxSeg /\ m.blk > 0 /\ m.seg + 1 \in 0..MaxSeg /\ m.blk - 1 \in 0..MaxBlk
    BY Fields, MaxSegAssumption, MaxBlkAssumption
       DEF PrepMore, PrepBlockEnd, PrepHoldEnd, Preparing, CanPrep, MachineOK, Planned
<1>2. /\ m'.st = m.st /\ m'.stepping = m.stepping /\ m'.handler = m.handler
      /\ m'.blk = m.blk \/ m'.plb = "none"
    BY DEF PrepMore, PrepBlockEnd, PrepHoldEnd, PrepSegment, Machines
<1>3. m' \in Machines
    <2>1. CASE PrepMore
        BY <1>1, <2>1, PrepSegmentType DEF PrepMore
    <2>2. CASE PrepBlockEnd
        <3>1. (m.bad /\ m.blk > 1) \in BOOLEAN
            OBVIOUS
        <3> QED BY <1>1, <2>2, <3>1, Values, Zenon DEF PrepBlockEnd, Machines
    <2>3. CASE PrepHoldEnd
        <3>1. [m EXCEPT !.seg = @ + 1, !.plb = "decel", !.endMotion = TRUE] \in Machines
            BY <1>1, Values, Zenon DEF Machines
        <3>2. [m EXCEPT !.plb = "decel", !.endMotion = TRUE] \in Machines
            BY Values, Zenon DEF Machines
        <3> QED BY <2>3, <3>1, <3>2 DEF PrepHoldEnd
    <2> QED BY <2>1, <2>2, <2>3
<1>4. MachineOK(m)'
    BY <1>1, <1>2, <1>3 DEF MachineOK, Planned
<1>5. Visible(m, m')
    BY <1>2 DEF Visible, Rests
<1>6. ControlOK' /\ pc' = pc
    BY DEF PrepMore, PrepBlockEnd, PrepHoldEnd, executor, pins, ControlOK
<1>7. JogIsReported'
    BY <1>2, <1>6 DEF JogIsReported
<1> QED BY <1>4, <1>5, <1>6, <1>7 DEF Kept

LEMMA ReturnStep == ASSUME IInv, Return \/ SuspendLoop PROVE Kept
<1> USE Hypotheses
<1>1. CASE Return
    <2>1. [m EXCEPT !.blocking = FALSE] \in Machines
        BY Values, Zenon DEF Machines
    <2>2. Same(m, [m EXCEPT !.blocking = FALSE]) /\ Same(m, m)
        BY DEF Same, Machines
    <2>3. m' \in Machines /\ Same(m, m')
        BY <1>1, <2>1, <2>2 DEF Return
    <2>4. ControlOK' /\ pc' # "jogwake"
        BY <1>1 DEF Return, pins, ControlOK, Pcs
    <2> QED BY <2>3, <2>4, QuietStep
<1>2. CASE SuspendLoop
    <2>1. m' \in Machines /\ Same(m, m')
        <3>1. Same(m, m)
            BY DEF Same
        <3> QED BY <1>2, <3>1, FlagType, FlagSame DEF SuspendLoop, Flags
    <2>2. ControlOK' /\ pc' = "alarm"
        BY <1>2 DEF SuspendLoop, executor, pins, ControlOK, Pcs
    <2> QED BY <2>1, <2>2, QuietStep
<1> QED BY <1>1, <1>2

LEMMA ExecutorStep == ASSUME IInv, Executor PROVE Kept
<1> USE Hypotheses
<1>1. CASE NoAlarm \/ PrepDone \/ SuspendEnd
    <2>1. m' = m
        BY <1>1 DEF NoAlarm, PrepDone, SuspendEnd
    <2>2. ControlOK' /\ pc' # "jogwake"
        BY <1>1 DEF NoAlarm, PrepDone, SuspendEnd, ReturnFalse, ReturnTrue, Goto,
                    executor, pins, ControlOK, Pcs
    <2> QED BY <2>1, <2>2, IdleStep
<1> QED BY <1>1, ExecAlarmStep, CriticalLoopStep, FetchStep, FetchResetStep, ExecUpdateStep,
           ExecStopStep, StopWaitedStep, ExecStoppedStep, PrepStep, ReturnStep, Zenon
       DEF Executor

-----------------------------------------------------------------------------
(* Interrupts: the main thread stays where it is, and so does the state.   *)

LEMMA InterruptStep ==
    ASSUME IInv, MachineOK(m)', Rests(m, m'), m'.st = m.st, ControlOK', pc' = pc
    PROVE  Kept
BY Hypotheses DEF Kept, JogIsReported, Visible

LEMMA InputCounted == ASSUME ControlOK, NEW i, Input(i) PROVE events' \in 0..MaxEvents
BY BoundsAssumption DEF Input, ControlOK

LEMMA StepperStep == ASSUME IInv, Stepper PROVE Kept
<1> USE Hypotheses
<1>1. CASE StepperSegment
    <2>1. m.seg - 1 \in 0..MaxSeg
        BY <1>1, Fields, MaxSegAssumption DEF StepperSegment
    <2>2. m' \in Machines
        BY <1>1, <2>1, Values, Zenon DEF StepperSegment, Machines
    <2>3. Same(m, m')
        BY <1>1 DEF StepperSegment, Same, Machines
    <2>4. ControlOK' /\ pc' = pc
        BY <1>1 DEF StepperSegment, executor, pins, ControlOK
    <2> QED BY <2>2, <2>3, <2>4, QuietStep
<1>2. CASE StepperEmpty
    <2> DEFINE f == Flag(m, "CYCLE_COMPLETE")
    <2>1. f \in Machines /\ Same(m, f)
        BY FlagType, FlagSame DEF Flags
    <2>2. m' = [f EXCEPT !.stepping = FALSE, !.exec = FALSE]
        BY <1>2 DEF StepperEmpty
    <2> HIDE DEF f
    <2>3. m' \in Machines
        BY <2>1, <2>2, Values, Zenon DEF Machines
    <2>4. /\ m'.st = m.st /\ ~m'.stepping /\ m'.handler = m.handler
          /\ m'.blk = m.blk /\ m'.plb = m.plb
        BY <2>1, <2>2 DEF Same, Machines
    <2>5. MachineOK(m)' /\ Rests(m, m')
        BY <2>3, <2>4 DEF MachineOK, Planned, Rests
    <2>6. ControlOK' /\ pc' = pc
        BY <1>2 DEF StepperEmpty, executor, pins, ControlOK
    <2> QED BY <2>4, <2>5, <2>6, InterruptStep
<1> QED BY <1>1, <1>2 DEF Stepper

LEMMA EnvironmentStep == ASSUME IInv, Environment PROVE Kept
<1> USE Hypotheses
<1>1. CASE Stop \/ FeedHold \/ CycleStart \/ JogCancel \/ DoorCommand \/ DoorOpens
    <2> DEFINE f(x) == Flag(m, x)
    <2>1. \A x \in Flags : MachineOK(f(x)) /\ Rests(m, f(x)) /\ f(x).st = m.st
        BY FlagStep
    <2>2. \E x \in Flags : m' = f(x)
        <3>1. {"STOP", "FEED_HOLD", "CYCLE_START", "MOTION_CANCEL", "SAFETY_DOOR"} \subseteq Flags
            BY DEF Flags
        <3> QED BY <1>1, <3>1 DEF Stop, FeedHold, CycleStart, JogCancel, DoorCommand, DoorOpens
    <2> HIDE DEF f
    <2>3. MachineOK(m') /\ Rests(m, m') /\ m'.st = m.st
        BY <2>1, <2>2
    <2>4. events' \in 0..MaxEvents
        BY <1>1, InputCounted, Zenon
           DEF Stop, FeedHold, CycleStart, JogCancel, DoorCommand, DoorOpens
    <2>5. ControlOK' /\ pc' = pc
        BY <1>1, <2>4 DEF Stop, FeedHold, CycleStart, JogCancel, DoorCommand, DoorOpens,
                          Input, executor, pins, ControlOK
    <2> QED BY <2>3, <2>5, InterruptStep DEF MachineOK, Planned
<1>2. CASE Reset \/ EStopPressed
    <2>1. \A e \in BOOLEAN : LET r == McReset(m, e) IN
             MachineOK(r) /\ Rests(m, r) /\ r.st = m.st
        BY McResetStep
    <2>2. MachineOK(m') /\ Rests(m, m') /\ m'.st = m.st
        <3>1. Rests(m, m)
            BY DEF Rests
        <3>2. m' = m \/ \E e \in BOOLEAN : m' = McReset(m, e)
            BY <1>2 DEF Reset, EStopPressed, ControlOK
        <3> QED BY <2>1, <3>1, <3>2
    <2>3. events' \in 0..MaxEvents
        BY <1>2, InputCounted, Zenon DEF Reset, EStopPressed
    <2>4. ControlOK' /\ pc' = pc
        BY <1>2, <2>3 DEF Reset, EStopPressed, Input, executor, pins, ControlOK
    <2> QED BY <2>2, <2>4, InterruptStep DEF MachineOK, Planned
<1>3. CASE DoorCloses \/ EStopReleased
    <2>1. ControlOK' /\ pc' = pc /\ m' = m
        BY <1>3 DEF DoorCloses, EStopReleased, executor, pins, ControlOK
    <2> QED BY <2>1, IdleStep
<1>4. CASE ProbeTripped
    <2> DEFINE f == Flag(m, "STOP")
    <2>1. f \in Machines /\ Same(m, f)
        BY FlagType, FlagSame DEF Flags
    <2>2. m' = [f EXCEPT !.alarmPending = "ProbeProtect"]
        BY <1>4 DEF ProbeTripped
    <2> HIDE DEF f
    <2>3. m' \in Machines
        BY <2>1, <2>2, Values, Zenon DEF Machines
    <2>4. Same(m, m')
        BY <2>1, <2>2 DEF Same, Machines
    <2>5. events' \in 0..MaxEvents
        BY <1>4, InputCounted DEF ProbeTripped
    <2>6. ControlOK' /\ pc' = pc
        BY <1>4, <2>5 DEF ProbeTripped, Input, executor, pins, ControlOK
    <2> QED BY <2>3, <2>4, <2>6, QuietStep
<1>5. CASE LimitTripped
    <2> DEFINE r == McReset(m, estop)
    <2>1. MachineOK(r) /\ Rests(m, r) /\ r.st = m.st
        BY McResetStep DEF ControlOK
    <2>2. m' = [r EXCEPT !.rta = "HardLimit"]
        BY <1>5 DEF LimitTripped
    <2> HIDE DEF r
    <2>3. m' \in Machines /\ Same(r, m')
        <3>1. r \in Machines
            BY <2>1 DEF MachineOK
        <3>2. m' \in Machines
            BY <2>2, <3>1, Values, Zenon DEF Machines
        <3>3. Same(r, m')
            BY <2>2, <3>1 DEF Same, Machines
        <3> QED BY <3>2, <3>3
    <2>4. MachineOK(m') /\ Rests(m, m') /\ m'.st = m.st
        BY <2>1, <2>3, SameStep, RestsRests DEF Same
    <2>5. events' \in 0..MaxEvents
        BY <1>5, InputCounted DEF LimitTripped
    <2>6. ControlOK' /\ pc' = pc
        BY <1>5, <2>5 DEF LimitTripped, Input, executor, pins, ControlOK
    <2> QED BY <2>4, <2>6, InterruptStep DEF MachineOK, Planned
<1> QED BY <1>1, <1>2, <1>3, <1>4, <1>5, Zenon DEF Environment

-----------------------------------------------------------------------------
(* The theorems.                                                           *)

LEMMA NextStep == ASSUME IInv, Next PROVE Kept
BY MainLoopStep, LinesStep, ExecutorStep, StepperStep, EnvironmentStep, Zenon
   DEF Next, Main

LEMMA KeptInvariant == ASSUME Kept PROVE IInv'
BY DEF Kept, IInv, TypeOK, ControlOK, MachineOK

\* IInv holds initially and every step, or stutter, keeps it.
LEMMA Invariance == Spec => []IInv
<1>1. Init => IInv
    BY InitStep
<1>2. IInv /\ [Next]_vars => IInv'
    <2> SUFFICES ASSUME IInv, [Next]_vars PROVE IInv'
        OBVIOUS
    <2>1. CASE Next
        BY <2>1, NextStep, KeptInvariant
    <2>2. CASE UNCHANGED vars
        BY <2>2 DEF vars, executor, pins, IInv, TypeOK, MachineOK, Planned, JogIsReported
    <2> QED BY <2>1, <2>2
<1> QED BY <1>1, <1>2, PTL DEF Spec

\* Every variable of realtime control keeps its type, the rings of segments and
\* of blocks never overflow, and neither count drops below zero: what
\* st_prep_buffer, plan_buffer_line and the stepper interrupt test is enough.
THEOREM TypeCorrect == Spec => []TypeOK
<1>1. IInv => TypeOK
    BY DEF IInv
<1> QED BY <1>1, Invariance, PTL

\* pl_block of stepper.c is never kept beyond the block it points to: every
\* plan_reset() comes with the st_reset() that drops it.
THEOREM PreparedBlockPlanned == Spec => []PreparedBlockIsPlanned
<1>1. IInv => PreparedBlockIsPlanned
    BY DEF IInv, MachineOK, Planned, PreparedBlockIsPlanned
<1> QED BY <1>1, Invariance, PTL

LEMMA VisibleNext ==
    ASSUME m \in Machines, m' \in Machines, Visible(m, m') PROVE [View!Next]_(View!vars)
<1>1. /\ m.st \in States /\ m'.st \in States
      /\ m.stepping \in BOOLEAN /\ m'.stepping \in BOOLEAN
    BY Fields
<1>2. CASE Rests(m, m')
    BY <1>1, <1>2 DEF Rests, States, View!Next, View!vars, View!Halt, View!Switch, View!Lock,
       View!Unlock, View!Modes, View!LockedModes, View!Unlocked
<1>3. CASE m.st \notin Locked /\ m'.st \in {"CYCLE", "HOLD"} /\ m'.stepping
    BY <1>1, <1>3 DEF Locked, States, View!Next, View!StartCycle, View!Modes,
       View!LockedModes, View!Unlocked
<1>4. CASE m.st = "IDLE" /\ m'.st = "JOG" /\ m'.stepping = m.stepping
    BY <1>4 DEF View!Next, View!BeginJog
<1>5. CASE m.st = "JOG" /\ m'.st = "JOG" /\ m'.stepping
    BY <1>1, <1>5 DEF View!Next, View!StartJog
<1>6. CASE m.st = "DOOR" /\ m'.st = "IDLE" /\ m'.stepping
    BY <1>6 DEF View!Next, View!ResumeDoor
<1> QED BY <1>2, <1>3, <1>4, <1>5, <1>6 DEF Visible

\* Realtime control keeps every promise of OperatorView: whatever is pressed,
\* tripped or sent, at whatever moment, motors start in an unlocked mode only
\* and in a mode that says so, with one exception: a resume from the door may
\* start them and report IDLE, when its first start has used up the last block.
THEOREM Refinement == Spec => ImplementsOperatorView
<1>1. Init => View!Init
    BY DEF Init, PowerUp, View!Init
<1>2. IInv /\ [Next]_vars => [View!Next]_(View!vars)
    <2> SUFFICES ASSUME IInv, [Next]_vars PROVE [View!Next]_(View!vars)
        OBVIOUS
    <2>1. CASE Next
        <3>1. Kept
            BY <2>1, NextStep
        <3> QED BY <3>1, Hypotheses, VisibleNext DEF Kept, MachineOK
    <2>2. CASE UNCHANGED vars
        BY <2>2 DEF vars, View!vars
    <2> QED BY <2>1, <2>2
<1> QED BY <1>1, <1>2, Invariance, PTL DEF Spec, View!Spec, ImplementsOperatorView

-----------------------------------------------------------------------------
(* The inductive invariant, on top of IInv.                                *)

InExecutor == {"alarm", "fetch", "exec", "stopping", "stopped", "prep", "ret", "susp", "back"}

\* A call of the executor returns from a suspension only to be aborted.
SuspensionsOK == Exits(m) /\ (pc = "back" => ~m.suspend \/ Aborted(m))

StopsOK == /\ m.cancel /\ pc \notin {"stopping", "stopped"} => Empty(m)
           /\ pc = "jogwake" => ~m.cancel

\* A line out of limits is given up: the reset that its check has requested is
\* taken, at the latest, by the first check point after it.
GivenUp == \/ Aborted(m)
           \/ /\ site = "softend" /\ pc = "alarm"
              /\ m.rta \in Critical /\ "RESET" \in m.rtx

LimitsOK == "estop" \notin Inputs =>
    /\ ~m.bad
    /\ m.abort /\ pc # "critical" => ~estop
    /\ kind = "bad" /\ site \in {"softend", "line", "wait"} /\ pc \in InExecutor => GivenUp

JogsOK == /\ pc \in {"startup", "started"} => Empty(m)
          /\ "bad" \notin LineKinds => kind # "bad" /\ ~m.softLimit

Safe == SuspensionsOK /\ StopsOK /\ LimitsOK /\ JogsOK

\* What a step establishes; the second part is JogCancelDiscards.
Discards(a, b) ==
    a.st = "JOG" /\ a.handler = "await_motion_cancel" /\ b.st = "IDLE" => Empty(b)

SafeKept == Safe' /\ ("bad" \notin LineKinds => Discards(m, m'))

LEMMA InitSafe == Init => Safe
BY DEF Init, PowerUp, Safe, SuspensionsOK, Exits, StopsOK, Empty, LimitsOK, JogsOK,
       InExecutor, Aborted

-----------------------------------------------------------------------------
(* Every step keeps it.                                                    *)

USE DEF SafeKept, Discards, Safe, SuspensionsOK, Exits, StopsOK, Empty, LimitsOK, JogsOK,
        GivenUp, InExecutor, Aborted

LEMMA ReinitSafe == ASSUME IInv, Safe, Reinit PROVE SafeKept
BY Hypotheses DEF Reinit, Reinitialize, StReset, PlanReset, SetLocked, Goto, executor, pins,
   Machines

LEMMA StartedSafe == ASSUME IInv, Safe, Started PROVE SafeKept
<1>1. m.alarmPending \in Alarms
    BY Hypotheses, Fields
<1> DEFINE raised == RaiseAlarm(m, m.alarmPending)
<1>2. Keeps(m, raised) /\ raised.st \in {m.st} \cup Locked
    BY <1>1, Hypotheses, RaiseAlarmKeeps, RaiseAlarmEffect
<1> HIDE DEF raised
<1>3. m' \in {m, raised}
    BY DEF Started, raised
<1>4. Keeps(m, m') /\ m'.st \in {m.st} \cup Locked
    BY <1>2, <1>3, KeepsSelf
<1> QED BY <1>4, Hypotheses DEF Started, Keeps, Locked, Goto, executor, pins

LEMMA MainLoopSafe == ASSUME IInv, Safe, MainLoop PROVE SafeKept
<1> USE Hypotheses
<1>1. CASE StartupEstop
    <2>1. Keeps(m, m') /\ m'.st \in {m.st} \cup Locked
        BY <1>1, Values, RaiseAlarmKeeps, RaiseAlarmEffect DEF StartupEstop
    <2> QED BY <1>1, <2>1 DEF StartupEstop, Keeps, Locked, Goto, executor, pins
<1>2. CASE StartupLocked
    BY <1>2 DEF StartupLocked, Goto, executor, pins
<1>3. CASE StartupDoor
    BY <1>3 DEF StartupDoor, SetIdle, Flag, Call, pins, Machines
<1>4. CASE StartupIdle
    BY <1>4 DEF StartupIdle, SetIdle, Goto, executor, pins, Machines
<1>5. CASE \E k \in LineKinds : ReadLine(k)
    BY <1>5 DEF ReadLine, Call, pins
<1>6. CASE LoopEnd
    BY <1>6 DEF LoopEnd, AutoCycleStart, Flag, Call, pins, Machines
<1>7. CASE LoopAgain
    BY <1>7 DEF LoopAgain, Goto, executor, pins, Machines
<1>8. CASE AbortedAtEol \/ EndLine
    BY <1>8 DEF AbortedAtEol, EndLine, Goto, executor, pins
<1> QED BY <1>1, <1>2, <1>3, <1>4, <1>5, <1>6, <1>7, <1>8, ReinitSafe, StartedSafe
       DEF MainLoop

LEMMA UnlockSafe == ASSUME IInv, Safe, Unlock PROVE SafeKept
<1> USE Hypotheses
<1> DEFINE idle == SetIdle(m)
<1>1. idle \in Machines /\ Keeps(m, idle)
    BY SetIdleType, SetIdleKeeps
<1> HIDE DEF idle
<1>2. Keeps(m, RaiseAlarm(idle, idle.alarmPending))
    BY <1>1, Fields, RaiseAlarmKeeps, KeepsKeeps
<1>3. m' = m \/ (m.st \in Locked /\ m' \in {idle, RaiseAlarm(idle, idle.alarmPending)})
    BY DEF Unlock, idle
<1>4. Keeps(m, m')
    BY <1>1, <1>2, <1>3, KeepsSelf
<1> QED BY <1>3, <1>4 DEF Unlock, AtLine, Keeps, Locked, Goto, executor, pins

LEMMA PlanBlockSafe == ASSUME IInv, Safe, PlanBlock PROVE SafeKept
<1> USE Hypotheses
<1> DEFINE planned == [m EXCEPT !.blk = @ + 1, !.bad = @ \/ kind = "bad"]
           jogging == SetJog(planned)
<1>1. CASE kind = "jog" /\ m.st = "IDLE"
    <2>1. jogging \in Machines
        <3>1. m.blk + 1 \in 0..MaxBlk
            BY Fields, MaxBlkAssumption DEF PlanBlock
        <3>2. (m.bad \/ kind = "bad") \in BOOLEAN
            OBVIOUS
        <3>3. planned \in Machines
            BY <3>1, <3>2, Zenon DEF Machines
        <3> QED BY <3>3, SetJogType
    <2>2. /\ jogging.st = "JOG" /\ jogging.handler = "cycle" /\ jogging.suspend = m.suspend
          /\ jogging.abort = m.abort /\ jogging.cancel = m.cancel
          /\ jogging.softLimit = m.softLimit /\ jogging.bad = m.bad
        BY <1>1 DEF SetJog, Machines
    <2>3. m' \in PrepBuffer(jogging) /\ pc' = "jogwake" /\ ~Aborted(m) /\ pc = "back"
        BY <1>1, Zenon DEF PlanBlock, Goto
    <2> HIDE DEF jogging
    <2>4. /\ m'.st = "JOG" /\ m'.handler = "cycle" /\ m'.suspend = m.suspend
          /\ m'.abort = m.abort /\ m'.cancel = m.cancel /\ m'.softLimit = m.softLimit
          /\ m'.bad => m.bad
        BY <2>1, <2>2, <2>3, PrepBufferEffect
    <2> QED BY <1>1, <2>3, <2>4 DEF PlanBlock, Goto, executor, pins
<1>2. CASE ~(kind = "jog" /\ m.st = "IDLE")
    BY <1>2 DEF PlanBlock, Goto, executor, pins, Machines
<1> QED BY <1>1, <1>2

LEMMA LinesSafe == ASSUME IInv, Safe, Lines PROVE SafeKept
<1> USE Hypotheses
<1>1. CASE JogLine \/ RejectLine \/ MoveLine \/ SyncWait \/ SoftWait
    BY <1>1 DEF JogLine, RejectLine, MoveLine, SyncWait, SoftWait, AtLine, Call, Goto,
                executor, pins
<1>2. CASE SoftEnd \/ LineStart \/ PlanAborted
    BY <1>2 DEF SoftEnd, LineStart, PlanAborted, Call, Goto, executor, pins
<1>3. CASE SyncLine \/ PlanWait
    BY <1>3 DEF SyncLine, PlanWait, AtLine, AutoCycleStart, Flag, Call, pins, Machines
<1>4. CASE BadLine
    <2>1. CASE m.st = "CYCLE"
        BY <1>4, <2>1 DEF BadLine, AtLine, Flag, Call, pins, Machines
    <2>2. CASE m.st # "CYCLE"
        BY <1>4, <2>2 DEF BadLine, AtLine, Goto, executor, pins, Machines
    <2> QED BY <2>1, <2>2
<1>5. CASE SoftReset
    <2> DEFINE r == McReset(m, estop)
    <2>1. r \in Machines /\ Keeps(m, r) /\ r.st = m.st
        BY McResetType, McResetKeeps, McResetEffect DEF ControlOK
    <2>2. "RESET" \in r.rtx
        BY DEF McReset, Flag, Machines
    <2> HIDE DEF r
    <2>3. m' = [r EXCEPT !.rta = "SoftLimit"]
        BY <1>5, Zenon DEF SoftReset, r
    <2> QED BY <1>5, <2>1, <2>2, <2>3 DEF SoftReset, Keeps, Critical, Call, pins, Machines
<1>6. CASE JogWake
    BY <1>6 DEF JogWake, Goto, executor, pins, Machines
<1> QED BY <1>1, <1>2, <1>3, <1>4, <1>5, <1>6, UnlockSafe, PlanBlockSafe DEF Lines

LEMMA ExecAlarmSafe == ASSUME IInv, Safe, ExecAlarm PROVE SafeKept
<1> USE Hypotheses
<1> DEFINE resetting == "RESET" \in m.rtx
           taken == [m EXCEPT !.rta = "None", !.resetPending = resetting]
           raised == RaiseAlarm(taken, m.rta)
<1>1. resetting \in BOOLEAN /\ m.rta \in Alarms
    BY Fields
<1>2. taken \in Machines
    <2> HIDE DEF resetting
    <2> QED BY <1>1, Values, Zenon DEF Machines
<1>3. Keeps(m, taken) /\ taken.st = m.st
    BY DEF Keeps, Machines
<1> HIDE DEF taken
<1>4. raised \in Machines /\ Keeps(m, raised) /\ raised.st \in {m.st} \cup Locked
    BY <1>1, <1>2, <1>3, RaiseAlarmType, RaiseAlarmKeeps, RaiseAlarmEffect, KeepsKeeps
<1>5. /\ m' \in {[raised EXCEPT !.blocking = TRUE, !.rta = m.rta, !.rtx = @ \ {"RESET"}],
                 [raised EXCEPT !.blocking = FALSE]}
      /\ pc' = IF m.rta \in Critical THEN "critical" ELSE "fetch"
    BY DEF ExecAlarm, Goto, raised, taken
<1> HIDE DEF raised
<1>6. Keeps(raised, m') /\ m'.st = raised.st
    <2> HIDE DEF Safe, resetting
    <2>1. CASE m' = [raised EXCEPT !.blocking = FALSE]
        BY <1>4, <2>1 DEF Keeps, Machines
    <2>2. CASE m' = [raised EXCEPT !.blocking = TRUE, !.rta = m.rta, !.rtx = @ \ {"RESET"}]
        BY <1>4, <2>2 DEF Keeps, Machines
    <2> QED BY <1>5, <2>1, <2>2
<1>7. Keeps(m, m') /\ m'.st \in {m.st} \cup Locked
    BY <1>4, <1>6, KeepsKeeps
<1> HIDE DEF resetting
<1> QED BY <1>5, <1>7 DEF ExecAlarm, Locked, Keeps, Goto, executor, pins

LEMMA CriticalLoopSafe == ASSUME IInv, Safe, CriticalLoop PROVE SafeKept
<1>1. m' \in {[m EXCEPT !.abort = TRUE, !.rta = "None"],
              [m EXCEPT !.abort = "RESET" \in m.rtx]}
    BY DEF CriticalLoop
<1>2. /\ m'.st = m.st /\ m'.handler = m.handler /\ m'.suspend = m.suspend
      /\ m'.cancel = m.cancel /\ m'.softLimit = m.softLimit /\ m'.bad = m.bad
      /\ Empty(m) => Empty(m')
    BY <1>1, Hypotheses DEF Machines
<1>3. pc' # "critical" => m'.abort /\ ~estop
    BY Hypotheses DEF CriticalLoop, ReturnFalse, Machines
<1>4. pc' \in {"critical", "susp", "back"} /\ pc = "critical"
    BY DEF CriticalLoop, ReturnFalse
<1> QED BY <1>2, <1>3, <1>4 DEF CriticalLoop, executor, pins

LEMMA FetchSafe == ASSUME IInv, Safe, Fetch PROVE SafeKept
BY Hypotheses DEF Fetch, pins, Machines

LEMMA FetchResetSafe == ASSUME IInv, Safe, FetchReset PROVE SafeKept
<1> USE Hypotheses
<1> DEFINE taken == [m EXCEPT !.rtx = {}, !.resetPending = TRUE, !.abort = ~estop]
           raised == RaiseAlarm(taken, "EStop")
<1>1. taken \in Machines
    <2>1. {} \in SUBSET Flags /\ (~estop) \in BOOLEAN
        OBVIOUS
    <2> QED BY <2>1, Values, Zenon DEF Machines
<1>2. /\ taken.st = m.st /\ taken.abort = ~estop /\ taken.cancel = m.cancel
      /\ taken.softLimit = m.softLimit /\ taken.bad = m.bad
      /\ taken.suspend = m.suspend /\ taken.handler = m.handler
      /\ Empty(m) => Empty(taken)
    BY DEF Machines
<1>3. CASE estop
    <2> HIDE DEF taken
    <2>1. Keeps(taken, raised) /\ raised.st \in {m.st} \cup Locked
        BY <1>1, <1>2, Values, RaiseAlarmKeeps, RaiseAlarmEffect
    <2>2. m' = raised
        BY <1>3, Zenon DEF FetchReset, raised, taken
    <2> HIDE DEF raised
    <2> QED BY <1>2, <1>3, <2>1, <2>2 DEF FetchReset, ReturnTrue, Keeps, Locked, pins
<1>4. CASE ~estop
    <2>1. m' = taken
        BY <1>4, Zenon DEF FetchReset, taken
    <2> HIDE DEF taken
    <2> QED BY <1>2, <1>4, <2>1 DEF FetchReset, ReturnFalse, pins
<1> QED BY <1>3, <1>4

\* The door during a jog: it is held, not ended.
LEMMA JogDoor ==
    ASSUME NEW a \in Machines, a.st = "JOG", ~a.softLimit, NEW s \in BOOLEAN, NEW q
    PROVE  LET d == SetDoor(a, s) IN
           d.st = "JOG" /\ d.handler = "await_hold" /\ ~d.softLimit
BY DEF SetDoor, InitiateHold, Replan, ClearAlarm, Locked, Machines

\* A jog that was to be cancelled leaves nothing behind.
LEMMA StateUpdateDiscards ==
    ASSUME NEW a \in Machines, ~a.softLimit, NEW q, NEW s \in BOOLEAN,
           NEW b \in StateUpdate(a, q, s)
    PROVE  Discards(a, b)
<1> SUFFICES ASSUME a.st = "JOG", a.handler = "await_motion_cancel", b.st = "IDLE"
             PROVE  Empty(b)
    BY Zenon DEF Discards
<1>1. CASE "SAFETY_DOOR" \in q
    <2> DEFINE d == SetDoor(a, s)
    <2>1. d \in Machines /\ d.st = "JOG" /\ d.handler = "await_hold" /\ ~d.softLimit
        BY SetDoorType, JogDoor
    <2> HIDE DEF d
    <2>2. HoldComplete(d, s).st = "JOG"
        BY <2>1 DEF HoldComplete, Replan, Machines
    <2>3. b \in {HoldComplete(d, s), d}
        BY <1>1, <2>1 DEF StateUpdate, Handle, d
    <2> QED BY <2>1, <2>2, <2>3
<1>2. CASE "SAFETY_DOOR" \notin q
    <2>1. b = HandleMotionCancel(a, q, s)
        BY <1>2 DEF StateUpdate, Handle
    <2>2. "CYCLE_COMPLETE" \in q
        BY <2>1 DEF HandleMotionCancel
    <2> QED BY <2>1, <2>2, MotionCancelKeeps
<1> QED BY <1>1, <1>2

LEMMA UpdatesKeep ==
    ASSUME NEW a \in Machines, Exits(a), ajar \in BOOLEAN, NEW q, NEW b \in Updates(a, q)
    PROVE  Keeps(a, b) /\ (~a.softLimit => Discards(a, b))
<1>1. PICK u \in StateUpdate(a, q, ajar) :
         \/ b = u
         \/ /\ a.handler = "cycle" /\ a.seg = MaxSeg
            /\ \E kept \in 1..MaxSeg : b = [u EXCEPT !.seg = kept]
    BY UpdatesResult
<1>2. u \in Machines /\ Keeps(a, u) /\ (~a.softLimit => Discards(a, u))
    BY StateUpdateType, StateUpdateKeeps, StateUpdateDiscards
<1> SUFFICES ASSUME a.handler = "cycle", a.seg = MaxSeg,
                    NEW kept \in 1..MaxSeg, b = [u EXCEPT !.seg = kept]
             PROVE  Keeps(a, b) /\ (~a.softLimit => Discards(a, b))
    BY <1>1, <1>2
<1> QED BY <1>2, MaxSegAssumption DEF Keeps, Machines

LEMMA ExecUpdateSafe == ASSUME IInv, Safe, ExecUpdate PROVE SafeKept
<1>1. Keeps(m, m') /\ (~m.softLimit => Discards(m, m'))
    BY Hypotheses, UpdatesKeep DEF ExecUpdate, ControlOK
<1> QED BY <1>1, Hypotheses DEF ExecUpdate, Keeps, pins

\* A stop is being served: until it is, the motion it discards may go on.
LEMMA ExecStopSafe == ASSUME IInv, Safe, ExecStop PROVE SafeKept
<1> USE Hypotheses
<1> DEFINE cancelled == [m EXCEPT !.cancel = TRUE, !.endMotion = FALSE, !.execHold = FALSE]
           lost == [cancelled EXCEPT !.positionLost = IsStepping(m)]
           raised == RaiseAlarm(lost, m.alarmPending)
<1>1. cancelled \in Machines
    BY Values, Zenon DEF Machines
<1>2. /\ cancelled.cancel /\ cancelled.abort = m.abort /\ cancelled.softLimit = m.softLimit
      /\ cancelled.bad = m.bad /\ Exits(cancelled)
      /\ cancelled.st = m.st /\ cancelled.handler = m.handler
      /\ Empty(m) => Empty(cancelled)
    BY DEF Machines
<1> HIDE DEF cancelled
<1>3. lost \in Machines /\ Keeps(cancelled, lost) /\ lost.st = m.st
    <2>1. IsStepping(m) \in BOOLEAN
        BY DEF IsStepping
    <2>2. lost \in Machines
        BY <1>1, <2>1, Zenon DEF Machines
    <2>3. Keeps(cancelled, lost) /\ lost.st = m.st
        BY <1>1, <1>2 DEF Keeps, Machines
    <2> QED BY <2>2, <2>3
<1> HIDE DEF lost
<1>4. Keeps(cancelled, raised) /\ raised.st \in {m.st} \cup Locked
    BY <1>3, Fields, RaiseAlarmKeeps, RaiseAlarmEffect, KeepsKeeps
<1> HIDE DEF raised
<1>5. /\ \/ m' \in {raised, cancelled} /\ pc' = "stopped"
         \/ m' \in Updates(cancelled, {"MOTION_CANCEL"}) /\ pc' = "stopping"
      /\ rt' = rt /\ site' = site /\ kind' = kind /\ estop' = estop /\ pc = "exec"
    BY DEF ExecStop, Goto, executor, pins, raised, lost, cancelled
<1>6. Keeps(cancelled, m') /\ (~m.softLimit => Discards(m, m'))
    <2>1. CASE m' \in Updates(cancelled, {"MOTION_CANCEL"})
        BY <1>1, <1>2, <2>1, UpdatesKeep DEF ControlOK
    <2>2. CASE m' \in {raised, cancelled}
        BY <1>2, <1>4, <2>2, KeepsSelf DEF Locked
    <2> QED BY <1>5, <2>1, <2>2
<1> QED BY <1>2, <1>5, <1>6 DEF Keeps

LEMMA StopWaitedSafe == ASSUME IInv, Safe, StopWaited PROVE SafeKept
BY Hypotheses DEF StopWaited, pins, Machines

LEMMA ExecStoppedSafe == ASSUME IInv, Safe, ExecStopped PROVE SafeKept
<1> USE Hypotheses
<1> DEFINE reset == StReset(PlanReset(m))
           set == IF m.st = "ALARM" /\ m.alarm = "ProbeProtect" THEN reset
                  ELSE IF ajar THEN SetDoor(reset, ajar) ELSE SetIdle(reset)
           rest == rt \ {"STOP"}
<1>1. ajar \in BOOLEAN
    BY DEF ControlOK
<1>2. reset \in Machines /\ Keeps(m, reset) /\ Empty(reset)
    BY PlanResetType, StResetType, ResetsKeep
<1> HIDE DEF reset
<1>3. set \in Machines /\ Keeps(reset, set)
    BY <1>1, <1>2, SetDoorType, SetDoorKeeps, SetIdleType, SetIdleKeeps, KeepsSelf
<1> HIDE DEF set
<1>4. Keeps(m, set) /\ Empty(set) /\ Exits(set)
    BY <1>2, <1>3, KeepsKeeps DEF Keeps
<1>5. m' \in IF rest = {} THEN {set} ELSE StateUpdate(set, rest, ajar)
    BY Zenon DEF ExecStopped, rest, set, reset
<1> HIDE DEF rest
<1>6. Keeps(set, m')
    BY <1>1, <1>3, <1>4, <1>5, StateUpdateKeeps, KeepsSelf
<1>7. Keeps(m, m') /\ Empty(m')
    BY <1>4, <1>6, KeepsKeeps DEF Keeps
<1> QED BY <1>7 DEF ExecStopped, Keeps, pins

LEMMA PrepSafe ==
    ASSUME IInv, Safe, PrepMore \/ PrepBlockEnd \/ PrepHoldEnd PROVE SafeKept
<1> USE Hypotheses
<1>1. CASE PrepMore
    BY <1>1 DEF PrepMore, Preparing, CanPrep, PrepSegment, executor, pins, Machines
<1>2. CASE PrepBlockEnd
    BY <1>2 DEF PrepBlockEnd, Preparing, CanPrep, executor, pins, Machines
<1>3. CASE PrepHoldEnd
    <2>1. ~Empty(m)
        BY <1>3 DEF PrepHoldEnd, Preparing, CanPrep
    <2>2. /\ m'.st = m.st /\ m'.handler = m.handler /\ m'.suspend = m.suspend
          /\ m'.abort = m.abort /\ m'.cancel = m.cancel /\ m'.bad = m.bad
          /\ m'.softLimit = m.softLimit
        <3>1. m' \in {[m EXCEPT !.seg = @ + 1, !.plb = "decel", !.endMotion = TRUE],
                      [m EXCEPT !.plb = "decel", !.endMotion = TRUE]}
            BY <1>3 DEF PrepHoldEnd
        <3>2. CASE m' = [m EXCEPT !.plb = "decel", !.endMotion = TRUE]
            BY <3>2 DEF Machines
        <3>3. CASE m' = [m EXCEPT !.seg = @ + 1, !.plb = "decel", !.endMotion = TRUE]
            BY <3>3 DEF Machines
        <3> QED BY <3>1, <3>2, <3>3
    <2>3. pc \in {"prep", "stopping"} /\ pc' = pc
        BY <1>3 DEF PrepHoldEnd, Preparing
    <2> QED BY <1>3, <2>1, <2>2, <2>3 DEF PrepHoldEnd, executor, pins
<1> QED BY <1>1, <1>2, <1>3

LEMMA ExecutorSafe == ASSUME IInv, Safe, Executor PROVE SafeKept
<1> USE Hypotheses
<1>1. CASE NoAlarm
    BY <1>1 DEF NoAlarm, Quiet, Critical, Goto, executor, pins
<1>2. CASE PrepDone
    BY <1>2 DEF PrepDone, ReturnFalse, ReturnTrue, executor, pins
<1>3. CASE Return
    BY <1>3 DEF Return, pins, Machines
<1>4. CASE SuspendLoop
    BY <1>4 DEF SuspendLoop, Flag, executor, pins, Machines
<1>5. CASE SuspendEnd
    BY <1>5 DEF SuspendEnd, pins
<1> QED BY <1>1, <1>2, <1>3, <1>4, <1>5, ExecAlarmSafe, CriticalLoopSafe, FetchSafe,
           FetchResetSafe, ExecUpdateSafe, ExecStopSafe, StopWaitedSafe, ExecStoppedSafe,
           PrepSafe DEF Executor

LEMMA StepperSafe == ASSUME IInv, Safe, Stepper PROVE SafeKept
<1> USE Hypotheses
<1>1. CASE StepperSegment
    BY <1>1 DEF StepperSegment, executor, pins, Machines
<1>2. CASE StepperEmpty
    BY <1>2 DEF StepperEmpty, Flag, executor, pins, Machines
<1> QED BY <1>1, <1>2 DEF Stepper

LEMMA EnvironmentSafe == ASSUME IInv, Safe, Environment PROVE SafeKept
<1> USE Hypotheses
<1>1. CASE Stop \/ FeedHold \/ CycleStart \/ JogCancel \/ DoorCommand \/ DoorOpens
    BY <1>1 DEF Stop, FeedHold, CycleStart, JogCancel, DoorCommand, DoorOpens, Input, Flag,
                executor, pins, Machines
<1>2. CASE DoorCloses \/ EStopReleased
    BY <1>2 DEF DoorCloses, EStopReleased, executor, pins
<1>3. CASE ProbeTripped
    BY <1>3 DEF ProbeTripped, Input, Flag, executor, pins, Machines
<1>4. CASE Reset \/ EStopPressed
    <2>1. PICK e \in BOOLEAN : m' = m \/ m' = McReset(m, e)
        BY <1>4 DEF Reset, EStopPressed, ControlOK
    <2>2. Keeps(m, m') /\ m'.st = m.st /\ m'.suspend = m.suspend
        BY <2>1, McResetKeeps, McResetEffect, KeepsSelf
    <2>3. "RESET" \in m.rtx => m' = m
        BY <2>1 DEF McReset
    <2>4. "estop" \notin Inputs => estop' = estop
        BY <1>4 DEF Reset, EStopPressed, Input, pins
    <2>5. pc' = pc /\ site' = site /\ kind' = kind
        BY <1>4 DEF Reset, EStopPressed, Input, executor
    <2> QED BY <2>2, <2>3, <2>4, <2>5 DEF Keeps
<1>5. CASE LimitTripped
    <2> DEFINE r == McReset(m, estop)
    <2>1. r \in Machines /\ Keeps(m, r) /\ r.st = m.st /\ r.suspend = m.suspend
        BY McResetType, McResetKeeps, McResetEffect DEF ControlOK
    <2>2. m' = [r EXCEPT !.rta = "HardLimit"]
        BY <1>5 DEF LimitTripped
    <2> HIDE DEF r
    <2>3. Keeps(r, m') /\ m'.st = m.st /\ m'.suspend = m.suspend
        BY <2>1, <2>2 DEF Keeps, Machines
    <2>4. Keeps(m, m')
        BY <2>1, <2>3, KeepsKeeps
    <2>5. m.rta \notin Critical
        BY <1>5 DEF LimitTripped, Quiet, Critical
    <2>6. pc' = pc /\ site' = site /\ kind' = kind /\ estop' = estop
        BY <1>5 DEF LimitTripped, Input, executor, pins
    <2> QED BY <2>3, <2>4, <2>5, <2>6 DEF Keeps
<1> QED BY <1>1, <1>2, <1>3, <1>4, <1>5 DEF Environment

LEMMA NextSafe == ASSUME IInv, Safe, Next PROVE SafeKept
BY MainLoopSafe, LinesSafe, ExecutorSafe, StepperSafe, EnvironmentSafe, Zenon
   DEF Next, Main

\* Safe holds initially and every step, or stutter, keeps it.
LEMMA SafeInvariance == Spec => [](IInv /\ Safe)
<1>1. Init => Safe
    BY InitSafe
<1>2. IInv /\ Safe /\ [Next]_vars => Safe'
    <2> SUFFICES ASSUME IInv, Safe, [Next]_vars PROVE Safe'
        OBVIOUS
    <2>1. CASE Next
        BY <2>1, NextSafe
    <2>2. CASE UNCHANGED vars
        BY <2>2 DEF vars, executor, pins
    <2> QED BY <2>1, <2>2
<1> HIDE DEF Safe
<1> QED BY <1>1, <1>2, Invariance, PTL DEF Spec

\* Whatever is interleaved, protocol_exec_rt_suspend() never waits with a
\* handler that does not know how to end the suspension.
THEOREM SuspensionsEnd == Spec => []SuspendHasExit
<1>1. Safe => SuspendHasExit
    BY DEF SuspendHasExit
<1> HIDE DEF Safe
<1> QED BY <1>1, SafeInvariance, PTL

\* From the moment a stop has been served until sys.cancel is cleared, nothing
\* is planned, prepared or moving: no request and no line gets in between.
THEOREM StopsDiscard == Spec => []StopDiscardsMotion
<1>1. Safe => StopDiscardsMotion
    BY DEF StopDiscardsMotion
<1> HIDE DEF Safe
<1> QED BY <1>1, SafeInvariance, PTL

\* Without the E-stop, no way out of the soft limit check leads to the planner:
\* the reset it requests is taken before mc_line() tests for an abort.
THEOREM LimitsHold == ASSUME "estop" \notin Inputs PROVE Spec => []PlannedIsWithinLimits
<1>1. Safe => PlannedIsWithinLimits
    BY DEF PlannedIsWithinLimits
<1> HIDE DEF Safe
<1> QED BY <1>1, SafeInvariance, PTL

\* Unless a soft limit hold has been interrupted, a cancelled jog that ends in
\* IDLE leaves no motion behind, also when the door opens in the meantime.
THEOREM CancelledJogsLeaveNothing ==
    ASSUME "bad" \notin LineKinds PROVE Spec => JogCancelDiscards
<1>1. IInv /\ Safe /\ [Next]_vars =>
         [m.st = "JOG" /\ m.handler = "await_motion_cancel" /\ m'.st = "IDLE"
             => m'.blk = 0 /\ m'.seg = 0 /\ ~m'.stepping]_vars
    <2> SUFFICES ASSUME IInv, Safe, Next
                 PROVE  m.st = "JOG" /\ m.handler = "await_motion_cancel" /\ m'.st = "IDLE"
                           => m'.blk = 0 /\ m'.seg = 0 /\ ~m'.stepping
        OBVIOUS
    <2> QED BY NextSafe
<1> HIDE DEF Safe
<1> QED BY <1>1, SafeInvariance, PTL DEF Spec, JogCancelDiscards

HIDE DEF SafeKept, Discards, Safe, SuspensionsOK, Exits, StopsOK, Empty, LimitsOK, JogsOK,
        GivenUp, InExecutor, Aborted

-----------------------------------------------------------------------------
(***************************************************************************)
(* What the machine reports and what the steppers do: the step timer runs  *)
(* on something, a machine at rest is still, completions and resets are    *)
(* about the motion they follow.  For a machine without the safety door,   *)
(* jog cancel, probe and E-stop among its inputs, for which this does not  *)
(* hold; the door may be open when it is powered up.                       *)
(***************************************************************************)

Plain == Inputs \subseteq {"reset", "stop", "hold", "start", "limit"}

-----------------------------------------------------------------------------
Resting(a) == a.handler \in {"idle", "await_resume"}

Unforced(a) == ~a.endMotion /\ ~a.execHold /\ a.plb # "decel"

\* What the fields of a machine have to do with each other: handlers go with
\* states, and motors turn on something.
Fit(a) ==
    /\ a.handler = "idle" => a.st = "IDLE"
    /\ a.handler = "cycle" => a.st \in {"CYCLE", "JOG"}
    /\ a.handler = "await_hold" => a.st = "HOLD"
    /\ a.handler = "noop" => a.st \in Locked
    /\ Resting(a) \/ a.handler = "cycle" => Unforced(a)
    /\ a.st = "IDLE" \/ (a.st = "HOLD" /\ a.holding = "Complete") => Resting(a)
    /\ a.stepping => ~Resting(a) /\ (a.seg > 0 \/ a.exec)

-----------------------------------------------------------------------------
(* The handlers of requests.  What a request leaves alone, and the four    *)
(* things it may do: nothing, start a cycle, begin a deceleration or bring *)
(* the machine to rest.  The door is shut or was asked to be looked at.    *)

Apart(a, b) ==
    /\ b.rtx = a.rtx /\ b.rta = a.rta /\ b.alarmPending = a.alarmPending
    /\ b.abort = a.abort /\ b.cancel = a.cancel /\ b.blocking = a.blocking
    /\ b.softLimit = a.softLimit /\ (a.blk = 0 => b.blk = 0)
    /\ b.alarm \in {a.alarm, "None"}

Stays(a, b) ==
    /\ b.st = a.st /\ b.handler = a.handler /\ b.holding = a.holding
    /\ b.suspend = a.suspend
    /\ b.stepping = a.stepping /\ b.exec = a.exec /\ b.seg = a.seg /\ b.plb = a.plb
    /\ b.endMotion = a.endMotion /\ b.execHold = a.execHold

Turns(a) == Resting(a) /\ a.st \notin Locked /\ a.blk > 0

Begins(a, b) ==
    /\ Turns(a)
    /\ b.st = "CYCLE" /\ b.handler = "cycle" /\ b.alarm = "None"
    /\ b.stepping /\ b.seg > 0 /\ Unforced(b)

Slows(a, b) ==
    /\ \/ /\ a.st = "CYCLE" /\ a.handler = "cycle"
          /\ b.stepping = a.stepping /\ b.exec = a.exec /\ b.seg = a.seg
       \/ Turns(a) /\ b.seg > 0
    /\ b.st = "HOLD" /\ b.handler = "await_hold" /\ b.holding = "Pending"
    /\ b.alarm = "None" /\ b.execHold /\ b.plb = "none"

Halts(a, b) ==
    /\ a.st \notin Locked
    /\ b.st \in {"IDLE", "HOLD", "DOOR"}
    /\ b.handler = IF b.st = "IDLE" THEN "idle" ELSE "await_resume"
    /\ b.st = "DOOR" => a.blk = 0 /\ b.suspend
    /\ b.stepping = a.stepping /\ Unforced(b)
    /\ b.exec = a.exec /\ b.seg = a.seg /\ b.plb \in {a.plb, "none"}

\* What state_set(STATE_IDLE) leaves of a machine in another state.
Rested(a, b) ==
    /\ b.st = "IDLE" /\ b.handler = "idle" /\ b.alarm = "None"
    /\ ~b.endMotion /\ ~b.execHold
    /\ b.rtx = a.rtx /\ b.rta = a.rta /\ b.alarmPending = a.alarmPending
    /\ b.abort = a.abort /\ b.cancel = a.cancel /\ b.blocking = a.blocking
    /\ b.softLimit = a.softLimit
    /\ b.stepping = a.stepping /\ b.exec = a.exec
    /\ b.seg = a.seg /\ b.blk = a.blk /\ b.plb = a.plb

LEMMA SetIdleRests ==
    ASSUME NEW a \in Machines, a.st # "IDLE" PROVE Rested(a, SetIdle(a))
BY DEF Rested, SetIdle, Machines

LEMMA ClearAlarmStays ==
    ASSUME NEW a \in Machines PROVE Apart(a, ClearAlarm(a)) /\ Stays(a, ClearAlarm(a))
BY DEF ClearAlarm, Apart, Stays, Machines

\* A machine with a block to execute has a segment of it afterwards, and none of
\* a deceleration that nobody asked for.
LEMMA PrepBufferFirst ==
    ASSUME NEW n \in Machines, Unforced(n), n.blk > 0, NEW b \in PrepBuffer(n)
    PROVE  b.seg > 0 /\ Unforced(b)
<1>1. CASE ~CanPrep(n)
    <2>1. b = n
        BY <1>1 DEF PrepBuffer
    <2>2. n.seg \in 0..MaxSeg /\ ~(n.seg < MaxSeg)
        BY <1>1, Fields DEF CanPrep, Unforced
    <2> QED BY <2>1, <2>2, MaxSegAssumption
<1>2. CASE CanPrep(n)
    <2>1. PICK r \in Prepared(n) :
             b = [n EXCEPT !.seg = r.seg, !.blk = r.blk, !.plb = r.plb,
                           !.endMotion = r.endMotion, !.bad = n.bad /\ r.blk > 0]
        BY <1>2, Zenon DEF PrepBuffer
    <2>2. b.seg = r.seg /\ b.plb = r.plb /\ b.endMotion = r.endMotion /\ ~b.execHold
        BY <2>1 DEF Unforced, Machines
    <2>3. /\ r.seg \in 0..MaxSeg /\ r.blk \in 0..MaxBlk /\ r.blk <= n.blk
          /\ PrepEnds(n, r)
        BY PreparedType
    <2>4. n.seg \in 0..MaxSeg /\ n.blk \in 0..MaxBlk
        BY Fields
    <2>5. Profile(n) # "decel" /\ Profile(Replan(n)) # "decel"
        BY DEF Profile, Replan, Unforced, Machines
    <2>6. /\ ~r.endMotion /\ r.plb # "decel"
          /\ n.blk - r.blk < r.seg - n.seg \/ n.blk - r.blk \in 1..(r.seg - n.seg)
        BY <2>3, <2>5 DEF PrepEnds
    <2>7. r.seg > 0
        BY <2>3, <2>4, <2>6, MaxSegAssumption, MaxBlkAssumption
    <2> QED BY <2>2, <2>6, <2>7 DEF Unforced
<1> QED BY <1>1, <1>2

LEMMA SetCycleBegins ==
    ASSUME NEW a \in Machines, Unforced(a), a.st = "IDLE" => Resting(a), NEW b \in SetCycle(a)
    PROVE  /\ Apart(a, b)
           /\ IF a.st = "IDLE" /\ a.blk > 0 THEN Begins(a, b) ELSE Stays(a, b)
<1>1. CASE a.st = "IDLE" /\ a.blk > 0
    <2> DEFINE c == [a EXCEPT !.st = "CYCLE"]
    <2>1. c \in Machines
        BY Values, Zenon DEF Machines
    <2>2. /\ Unforced(c) /\ c.blk = a.blk
          /\ c.rtx = a.rtx /\ c.rta = a.rta /\ c.alarmPending = a.alarmPending
          /\ c.abort = a.abort /\ c.cancel = a.cancel /\ c.blocking = a.blocking
          /\ c.softLimit = a.softLimit /\ c.st = "CYCLE"
        BY DEF Unforced, Machines
    <2>3. PICK p \in PrepBuffer(c) :
             b = [p EXCEPT !.handler = "cycle", !.stepping = TRUE, !.alarm = "None"]
        BY <1>1, SetCycleSteps, Zenon
    <2> HIDE DEF c
    <2>4. p \in Machines /\ p.seg > 0 /\ Unforced(p)
        BY <1>1, <2>1, <2>2, PrepBufferType, PrepBufferFirst
    <2>5. /\ p.rtx = c.rtx /\ p.rta = c.rta /\ p.alarmPending = c.alarmPending
          /\ p.abort = c.abort /\ p.cancel = c.cancel /\ p.blocking = c.blocking
          /\ p.softLimit = c.softLimit /\ p.st = "CYCLE"
        BY <2>1, <2>2, PrepBufferEffect
    <2>6. /\ b.st = p.st /\ b.handler = "cycle" /\ b.alarm = "None" /\ b.stepping
          /\ b.seg = p.seg /\ b.plb = p.plb
          /\ b.endMotion = p.endMotion /\ b.execHold = p.execHold
          /\ b.rtx = p.rtx /\ b.rta = p.rta /\ b.alarmPending = p.alarmPending
          /\ b.abort = p.abort /\ b.cancel = p.cancel /\ b.blocking = p.blocking
          /\ b.softLimit = p.softLimit
        BY <2>3, <2>4 DEF Machines
    <2>7. a.blk # 0
        BY <1>1
    <2> QED BY <1>1, <2>2, <2>4, <2>5, <2>6, <2>7 DEF Apart, Begins, Turns, Unforced, Locked
<1>2. CASE ~(a.st = "IDLE" /\ a.blk > 0)
    <2>1. b = ClearAlarm(a)
        BY <1>2, Zenon DEF SetCycle
    <2> QED BY <1>2, <2>1, ClearAlarmStays
<1> QED BY <1>1, <1>2

LEMMA SetHoldHolds ==
    ASSUME NEW a \in Machines, Unforced(a), a.st \notin Locked,
           a.st = "CYCLE" => a.handler = "cycle"
    PROVE  LET b == SetHold(a)
           IN  /\ Apart(a, b)
               /\ CASE a.st \in {"HOLD", "JOG"} -> Stays(a, b)
                    [] a.st = "CYCLE" -> Slows(a, b)
                    [] OTHER -> Halts(a, b) /\ b.st = "HOLD"
<1>1. CASE a.st \in {"HOLD", "JOG"}
    <2>1. SetHold(a) = ClearAlarm(a)
        BY <1>1, Zenon DEF SetHold
    <2> QED BY <1>1, <2>1, ClearAlarmStays
<1>2. CASE a.st = "CYCLE"
    BY <1>2 DEF SetHold, InitiateHold, Replan, Apart, Slows, Machines
<1>3. CASE a.st \notin {"HOLD", "JOG", "CYCLE"}
    BY <1>3 DEF SetHold, InitiateHold, Apart, Halts, Unforced, Machines
<1> QED BY <1>1, <1>2, <1>3

LEMMA HandleIdleFits ==
    ASSUME NEW a \in Machines, a.handler = "idle", Fit(a), NEW q, NEW b \in HandleIdle(a, q)
    PROVE  Apart(a, b) /\ (Stays(a, b) \/ Begins(a, b) \/ Slows(a, b) \/ Halts(a, b))
<1>1. a.st = "IDLE" /\ Resting(a) /\ Unforced(a)
    BY DEF Fit, Resting
<1> DEFINE h(c) == SetHold(c)
<1>2. PICK c \in SetCycle(a) \cup {a} : b \in {c, h(c)}
    BY HandleIdleSteps
<1>3. c \in Machines /\ Apart(a, c) /\ (Begins(a, c) \/ Stays(a, c))
    <2>1. Apart(a, a) /\ Stays(a, a)
        BY DEF Apart, Stays
    <2> QED BY <1>1, <1>2, <2>1, SetCycleType, SetCycleBegins
<1>4. Unforced(c) /\ c.st \in {"IDLE", "CYCLE"} /\ (c.st = "CYCLE" => c.handler = "cycle")
    BY <1>1, <1>3 DEF Begins, Stays, Unforced
<1>5. /\ Apart(c, h(c))
      /\ IF c.st = "CYCLE" THEN Slows(c, h(c)) ELSE Halts(c, h(c)) /\ h(c).st = "HOLD"
    BY <1>3, <1>4, SetHoldHolds DEF Locked
<1> HIDE DEF h
<1>6. Apart(a, h(c))
    BY <1>3, <1>5 DEF Apart
<1>7. Slows(a, h(c)) \/ Halts(a, h(c))
    <2>1. CASE Begins(a, c)
        BY <1>5, <2>1 DEF Begins, Slows
    <2>2. CASE Stays(a, c)
        BY <1>1, <1>5, <2>2 DEF Stays, Halts, Locked
    <2> QED BY <1>3, <2>1, <2>2
<1> QED BY <1>2, <1>3, <1>6, <1>7

LEMMA HandleCycleFits ==
    ASSUME NEW a \in Machines, a.handler = "cycle", Fit(a), NEW q, "MOTION_CANCEL" \notin q
    PROVE  LET b == HandleCycle(a, q)
           IN  /\ Apart(a, b)
               /\ \/ Stays(a, b) \/ Slows(a, b)
                  \/ "CYCLE_COMPLETE" \in q /\ Halts(a, b)
<1> DEFINE c == IF "CYCLE_COMPLETE" \in q THEN SetIdle(a) ELSE a
           h == SetHold(c)
<1>1. a.st \in {"CYCLE", "JOG"} /\ Unforced(a)
    BY DEF Fit
<1>2. /\ c \in Machines /\ Apart(a, c)
      /\ IF "CYCLE_COMPLETE" \in q THEN Halts(a, c) /\ c.st = "IDLE" ELSE c = a
    BY <1>1, SetIdleType, SetIdleRests
       DEF Rested, Halts, Unforced, Apart, Locked
<1> HIDE DEF c
<1>3. Unforced(c) /\ c.st \in {"IDLE", "CYCLE", "JOG"} /\ (c.st = "CYCLE" => c.handler = "cycle")
    BY <1>1, <1>2 DEF Halts
<1>4. /\ Apart(c, h)
      /\ CASE c.st = "JOG" -> Stays(c, h)
           [] c.st = "CYCLE" -> Slows(c, h)
           [] OTHER -> Halts(c, h) /\ h.st = "HOLD"
    BY <1>2, <1>3, SetHoldHolds DEF Locked
<1>5. HandleCycle(a, q) \in {a, c, h}
    BY DEF HandleCycle, c, h
<1> HIDE DEF h
<1>6. Apart(a, h) /\ Apart(a, a) /\ Stays(a, a)
    BY <1>2, <1>4 DEF Apart, Stays
<1>7. CASE "CYCLE_COMPLETE" \in q
    <2>1. Halts(a, h)
        BY <1>2, <1>4, <1>7 DEF Halts
    <2> QED BY <1>2, <1>5, <1>6, <1>7, <2>1
<1>8. CASE "CYCLE_COMPLETE" \notin q
    <2>1. Stays(a, h) \/ Slows(a, h)
        BY <1>1, <1>2, <1>4, <1>8
    <2> QED BY <1>2, <1>5, <1>6, <1>8, <2>1
<1> QED BY <1>7, <1>8

LEMMA HoldCompleteFits ==
    ASSUME NEW a \in Machines, a.st \in {"HOLD", "DOOR"}, a.alarmPending = "None", NEW s
    PROVE  LET b == HoldComplete(a, s)
           IN  /\ b.rtx = a.rtx /\ b.rta = a.rta /\ b.alarmPending = a.alarmPending
               /\ b.abort = a.abort /\ b.cancel = a.cancel /\ b.blocking = a.blocking
               /\ b.softLimit = a.softLimit /\ b.blk = a.blk
               /\ b.stepping = a.stepping /\ b.exec = a.exec /\ b.seg = a.seg
               /\ Unforced(b) /\ b.plb = "none"
               /\ IF a.softLimit THEN b.st = "IDLE" /\ b.handler = "idle" /\ b.alarm = "None"
                  ELSE b.st = a.st /\ b.handler = "await_resume" /\ b.alarm = a.alarm
                       /\ b.suspend = a.suspend
BY DEF HoldComplete, SetIdle, Replan, Unforced, Machines

LEMMA RestartCycleFits ==
    ASSUME NEW a \in Machines, Unforced(a), a.st = "IDLE" => Resting(a), NEW b \in RestartCycle(a)
    PROVE  /\ Apart(a, b)
           /\ IF a.blk > 0 THEN b.st = "CYCLE" /\ b.handler = "cycle" /\ b.alarm = "None"
                                /\ b.stepping /\ b.seg > 0 /\ Unforced(b)
              ELSE Stays(a, b) \/ (Rested(a, b) /\ a.st # "IDLE")
<1> DEFINE idle == SetIdle(a)
           x == [idle EXCEPT !.endMotion = a.endMotion, !.execHold = a.execHold]
<1>1. idle \in Machines /\ (a.st = "IDLE" => idle = a) /\ (a.st # "IDLE" => Rested(a, idle))
    BY SetIdleType, SetIdleRests DEF SetIdle
<1> HIDE DEF idle
<1>2. x = idle
    BY <1>1 DEF Machines, Unforced, Rested
<1>3. idle.st = "IDLE" /\ Resting(idle) /\ Unforced(idle) /\ Apart(a, idle) /\ idle.blk = a.blk
    BY <1>1 DEF Rested, Resting, Unforced, Apart
<1>4. b \in SetCycle(idle)
    BY <1>2, Zenon DEF RestartCycle, idle, x
<1>5. Apart(idle, b) /\ IF a.blk > 0 THEN Begins(idle, b) ELSE Stays(idle, b)
    BY <1>1, <1>3, <1>4, SetCycleBegins
<1>6. Apart(a, b)
    BY <1>3, <1>5 DEF Apart
<1>7. CASE a.blk > 0
    BY <1>5, <1>6, <1>7 DEF Begins
<1>8. CASE ~(a.blk > 0)
    <2>1. a.blk = 0
        BY <1>8, Fields, MaxBlkAssumption
    <2>2. CASE a.st = "IDLE"
        BY <1>1, <1>5, <1>6, <1>8, <2>2
    <2>3. CASE a.st # "IDLE"
        BY <1>1, <1>5, <1>8, <2>1, <2>3 DEF Stays, Rested, Apart
    <2> QED BY <1>6, <1>8, <2>2, <2>3
<1> QED BY <1>7, <1>8

\* A resume from the door with an empty planner: neither start finds a block.
LEMMA DoorResumeFits ==
    ASSUME NEW a \in Machines, Unforced(a), a.st = "DOOR", a.blk = 0, NEW b \in DoorResume(a)
    PROVE  Apart(a, b) /\ Halts(a, b)
<1> DEFINE idle == SetIdle(a)
<1>1. /\ idle \in Machines /\ Rested(a, idle) /\ Unforced(idle) /\ Resting(idle)
      /\ idle.blk = 0
    BY SetIdleType, SetIdleRests DEF Rested, Unforced, Resting
<1>2. PICK c \in SetCycle(idle) : b \in RestartCycle(c)
    BY DoorResumeSteps
<1> HIDE DEF idle
<1>3. c \in Machines /\ Apart(idle, c) /\ Stays(idle, c) /\ c.blk = 0
    BY <1>1, <1>2, SetCycleType, SetCycleBegins DEF Apart
<1>4. Unforced(c) /\ c.st = "IDLE" /\ Resting(c)
    BY <1>1, <1>3 DEF Stays, Unforced, Resting, Rested
<1>5. Apart(c, b) /\ Stays(c, b)
    BY <1>2, <1>3, <1>4, RestartCycleFits
<1> QED BY <1>1, <1>3, <1>5 DEF Apart, Stays, Rested, Halts, Unforced, Locked

LEMMA HandleResumeFits ==
    ASSUME NEW a \in Machines, Fit(a), a.handler = "await_resume", a.st \notin Locked,
           a.st = "DOOR" => a.blk = 0,
           NEW q, NEW s \in BOOLEAN, NEW b \in HandleResume(a, q, s)
    PROVE  /\ Apart(a, b)
           /\ \/ Stays(a, b)
              \/ ~(s /\ a.st = "DOOR") /\ "SAFETY_DOOR" \notin q
                 /\ (Begins(a, b) \/ Halts(a, b))
<1>1. Unforced(a) /\ Resting(a)
    BY DEF Fit, Resting
<1>2. \A p : LET c == [a EXCEPT !.parking = p] IN Apart(a, c) /\ Stays(a, c)
    BY DEF Apart, Stays, Machines
<1>3. Apart(a, a) /\ Stays(a, a)
    BY DEF Apart, Stays
<1>4. CASE "SAFETY_DOOR" \in q \/ "CYCLE_START" \notin q
    BY <1>2, <1>3, <1>4 DEF HandleResume
<1>5. CASE "SAFETY_DOOR" \notin q /\ "CYCLE_START" \in q /\ a.st # "DOOR"
    <2>1. b \in RestartCycle(a)
        BY <1>5 DEF HandleResume
    <2>2. /\ Apart(a, b)
          /\ IF a.blk > 0 THEN b.st = "CYCLE" /\ b.handler = "cycle" /\ b.alarm = "None"
                               /\ b.stepping /\ b.seg > 0 /\ Unforced(b)
             ELSE Stays(a, b) \/ Rested(a, b)
        BY <1>1, <2>1, RestartCycleFits
    <2>3. Rested(a, b) => Halts(a, b)
        BY <1>1 DEF Rested, Halts, Unforced
    <2> QED BY <1>1, <1>5, <2>2, <2>3 DEF Begins, Turns
<1>6. CASE "SAFETY_DOOR" \notin q /\ "CYCLE_START" \in q /\ a.st = "DOOR"
    <2>1. CASE s
        BY <1>3, <1>6, <2>1 DEF HandleResume
    <2>2. CASE ~s
        <3>1. b \in DoorResume(a)
            BY <1>6, <2>2 DEF HandleResume
        <3>2. Apart(a, b) /\ Halts(a, b)
            BY <1>1, <1>6, <3>1, DoorResumeFits
        <3> QED BY <1>6, <2>2, <3>2
    <2> QED BY <2>1, <2>2
<1> QED BY <1>4, <1>5, <1>6

\* What a request may do to a machine.
Moved(a, b, q, s) ==
    \/ Stays(a, b)
    \/ /\ a.st \notin Locked /\ ~(s /\ a.st = "DOOR")
       /\ \/ Begins(a, b) \/ Slows(a, b)
          \/ Halts(a, b) /\ (Resting(a) \/ "CYCLE_COMPLETE" \in q \/ "SAFETY_DOOR" \in q)

LEMMA HandleFits ==
    ASSUME NEW a, MachineOK(a), Fit(a), a.alarmPending = "None",
           a.handler # "await_motion_cancel", a.st = "DOOR" => a.blk = 0,
           NEW q, "MOTION_CANCEL" \notin q, NEW s \in BOOLEAN, NEW b \in Handle(a, q, s)
    PROVE  Apart(a, b) /\ Moved(a, b, q, s)
<1>1. a \in Machines /\ (a.st \in Locked => a.handler = "noop")
    BY DEF MachineOK
<1>2. a.handler \in {"idle", "cycle", "await_hold", "await_resume", "noop"}
    BY <1>1, Fields DEF Handlers
<1>3. Apart(a, a) /\ Stays(a, a)
    BY DEF Apart, Stays
<1>4. CASE a.handler = "idle"
    <2>1. b \in HandleIdle(a, q)
        BY <1>4 DEF Handle
    <2>2. Apart(a, b) /\ (Stays(a, b) \/ Begins(a, b) \/ Slows(a, b) \/ Halts(a, b))
        BY <1>1, <1>4, <2>1, HandleIdleFits
    <2>3. a.st = "IDLE" /\ Resting(a)
        BY <1>4 DEF Fit, Resting
    <2> QED BY <2>2, <2>3 DEF Moved, Locked
<1>5. CASE a.handler = "cycle"
    <2>1. b = HandleCycle(a, q)
        BY <1>5 DEF Handle
    <2>2. Apart(a, b) /\ (\/ Stays(a, b) \/ Slows(a, b)
                          \/ "CYCLE_COMPLETE" \in q /\ Halts(a, b))
        BY <1>1, <1>5, <2>1, HandleCycleFits
    <2>3. a.st \in {"CYCLE", "JOG"}
        BY <1>5 DEF Fit
    <2> QED BY <2>2, <2>3 DEF Moved, Locked
<1>6. CASE a.handler = "await_hold"
    <2> DEFINE c == HoldComplete(a, s)
    <2>1. a.st = "HOLD"
        BY <1>6 DEF Fit
    <2>2. Apart(a, c) /\ Halts(a, c)
        <3>1. /\ c.rtx = a.rtx /\ c.rta = a.rta /\ c.alarmPending = a.alarmPending
              /\ c.abort = a.abort /\ c.cancel = a.cancel /\ c.blocking = a.blocking
              /\ c.softLimit = a.softLimit /\ c.blk = a.blk
              /\ c.stepping = a.stepping /\ c.exec = a.exec /\ c.seg = a.seg
              /\ Unforced(c) /\ c.plb = "none"
              /\ IF a.softLimit THEN c.st = "IDLE" /\ c.handler = "idle" /\ c.alarm = "None"
                 ELSE c.st = a.st /\ c.handler = "await_resume" /\ c.alarm = a.alarm
            BY <1>1, <2>1, HoldCompleteFits
        <3> HIDE DEF c
        <3> QED BY <2>1, <3>1 DEF Apart, Halts, Locked
    <2>3. b = IF "CYCLE_COMPLETE" \in q THEN c ELSE a
        BY <1>6 DEF Handle
    <2> HIDE DEF c
    <2> QED BY <1>3, <2>1, <2>2, <2>3 DEF Moved, Locked
<1>7. CASE a.handler = "await_resume"
    <2>1. a.st \notin Locked
        BY <1>1, <1>7
    <2>2. b \in HandleResume(a, q, s)
        BY <1>7 DEF Handle
    <2>3. /\ Apart(a, b)
          /\ Stays(a, b) \/ (~(s /\ a.st = "DOOR") /\ (Begins(a, b) \/ Halts(a, b)))
        BY <1>1, <1>7, <2>1, <2>2, HandleResumeFits
    <2> QED BY <1>7, <2>1, <2>3 DEF Moved, Resting
<1>8. CASE a.handler = "noop"
    BY <1>3, <1>8 DEF Handle, Moved
<1> QED BY <1>2, <1>4, <1>5, <1>6, <1>7, <1>8

LEMMA SetDoorFits ==
    ASSUME NEW a \in Machines, a.st \in {"IDLE", "HOLD"}, ~a.stepping, a.blk = 0,
           a.alarmPending = "None", NEW s \in BOOLEAN
    PROVE  LET b == SetDoor(a, s)
           IN  Apart(a, b) /\ Halts(a, b) /\ b.st = IF a.softLimit THEN "IDLE" ELSE "DOOR"
<1> DEFINE held == InitiateHold(a, "DOOR")
           door == [held EXCEPT !.st = "DOOR"]
           b == HoldComplete(door, s)
<1>1. held \in Machines
    BY InitiateHoldType, Values
<1>2. /\ Apart(a, held) /\ held.pending # "DOOR" /\ held.suspend = ~a.softLimit
      /\ held.stepping = a.stepping /\ held.exec = a.exec /\ held.seg = a.seg
    BY DEF InitiateHold, Apart, Machines
<1> HIDE DEF held
<1>3. /\ door \in Machines /\ door.st = "DOOR" /\ Apart(a, door)
      /\ door.suspend = ~a.softLimit
      /\ door.stepping = a.stepping /\ door.exec = a.exec /\ door.seg = a.seg
    <2>1. door \in Machines
        BY <1>1, Values, Zenon DEF Machines
    <2> QED BY <1>1, <1>2, <2>1 DEF Apart, Machines
<1> HIDE DEF door
<1>4. /\ b.rtx = door.rtx /\ b.rta = door.rta /\ b.alarmPending = door.alarmPending
      /\ b.abort = door.abort /\ b.cancel = door.cancel /\ b.blocking = door.blocking
      /\ b.softLimit = door.softLimit /\ b.blk = door.blk
      /\ b.stepping = door.stepping /\ b.exec = door.exec /\ b.seg = door.seg
      /\ Unforced(b) /\ b.plb = "none"
      /\ IF a.softLimit THEN b.st = "IDLE" /\ b.handler = "idle" /\ b.alarm = "None"
         ELSE b.st = "DOOR" /\ b.handler = "await_resume" /\ b.alarm = door.alarm
              /\ b.suspend = door.suspend
    <2>1. door.alarmPending = "None" /\ door.softLimit = a.softLimit
        BY <1>3 DEF Apart
    <2> QED BY <1>3, <2>1, HoldCompleteFits
<1>5. b \in Machines
    BY <1>3, HoldCompleteType
<1>6. SetDoor(a, s) = ClearAlarm(b)
    BY <1>2, Zenon DEF SetDoor, held, door
<1> HIDE DEF b
<1>7. Apart(b, ClearAlarm(b)) /\ Stays(b, ClearAlarm(b))
    BY <1>5, ClearAlarmStays
<1> DEFINE c == ClearAlarm(b)
<1> HIDE DEF c
<1>8. Apart(a, c) /\ Halts(a, c) /\ c.st = IF a.softLimit THEN "IDLE" ELSE "DOOR"
    BY <1>3, <1>4, <1>7 DEF Apart, Stays, Halts, Unforced, Locked, c
<1> QED BY <1>6, <1>8 DEF c

LEMMA StateUpdateFits ==
    ASSUME NEW a, MachineOK(a), Fit(a), a.alarmPending = "None",
           a.handler # "await_motion_cancel", a.st = "DOOR" => a.blk = 0,
           NEW q, "MOTION_CANCEL" \notin q, NEW s \in BOOLEAN,
           "SAFETY_DOOR" \in q => /\ ~a.softLimit /\ ~a.stepping /\ a.blk = 0
                                 /\ a.st \in {"IDLE", "DOOR", "HOLD"} \cup Locked,
           NEW b \in StateUpdate(a, q, s)
    PROVE  /\ Apart(a, b) /\ Moved(a, b, q, s)
           /\ "SAFETY_DOOR" \in q => b.st \in {"DOOR"} \cup Locked
<1>1. a \in Machines
    BY DEF MachineOK
<1>2. CASE "SAFETY_DOOR" \notin q \/ a.st = "DOOR"
    <2>1. b \in Handle(a, q, s)
        BY <1>2 DEF StateUpdate
    <2>2. Apart(a, b) /\ Moved(a, b, q, s)
        BY <2>1, HandleFits
    <2>3. ASSUME "SAFETY_DOOR" \in q PROVE b.st = "DOOR"
        <3>1. a.st = "DOOR"
            BY <1>2, <2>3
        <3>2. a.handler = "await_resume"
            BY <1>1, <3>1, Fields DEF Fit, Handlers, Locked
        <3>3. b \in HandleResume(a, q, s)
            BY <2>1, <3>2 DEF Handle
        <3>4. Stays(a, b)
            BY <1>1, <2>3, <3>1, <3>2, <3>3, HandleResumeFits DEF Locked
        <3> QED BY <3>1, <3>4 DEF Stays
    <2> QED BY <2>2, <2>3
<1>3. CASE "SAFETY_DOOR" \in q /\ a.st \in Locked
    <2>1. a.handler = "noop"
        BY <1>3 DEF MachineOK
    <2>2. b = a
        BY <1>1, <1>3, <2>1, StateUpdateLocked
    <2> QED BY <1>3, <2>2 DEF Apart, Stays, Moved
<1>4. CASE "SAFETY_DOOR" \in q /\ a.st \in {"IDLE", "HOLD"}
    <2> DEFINE d == SetDoor(a, s)
    <2>1. Apart(a, d) /\ Halts(a, d) /\ d.st = "DOOR" /\ d \in Machines
        BY <1>1, <1>4, SetDoorFits, SetDoorType
    <2>2. b \in Handle(d, q, s)
        BY <1>4 DEF StateUpdate
    <2> HIDE DEF d
    <2>3. d.handler = "await_resume" /\ Fit(d) /\ d.blk = 0
        BY <2>1, <1>4 DEF Halts, Apart, Fit, Unforced, Resting, Locked
    <2>4. b \in HandleResume(d, q, s)
        BY <2>2, <2>3 DEF Handle
    <2>5. Apart(d, b) /\ Stays(d, b)
        BY <1>4, <2>1, <2>3, <2>4, HandleResumeFits DEF Locked
    <2>6. Apart(a, b) /\ Halts(a, b) /\ b.st = "DOOR"
        BY <2>1, <2>5 DEF Apart, Stays, Halts, Unforced
    <2> QED BY <1>4, <2>6 DEF Moved, Locked
<1> QED BY <1>2, <1>3, <1>4

LEMMA MovedFits ==
    ASSUME NEW a \in Machines, Fit(a), NEW b, Apart(a, b),
           NEW q, NEW s, Moved(a, b, q, s),
           "CYCLE_COMPLETE" \in q \/ "SAFETY_DOOR" \in q => ~a.stepping
    PROVE  Fit(b)
<1>1. CASE Stays(a, b)
    BY <1>1 DEF Fit, Stays, Apart, Resting, Unforced
<1>2. CASE Begins(a, b)
    BY <1>2 DEF Fit, Begins, Resting, Locked
<1>3. CASE Slows(a, b)
    BY <1>3 DEF Fit, Slows, Turns, Resting, Unforced, Locked
<1>4. CASE Halts(a, b) /\ (Resting(a) \/ "CYCLE_COMPLETE" \in q \/ "SAFETY_DOOR" \in q)
    <2>1. ~a.stepping
        BY <1>4 DEF Fit
    <2> QED BY <1>4, <2>1 DEF Fit, Halts, Resting, Locked
<1> QED BY <1>1, <1>2, <1>3, <1>4 DEF Moved

-----------------------------------------------------------------------------
(* The inductive invariant, on top of IInv and Safe.                       *)

\* Handlers go with states, and no deceleration is forced on a machine that
\* has none to make.
HandlersOK ==
    /\ Fit(m)
    /\ m.handler = "await_motion_cancel" =>
          pc \in {"stopping", "stopped"} /\ m.st \in {"CYCLE", "JOG"}

\* Motors turn on something, in a state of motion or decelerating.
MotionOK ==
    /\ m.stepping => \/ m.st \in Locked \cup {"CYCLE", "JOG"} \/ m.execHold
                     \/ pc \in {"stopping", "stopped"}
    /\ pc = "jogwake" => /\ m.seg > 0 /\ ~m.stepping /\ m.handler = "cycle"
                         /\ "CYCLE_COMPLETE" \notin m.rtx
    /\ pc \in {"startup", "started"} =>
          /\ ~m.endMotion /\ ~m.execHold /\ ~m.softLimit /\ ~m.cancel /\ ~m.blocking
          /\ "CYCLE_COMPLETE" \notin m.rtx

\* The end of a motion is reported once, when it is over, and by the time a
\* machine at rest hands requests to its handler it has been taken.
RequestsOK ==
    /\ pc \notin {"exec", "stopping", "stopped"} => rt = {}
    /\ pc \in {"stopping", "stopped"} => m.cancel
    /\ "CYCLE_COMPLETE" \in m.rtx \cup rt => ~m.stepping
    /\ "CYCLE_COMPLETE" \in rt => "CYCLE_COMPLETE" \notin m.rtx
    /\ "CYCLE_COMPLETE" \in m.rtx /\ Resting(m) =>
          \/ pc \in {"read", "endline", "alarm", "fetch"}
          \/ Aborted(m) /\ pc \notin {"exec", "stopping", "stopped"}
    /\ "MOTION_CANCEL" \notin m.rtx \cup rt

\* The E-stop is not used, and without it no alarm has to wait.
ReleasedOK ==
    /\ ~estop /\ m.st # "ESTOP" /\ m.alarmPending = "None"
    /\ m.rta \in {"None", "HardLimit", "SoftLimit", "AbortCycle"}

\* A door that is open since the machine was powered up is noticed in IDLE, and
\* keeps the machine suspended with an empty planner.
DoorOK ==
    LET asked == "SAFETY_DOOR" \in m.rtx \cup rt
    IN  /\ pc \in {"exec", "stopping", "stopped"} => "SAFETY_DOOR" \notin m.rtx
        /\ site = "door" => /\ Empty(m) /\ ~m.softLimit
                            /\ m.handler \in {"idle", "await_resume", "noop"}
        /\ asked => /\ Empty(m) /\ ~m.softLimit /\ pc \notin {"startup", "started"}
                    /\ m.st \in {"IDLE", "DOOR", "HOLD"} \cup Locked
                    /\ \/ m.abort \/ pc \in {"critical", "init"}
                       \/ /\ site = "door"
                          /\ pc \in {"alarm", "fetch", "exec", "stopping", "stopped"}
        /\ ajar /\ m.st \notin {"DOOR"} \cup Locked =>
              /\ m.st \in {"IDLE", "HOLD"} /\ Empty(m)
              /\ m.abort \/ asked \/ pc \in {"init", "startup"}
        /\ m.st = "DOOR" => m.blk = 0 /\ (m.suspend \/ m.abort \/ pc \in {"init", "startup"})

\* From a critical alarm there is one way: the reset that has been requested,
\* through the main loop, to the initialization.
AbortOK ==
    /\ pc = "critical" => m.blocking /\ m.rta \in {"HardLimit", "SoftLimit"}
    /\ inSusp => pc \in {"alarm", "critical", "fetch", "exec", "stopping", "stopped",
                         "prep", "susp"}
    /\ m.abort => /\ pc \notin {"softreset", "startup", "started", "jogwake", "ret"}
                  /\ pc \in {"alarm", "fetch", "exec", "stopping", "stopped", "prep"}
                        => ~inSusp /\ site \in {"line", "loop", "eol"}
    /\ m.blocking =>
          /\ m.abort \/ pc \in {"critical", "init"}
          /\ \/ m.st \in Locked \/ pc = "init"
             \/ site = "loop" /\ pc \in {"prep", "ret", "susp", "back"}
          /\ pc \in {"exec", "stopping", "stopped", "prep", "ret"} => site = "loop"
          /\ \/ "RESET" \in m.rtx
             \/ /\ pc # "read"
                /\ pc \in {"alarm", "fetch"} => site = "loop"
                /\ pc \in {"back", "susp"} => site \notin {"soft", "softend", "door"}
          /\ m.st \in Locked => m.rta = "None" \/ pc \in {"critical", "init"}

\* An alarm locks the machine, and motors that turn all the same are about to
\* be stopped.
AlarmsOK ==
    /\ m.alarm # "None" => m.st \in Locked
    /\ m.rta = "AbortCycle" =>
          \/ "RESET" \in m.rtx \/ m.abort \/ pc \in {"stopping", "stopped"}
          \/ Empty(m) /\ (m.cancel \/ pc \in {"read", "alarm"})
    /\ m.st \in Locked /\ (m.stepping \/ m.plb = "decel") =>
          \/ m.abort \/ pc \in {"critical", "stopping", "stopped"}
          \/ pc = "fetch" /\ "RESET" \in m.rtx

Moves == HandlersOK /\ MotionOK /\ RequestsOK /\ ReleasedOK /\ DoorOK /\ AbortOK /\ AlarmsOK

USE DEF Moves, HandlersOK, Fit, Resting, Unforced, MotionOK, RequestsOK, ReleasedOK, DoorOK, AbortOK, AlarmsOK, Locked

\* Machines that agree in all that Moves is about, but for requests.
Agree(a, b) ==
    /\ b.st = a.st /\ b.handler = a.handler /\ b.holding = a.holding
    /\ b.suspend = a.suspend
    /\ b.alarm = a.alarm /\ b.alarmPending = a.alarmPending
    /\ b.abort = a.abort /\ b.cancel = a.cancel /\ b.blocking = a.blocking
    /\ b.endMotion = a.endMotion /\ b.execHold = a.execHold
    /\ b.exec = a.exec /\ b.seg = a.seg /\ b.plb = a.plb

LEMMA McResetAgrees ==
    ASSUME NEW a \in Machines
    PROVE  LET r == McReset(a, FALSE)
           IN  /\ Agree(a, r) /\ r.blk = a.blk /\ r.softLimit = a.softLimit
               /\ r.rtx = a.rtx \cup {"RESET"}
               /\ r.rta \in {a.rta, "AbortCycle"} /\ (a.blocking => r.rta = a.rta)
               /\ r.stepping => a.stepping
BY DEF McReset, Flag, Agree, Machines

LEMMA InitMoves == Init /\ ~estop => Moves
BY DEF Init, PowerUp, Empty, Aborted

LEMMA ReinitMoves == ASSUME IInv, Safe, Moves, Reinit PROVE Moves'
BY Hypotheses DEF Reinit, Reinitialize, StReset, PlanReset, SetLocked, Goto, executor, pins, Empty, Safe, StopsOK,
   Machines, Aborted

LEMMA MainLoopMoves == ASSUME IInv, Safe, Moves, MainLoop PROVE Moves'
<1> USE Hypotheses DEF Safe, StopsOK, JogsOK, Empty, Aborted
<1>1. CASE StartupEstop
    BY <1>1 DEF StartupEstop
<1>2. CASE StartupLocked
    BY <1>2 DEF StartupLocked, Goto, executor, pins
<1>3. CASE StartupDoor
    <2> DEFINE idle == SetIdle(m)
    <2>1. /\ idle \in Machines /\ idle.st = "IDLE" /\ Resting(idle)
          /\ Empty(idle) /\ ~idle.softLimit /\ ~idle.endMotion /\ ~idle.execHold
          /\ ~idle.abort /\ ~idle.cancel /\ ~idle.blocking
          /\ idle.rtx = m.rtx /\ idle.rta = m.rta /\ idle.alarmPending = m.alarmPending
          /\ idle.alarm = "None"
        <3>1. idle \in Machines
            BY SetIdleType
        <3>2. pc = "startup" /\ m.st \in {"IDLE", "DOOR", "HOLD"} /\ Empty(m)
            BY <1>3 DEF StartupDoor, Machines
        <3>3. CASE m.st = "IDLE"
            <4>1. idle = m
                BY <3>3, Zenon DEF SetIdle
            <4> HIDE DEF idle
            <4> QED BY <3>2, <3>3, <4>1
        <3>4. CASE m.st # "IDLE"
            <4>1. /\ ~m.softLimit /\ ~m.abort /\ ~m.cancel /\ ~m.blocking
                  /\ m.alarmPending = "None"
                BY <3>2
            <4>2. Rested(m, idle)
                BY <3>4, SetIdleRests
            <4> HIDE DEF idle
            <4> QED BY <3>1, <3>2, <4>1, <4>2 DEF Rested
        <3> QED BY <3>3, <3>4
    <2> HIDE DEF idle
    <2>2. m' = Flag(idle, "SAFETY_DOOR")
        BY <1>3, Zenon DEF StartupDoor, idle
    <2> QED BY <1>3, <2>1, <2>2 DEF StartupDoor, Flag, Call, pins, Machines
<1>4. CASE StartupIdle
    BY <1>4 DEF StartupIdle, SetIdle, Goto, executor, pins, Machines
<1>9. CASE Started
    BY <1>9 DEF Started, Goto, executor, pins
<1>5. CASE \E k \in LineKinds : ReadLine(k)
    BY <1>5 DEF ReadLine, Call, pins
<1>6. CASE LoopEnd
    BY <1>6 DEF LoopEnd, AutoCycleStart, Flag, Call, pins, Machines
<1>7. CASE LoopAgain
    BY <1>7 DEF LoopAgain, Goto, executor, pins, Machines
<1>8. CASE AbortedAtEol \/ EndLine
    BY <1>8 DEF AbortedAtEol, EndLine, Goto, executor, pins
<1> QED BY <1>1, <1>2, <1>3, <1>4, <1>5, <1>6, <1>7, <1>8, <1>9, ReinitMoves DEF MainLoop

LEMMA UnlockMoves == ASSUME IInv, Safe, Moves, Unlock PROVE Moves'
<1> USE Hypotheses DEF Safe, StopsOK, Empty, Aborted
<1>1. CASE m' = m
    BY <1>1 DEF Unlock, AtLine, Goto, executor, pins
<1>2. CASE m.st \in Locked /\ ~m.blocking /\ ~ajar /\ m' = SetIdle(m)
    BY <1>2 DEF Unlock, AtLine, SetIdle, Goto, executor, pins, Machines
<1>3. m' = m \/ (m.st \in Locked /\ ~m.blocking /\ ~ajar /\ m' = SetIdle(m))
    <2>1. SetIdle(m).alarmPending = "None"
        BY DEF SetIdle, Machines
    <2> QED BY <2>1, Zenon DEF Unlock
<1> QED BY <1>1, <1>2, <1>3

LEMMA PlanBlockMoves == ASSUME IInv, Safe, Moves, PlanBlock PROVE Moves'
<1> USE Hypotheses, MaxSegAssumption DEF Safe, StopsOK, Empty, Aborted
<1> DEFINE planned == [m EXCEPT !.blk = @ + 1, !.bad = @ \/ kind = "bad"]
           jogging == SetJog(planned)
<1>1. CASE kind = "jog" /\ m.st = "IDLE"
    <2>1. jogging \in Machines
        <3>1. m.blk + 1 \in 0..MaxBlk
            BY Fields, MaxBlkAssumption DEF PlanBlock
        <3>2. (m.bad \/ kind = "bad") \in BOOLEAN
            OBVIOUS
        <3>3. planned \in Machines
            <4> HIDE DEF Moves
            <4> QED BY <3>1, <3>2, Zenon DEF Machines
        <3> QED BY <3>3, SetJogType
    <2>2. m' \in PrepBuffer(jogging) /\ pc' = "jogwake" /\ ~Aborted(m) /\ pc = "back" /\ site = "wait"
        BY <1>1, Zenon DEF PlanBlock, Goto
    <2>3. /\ jogging.st = "JOG" /\ jogging.handler = "cycle" /\ jogging.plb = m.plb
          /\ jogging.blk = m.blk + 1
          /\ jogging.stepping = m.stepping /\ jogging.exec = m.exec
          /\ jogging.endMotion = m.endMotion /\ jogging.execHold = m.execHold
          /\ jogging.abort = m.abort /\ jogging.cancel = m.cancel
          /\ jogging.softLimit = m.softLimit /\ jogging.blocking = m.blocking
          /\ jogging.rtx = m.rtx /\ jogging.rta = m.rta
          /\ jogging.alarmPending = m.alarmPending /\ jogging.alarm = "None"
        <3> HIDE DEF Moves
        <3> QED BY <1>1 DEF SetJog, Machines
    <2> HIDE DEF jogging
    <2>4. jogging.blk > 0
        BY <2>3, Fields, MaxBlkAssumption
    <2>5. m'.seg > 0 /\ Unforced(m')
        BY <1>1, <2>1, <2>2, <2>3, <2>4, PrepBufferFirst
    <2>6. /\ m'.st = "JOG" /\ m'.handler = "cycle"
          /\ m'.stepping = m.stepping /\ m'.exec = m.exec
          /\ m'.execHold = m.execHold
          /\ m'.abort = m.abort /\ m'.cancel = m.cancel /\ m'.softLimit = m.softLimit
          /\ m'.blocking = m.blocking
          /\ m'.rtx = m.rtx /\ m'.rta = m.rta /\ m'.alarmPending = m.alarmPending
          /\ m'.alarm = "None"
        <3> HIDE DEF Moves
        <3> QED BY <2>1, <2>2, <2>3, PrepBufferEffect
    <2> QED BY <1>1, <2>2, <2>5, <2>6 DEF PlanBlock, Goto, executor, pins
<1>2. CASE ~(kind = "jog" /\ m.st = "IDLE")
    <2>1. m' = planned /\ pc = "back" /\ site = "wait" /\ ~Aborted(m) /\ pc' = "endline"
        BY <1>2, Zenon DEF PlanBlock, Goto
    <2>2. /\ Agree(m, planned) /\ planned.softLimit = m.softLimit
          /\ planned.stepping = m.stepping /\ planned.rtx = m.rtx /\ planned.rta = m.rta
        BY DEF Agree, Machines
    <2> HIDE DEF planned
    <2>3. m.st # "DOOR"
        BY <2>1 DEF SuspensionsOK
    <2> QED BY <2>1, <2>2, <2>3 DEF PlanBlock, Agree, Goto, executor, pins
<1> QED BY <1>1, <1>2

LEMMA LinesMoves == ASSUME IInv, Safe, Moves, Lines PROVE Moves'
<1> USE Hypotheses DEF Safe, StopsOK, Empty, Aborted
<1>1. CASE JogLine \/ RejectLine \/ MoveLine \/ SyncWait \/ SoftWait
    BY <1>1 DEF JogLine, RejectLine, MoveLine, SyncWait, SoftWait, AtLine, Call, Goto,
                executor, pins
<1>2. CASE SoftEnd \/ LineStart \/ PlanAborted
    BY <1>2 DEF SoftEnd, LineStart, PlanAborted, Call, Goto, executor, pins
<1>3. CASE SyncLine \/ PlanWait
    BY <1>3 DEF SyncLine, PlanWait, AtLine, AutoCycleStart, Flag, Call, pins, Machines
<1>4. CASE BadLine
    <2>1. CASE m.st = "CYCLE"
        <3> DEFINE limited == [m EXCEPT !.softLimit = TRUE]
        <3>1. m' = [limited EXCEPT !.rtx = @ \cup {"FEED_HOLD"}]
            BY <1>4, <2>1 DEF BadLine, Flag
        <3>2. /\ Agree(m, m') /\ m'.blk = m.blk /\ m'.stepping = m.stepping
              /\ m'.rtx = m.rtx \cup {"FEED_HOLD"} /\ m'.rta = m.rta
            BY <3>1 DEF Agree, Machines
        <3> QED BY <1>4, <2>1, <3>2 DEF BadLine, AtLine, Agree, Call, pins
    <2>2. CASE m.st # "CYCLE"
        BY <1>4, <2>2 DEF BadLine, AtLine, GcodeLocked, Goto, executor, pins, Machines
    <2> QED BY <2>1, <2>2
<1>5. CASE SoftReset
    <2> DEFINE r == McReset(m, FALSE)
    <2>1. m' = [r EXCEPT !.rta = "SoftLimit"]
        <3>1. estop = FALSE
            BY DEF ControlOK
        <3> QED BY <1>5, <3>1, Zenon DEF SoftReset
    <2>2. r \in Machines
        BY McResetType
    <2>3. /\ Agree(m, r) /\ r.blk = m.blk /\ r.softLimit = m.softLimit
          /\ r.rtx = m.rtx \cup {"RESET"} /\ (r.stepping => m.stepping)
        BY McResetAgrees
    <2> HIDE DEF r
    <2>4. /\ Agree(m, m') /\ m'.blk = m.blk /\ m'.softLimit = m.softLimit
          /\ m'.rtx = m.rtx \cup {"RESET"} /\ m'.rta = "SoftLimit"
          /\ m'.stepping => m.stepping
        BY <2>1, <2>2, <2>3 DEF Agree, Machines
    <2> QED BY <1>5, <2>4 DEF SoftReset, Agree, Call, pins
<1>6. CASE JogWake
    BY <1>6 DEF JogWake, Goto, executor, pins, Machines
<1> QED BY <1>1, <1>2, <1>3, <1>4, <1>5, <1>6, UnlockMoves, PlanBlockMoves DEF Lines

\* Handlers of requests: the executor takes the requests, and no machine is
\* asked to cancel a motion.
LEMMA UpdatesOne ==
    ASSUME NEW a, NEW q, "MOTION_CANCEL" \notin q, NEW u \in Updates(a, q)
    PROVE  u \in StateUpdate(a, q, ajar)
BY UpdatesResult

LEMMA ExecUpdateMoves == ASSUME IInv, Safe, Moves, ExecUpdate PROVE Moves' /\ m'.rtx = m.rtx
<1> USE Hypotheses
<1>1. /\ ajar \in BOOLEAN /\ ajar' = ajar /\ estop' = estop /\ site' = site /\ inSusp' = inSusp
      /\ pc = "exec" /\ pc' = "prep" /\ rt' = {} /\ m' \in Updates(m, rt)
    BY DEF ExecUpdate, pins, ControlOK
<1>2. "MOTION_CANCEL" \notin rt
    OBVIOUS
<1>3. m' \in StateUpdate(m, rt, ajar)
    BY <1>1, <1>2, UpdatesOne
<1>4. /\ Fit(m) /\ m.alarmPending = "None" /\ m.handler # "await_motion_cancel"
      /\ m.st = "DOOR" => m.blk = 0
      /\ "SAFETY_DOOR" \in rt => /\ ~m.softLimit /\ ~m.stepping /\ m.blk = 0
                                 /\ m.st \in {"IDLE", "DOOR", "HOLD"} \cup Locked
      /\ "CYCLE_COMPLETE" \in rt => ~m.stepping
    BY <1>1 DEF Empty
<1>5. /\ Apart(m, m') /\ Moved(m, m', rt, ajar)
      /\ "SAFETY_DOOR" \in rt => m'.st \in {"DOOR"} \cup Locked
    <2> HIDE DEF Moves, Fit
    <2> QED BY <1>1, <1>2, <1>3, <1>4, StateUpdateFits
<1>6. Fit(m')
    <2> HIDE DEF Moves, Fit
    <2> QED BY <1>4, <1>5, MovedFits
<1>7. CASE Stays(m, m')
    BY <1>1, <1>4, <1>5, <1>6, <1>7 DEF Apart, Stays, Empty, Aborted
<1>8. CASE m.st \notin Locked /\ ~(ajar /\ m.st = "DOOR") /\ Begins(m, m')
    BY <1>1, <1>4, <1>5, <1>6, <1>8 DEF Apart, Begins, Turns, Empty, Aborted
<1>9. CASE m.st \notin Locked /\ ~(ajar /\ m.st = "DOOR") /\ Slows(m, m')
    <2>1. CASE /\ m.st = "CYCLE" /\ m.handler = "cycle"
               /\ m'.stepping = m.stepping /\ m'.exec = m.exec /\ m'.seg = m.seg
        BY <1>1, <1>4, <1>5, <1>6, <1>9, <2>1 DEF Apart, Slows, Empty, Aborted
    <2>2. CASE Turns(m) /\ m'.seg > 0
        BY <1>1, <1>4, <1>5, <1>6, <1>9, <2>2 DEF Apart, Slows, Turns, Empty, Aborted
    <2> QED BY <1>9, <2>1, <2>2 DEF Slows
<1>10. CASE /\ m.st \notin Locked /\ ~(ajar /\ m.st = "DOOR") /\ Halts(m, m')
            /\ Resting(m) \/ "CYCLE_COMPLETE" \in rt \/ "SAFETY_DOOR" \in rt
    BY <1>1, <1>4, <1>5, <1>6, <1>10 DEF Apart, Halts, Empty, Aborted
<1> QED BY <1>5, <1>7, <1>8, <1>9, <1>10 DEF Moved

LEMMA RaiseAlarmLocks ==
    ASSUME NEW a \in Machines, NEW x \in Alarms, x # "EStop",
           ~a.blocking, a.st # "ESTOP", a.alarmPending = "None",
           a.alarm # "None" => a.st \in Locked, a.st \in Locked => a.handler = "noop"
    PROVE  LET b == RaiseAlarm(a, x)
           IN  /\ b.st \in {"ALARM", a.st} /\ (x # "None" => b.st = "ALARM" /\ b.handler = "noop")
               /\ b.alarmPending = "None"
               /\ b.rtx = a.rtx /\ b.rta = a.rta
               /\ b.abort = a.abort /\ b.cancel = a.cancel /\ b.softLimit = a.softLimit
               /\ b.stepping = a.stepping /\ b.exec = a.exec
               /\ b.seg = a.seg /\ b.blk = a.blk /\ b.plb = a.plb
BY DEF RaiseAlarm, SetLocked, Machines

LEMMA ExecAlarmMoves == ASSUME IInv, Safe, Moves, ExecAlarm PROVE Moves'
<1> USE Hypotheses
<1>1. /\ pc = "alarm" /\ m.rta \in {"HardLimit", "SoftLimit", "AbortCycle"} /\ ~m.blocking
      /\ site' = site /\ inSusp' = inSusp /\ rt' = rt /\ ajar' = ajar /\ estop' = estop
    BY DEF ExecAlarm, Quiet, Goto, executor, pins
<1> DEFINE resetting == "RESET" \in m.rtx
           taken == [m EXCEPT !.rta = "None", !.resetPending = resetting]
           b == RaiseAlarm(taken, m.rta)
<1>2. /\ taken \in Machines
      /\ taken.blocking = m.blocking /\ taken.st = m.st /\ taken.handler = m.handler
      /\ taken.alarmPending = m.alarmPending /\ taken.alarm = m.alarm
      /\ taken.rtx = m.rtx /\ taken.rta = "None"
      /\ taken.abort = m.abort /\ taken.cancel = m.cancel /\ taken.softLimit = m.softLimit
      /\ taken.stepping = m.stepping /\ taken.exec = m.exec
      /\ taken.seg = m.seg /\ taken.blk = m.blk /\ taken.plb = m.plb
    <2>1. resetting \in BOOLEAN /\ "None" \in Alarms
        BY Values
    <2>2. taken \in Machines
        <3> HIDE DEF resetting
        <3> QED BY <2>1, Zenon DEF Machines
    <2> HIDE DEF Moves
    <2> QED BY <2>2 DEF Machines
<1> HIDE DEF taken
<1>3. /\ b.st = "ALARM" /\ b.handler = "noop" /\ b.alarmPending = "None"
      /\ b.rtx = m.rtx /\ b.rta = "None"
      /\ b.abort = m.abort /\ b.cancel = m.cancel /\ b.softLimit = m.softLimit
      /\ b.stepping = m.stepping /\ b.exec = m.exec
      /\ b.seg = m.seg /\ b.blk = m.blk /\ b.plb = m.plb
    <2>1. /\ m.rta \in Alarms /\ m.rta # "EStop" /\ m.rta # "None"
          /\ ~taken.blocking /\ taken.st # "ESTOP" /\ taken.alarmPending = "None"
          /\ taken.alarm # "None" => taken.st \in Locked
          /\ taken.st \in Locked => taken.handler = "noop"
        BY <1>1, <1>2, Fields DEF MachineOK
    <2> HIDE DEF Moves
    <2> QED BY <1>2, <2>1, RaiseAlarmLocks
<1>4. b \in Machines
    BY <1>2, Fields, RaiseAlarmType
<1>5. IF m.rta \in Critical
      THEN /\ m' = [b EXCEPT !.blocking = TRUE, !.rta = m.rta, !.rtx = @ \ {"RESET"}]
           /\ pc' = "critical"
      ELSE m' = [b EXCEPT !.blocking = FALSE] /\ pc' = "fetch"
    BY <1>1, Zenon DEF ExecAlarm, Goto, taken, b
<1> HIDE DEF b, resetting
<1>6. CASE m.rta \in Critical
    <2>1. /\ m'.st = b.st /\ m'.handler = b.handler /\ m'.alarmPending = b.alarmPending
          /\ m'.rtx = b.rtx \ {"RESET"} /\ m'.rta = m.rta /\ m'.blocking
          /\ m'.abort = b.abort /\ m'.cancel = b.cancel /\ m'.softLimit = b.softLimit
          /\ m'.stepping = b.stepping /\ m'.exec = b.exec
          /\ m'.seg = b.seg /\ m'.blk = b.blk /\ m'.plb = b.plb
        <3> HIDE DEF Moves
        <3> QED BY <1>4, <1>5, <1>6 DEF Machines
    <2> QED BY <1>1, <1>3, <1>5, <1>6, <2>1 DEF Critical, Empty, Aborted
<1>7. CASE m.rta \notin Critical
    <2>1. /\ m'.st = b.st /\ m'.handler = b.handler /\ m'.alarmPending = b.alarmPending
          /\ m'.rtx = b.rtx /\ m'.rta = b.rta /\ ~m'.blocking
          /\ m'.abort = b.abort /\ m'.cancel = b.cancel /\ m'.softLimit = b.softLimit
          /\ m'.stepping = b.stepping /\ m'.exec = b.exec
          /\ m'.seg = b.seg /\ m'.blk = b.blk /\ m'.plb = b.plb
        <3> HIDE DEF Moves
        <3> QED BY <1>4, <1>5, <1>7 DEF Machines
    <2> QED BY <1>1, <1>3, <1>5, <1>7, <2>1 DEF Critical, Empty, Aborted
<1> QED BY <1>6, <1>7

LEMMA CriticalLoopMoves == ASSUME IInv, Safe, Moves, CriticalLoop PROVE Moves'
<1> USE Hypotheses DEF Empty, Aborted
<1>1. /\ pc = "critical" /\ UNCHANGED <<site, inSusp, rt, ajar, estop>> /\ ~estop
    BY DEF CriticalLoop, executor, pins
<1>2. CASE "RESET" \in m.rtx
    <2>1. /\ m' = [m EXCEPT !.abort = TRUE, !.rta = "None"]
          /\ pc' = IF inSusp THEN "susp" ELSE "back"
        BY <1>1, <1>2 DEF CriticalLoop, ReturnFalse
    <2>2. /\ m'.st = m.st /\ m'.handler = m.handler /\ m'.holding = m.holding /\ m'.suspend = m.suspend
          /\ m'.alarm = m.alarm /\ m'.alarmPending = m.alarmPending
          /\ m'.abort /\ m'.cancel = m.cancel /\ m'.blocking = m.blocking
          /\ m'.endMotion = m.endMotion /\ m'.execHold = m.execHold
          /\ m'.exec = m.exec /\ m'.seg = m.seg /\ m'.plb = m.plb
          /\ m'.blk = m.blk /\ m'.stepping = m.stepping /\ m'.softLimit = m.softLimit
          /\ m'.rtx = m.rtx /\ m'.rta = "None"
        BY <2>1 DEF Machines
    <2> QED BY <1>1, <1>2, <2>1, <2>2
<1>3. CASE "RESET" \notin m.rtx
    <2> DEFINE asked == "RESET" \in m.rtx
    <2>1. m' = [m EXCEPT !.abort = asked] /\ pc' = pc
        BY <1>1, <1>3 DEF CriticalLoop
    <2>2. /\ m'.abort = asked
          /\ m'.st = m.st /\ m'.handler = m.handler /\ m'.holding = m.holding /\ m'.suspend = m.suspend
          /\ m'.alarm = m.alarm /\ m'.alarmPending = m.alarmPending
          /\ m'.cancel = m.cancel /\ m'.blocking = m.blocking
          /\ m'.endMotion = m.endMotion /\ m'.execHold = m.execHold
          /\ m'.exec = m.exec /\ m'.seg = m.seg /\ m'.plb = m.plb
          /\ m'.blk = m.blk /\ m'.stepping = m.stepping /\ m'.softLimit = m.softLimit
          /\ m'.rtx = m.rtx /\ m'.rta = m.rta
        <3> HIDE DEF asked, Moves
        <3> QED BY <2>1 DEF Machines
    <2>3. m.st \in Locked /\ m.handler = "noop" /\ pc' = "critical"
        BY <1>1, <2>1 DEF MachineOK
    <2> QED BY <1>1, <1>3, <2>2, <2>3
<1> QED BY <1>2, <1>3

LEMMA FetchMoves == ASSUME IInv, Safe, Moves, NoAlarm \/ Fetch PROVE Moves'
<1> USE Hypotheses DEF Empty, Aborted
<1>1. CASE NoAlarm
    BY <1>1 DEF NoAlarm, Quiet, Goto, executor, pins
<1>2. CASE Fetch /\ m.rtx = {}
    BY <1>2 DEF Fetch, pins
<1>3. CASE Fetch /\ m.rtx # {}
    <2>1. /\ pc = "fetch" /\ pc' = "exec" /\ UNCHANGED <<site, inSusp, ajar, estop>>
          /\ rt' = m.rtx /\ "RESET" \notin m.rtx
          /\ m' = [m EXCEPT !.rtx = {}, !.resetPending = FALSE]
        BY <1>3 DEF Fetch, pins
    <2>2. /\ Agree(m, m') /\ m'.blk = m.blk /\ m'.stepping = m.stepping
          /\ m'.softLimit = m.softLimit /\ m'.rtx = {} /\ m'.rta = m.rta
        BY <2>1 DEF Machines, Agree
    <2> QED BY <2>1, <2>2 DEF Agree
<1> QED BY <1>1, <1>2, <1>3

LEMMA FetchResetMoves == ASSUME IInv, Safe, Moves, FetchReset PROVE Moves'
<1> USE Hypotheses DEF Empty, Aborted
<1>1. /\ pc = "fetch" /\ pc' = IF inSusp THEN "susp" ELSE "back"
      /\ UNCHANGED <<site, inSusp, ajar, estop>> /\ rt' = {} /\ "RESET" \in m.rtx
      /\ m' = [m EXCEPT !.rtx = {}, !.resetPending = TRUE, !.abort = TRUE]
    BY DEF FetchReset, pins, ReturnFalse
<1>2. /\ m'.st = m.st /\ m'.handler = m.handler /\ m'.holding = m.holding /\ m'.suspend = m.suspend
      /\ m'.alarm = m.alarm /\ m'.alarmPending = m.alarmPending
      /\ m'.abort /\ m'.cancel = m.cancel /\ m'.blocking = m.blocking
      /\ m'.endMotion = m.endMotion /\ m'.execHold = m.execHold
      /\ m'.exec = m.exec /\ m'.seg = m.seg /\ m'.plb = m.plb
      /\ m'.blk = m.blk /\ m'.stepping = m.stepping /\ m'.softLimit = m.softLimit
      /\ m'.rtx = {} /\ m'.rta = m.rta
    BY <1>1 DEF Machines
<1> QED BY <1>1, <1>2

LEMMA CancelUpdates ==
    ASSUME NEW a \in Machines, NEW u \in Updates(a, {"MOTION_CANCEL"}), ajar \in BOOLEAN
    PROVE  /\ u.st = a.st /\ u.holding = a.holding
           /\ u.alarm = a.alarm /\ u.alarmPending = a.alarmPending
           /\ u.rtx = a.rtx /\ u.rta = a.rta /\ u.softLimit = a.softLimit
           /\ u.abort = a.abort /\ u.cancel = a.cancel /\ u.blocking = a.blocking
           /\ u.stepping = a.stepping /\ u.exec = a.exec /\ u.blk = a.blk
           /\ u.endMotion = a.endMotion /\ u.plb \in {a.plb, "none"}
           /\ u.seg = a.seg \/ u.seg > 0
           /\ IF a.handler = "cycle" THEN u.handler = "await_motion_cancel"
              ELSE u.handler = a.handler /\ u.execHold = a.execHold /\ u.suspend = a.suspend
<1> DEFINE q == {"MOTION_CANCEL"}
           cancelled == [Replan(a) EXCEPT !.suspend = TRUE, !.execHold = TRUE,
                                          !.handler = "await_motion_cancel"]
<1>1. a.handler \in {"idle", "cycle", "await_motion_cancel", "await_hold",
                     "await_resume", "noop"}
    BY Fields DEF Handlers
<1>2. PICK updated \in StateUpdate(a, q, ajar) :
         u = updated \/ \E kept \in 1..MaxSeg : u = [updated EXCEPT !.seg = kept]
    BY UpdatesResult
<1>3. updated = IF a.handler = "cycle" THEN cancelled ELSE a
    <2>1. updated \in Handle(a, q, ajar)
        BY DEF StateUpdate
    <2>2. CASE a.handler = "cycle"
        BY <2>1, <2>2 DEF Handle, HandleCycle
    <2>3. CASE a.handler = "await_motion_cancel"
        BY <2>1, <2>3 DEF Handle, HandleMotionCancel
    <2>4. CASE a.handler \notin {"cycle", "await_motion_cancel"}
        BY <1>1, <2>1, <2>4 DEF Handle, HandleIdle, HandleResume
    <2> QED BY <2>2, <2>3, <2>4
<1>4. updated \in Machines
    BY StateUpdateType
<1>7. /\ u.st = updated.st /\ u.holding = updated.holding
      /\ u.alarm = updated.alarm /\ u.alarmPending = updated.alarmPending
      /\ u.rtx = updated.rtx /\ u.rta = updated.rta /\ u.softLimit = updated.softLimit
      /\ u.abort = updated.abort /\ u.cancel = updated.cancel /\ u.blocking = updated.blocking
      /\ u.stepping = updated.stepping /\ u.exec = updated.exec /\ u.blk = updated.blk
      /\ u.endMotion = updated.endMotion /\ u.plb = updated.plb
      /\ u.seg = updated.seg \/ u.seg > 0
      /\ u.handler = updated.handler /\ u.execHold = updated.execHold
      /\ u.suspend = updated.suspend
    BY <1>2, <1>4, MaxSegAssumption DEF Machines
<1>8. CASE a.handler = "cycle"
    <2>1. updated = cancelled
        BY <1>3, <1>8
    <2> QED BY <1>7, <1>8, <2>1 DEF Replan, Machines
<1>9. CASE a.handler # "cycle"
    BY <1>3, <1>7, <1>9
<1> QED BY <1>8, <1>9

LEMMA ExecStopMoves == ASSUME IInv, Safe, Moves, ExecStop PROVE Moves' /\ m'.rtx = m.rtx
<1> USE Hypotheses DEF Empty, Aborted
<1> DEFINE c == [m EXCEPT !.cancel = TRUE, !.endMotion = FALSE, !.execHold = FALSE]
<1>1. /\ pc = "exec" /\ UNCHANGED <<site, inSusp, rt, ajar, estop>> /\ ajar \in BOOLEAN
      /\ m.alarmPending = "None"
    BY DEF ExecStop, Goto, executor, pins, ControlOK
<1>2. /\ c \in Machines
      /\ c.st = m.st /\ c.handler = m.handler /\ c.holding = m.holding
      /\ c.suspend = m.suspend
      /\ c.alarm = m.alarm /\ c.alarmPending = m.alarmPending
      /\ c.rtx = m.rtx /\ c.rta = m.rta /\ c.softLimit = m.softLimit
      /\ c.abort = m.abort /\ c.cancel /\ c.blocking = m.blocking
      /\ c.stepping = m.stepping /\ c.exec = m.exec /\ c.blk = m.blk
      /\ c.seg = m.seg /\ c.plb = m.plb /\ ~c.endMotion /\ ~c.execHold
    <2>1. c \in Machines
        BY Values, Zenon DEF Machines
    <2> HIDE DEF Moves
    <2> QED BY <2>1 DEF Machines
<1>3. \/ m' = c /\ pc' = "stopped"
      \/ m.stepping /\ m' \in Updates(c, {"MOTION_CANCEL"}) /\ pc' = "stopping"
    BY <1>1 DEF ExecStop, IsStepping, Goto
<1> HIDE DEF c
<1>4. CASE m' = c /\ pc' = "stopped"
    BY <1>1, <1>2, <1>4
<1>5. CASE m.stepping /\ m' \in Updates(c, {"MOTION_CANCEL"}) /\ pc' = "stopping"
    <2>1. /\ m'.st = c.st /\ m'.holding = c.holding
          /\ m'.alarm = c.alarm /\ m'.alarmPending = c.alarmPending
          /\ m'.rtx = c.rtx /\ m'.rta = c.rta /\ m'.softLimit = c.softLimit
          /\ m'.abort = c.abort /\ m'.cancel = c.cancel /\ m'.blocking = c.blocking
          /\ m'.stepping = c.stepping /\ m'.exec = c.exec /\ m'.blk = c.blk
          /\ m'.endMotion = c.endMotion /\ m'.plb \in {c.plb, "none"}
          /\ m'.seg = c.seg \/ m'.seg > 0
          /\ IF c.handler = "cycle" THEN m'.handler = "await_motion_cancel"
             ELSE m'.handler = c.handler /\ m'.execHold = c.execHold /\ m'.suspend = c.suspend
        <3> HIDE DEF Moves
        <3> QED BY <1>1, <1>2, <1>5, CancelUpdates
    <2>2. ~Resting(m)
        BY <1>5
    <2> QED BY <1>1, <1>2, <1>5, <2>1, <2>2
<1> QED BY <1>3, <1>4, <1>5

LEMMA StopWaitedMoves == ASSUME IInv, Safe, Moves, StopWaited PROVE Moves'
<1> USE Hypotheses DEF Empty, Aborted
<1>1. /\ pc = "stopping" /\ pc' = "stopped" /\ UNCHANGED <<site, inSusp, ajar, estop>>
      /\ rt' = rt \cup m.rtx /\ m' = [m EXCEPT !.rtx = {}]
    BY DEF StopWaited, pins
<1>2. /\ Agree(m, m') /\ m'.blk = m.blk /\ m'.stepping = m.stepping
      /\ m'.softLimit = m.softLimit /\ m'.rtx = {} /\ m'.rta = m.rta
    BY <1>1 DEF Machines, Agree
<1> QED BY <1>1, <1>2 DEF Agree

\* Where a served stop leaves the machine before the requests that came with it.
LEMMA StoppedFits ==
    ASSUME IInv, Safe, Moves, pc = "stopped"
    PROVE  LET reset == StReset(PlanReset(m))
               set == IF m.st = "ALARM" /\ m.alarm = "ProbeProtect" THEN reset
                      ELSE IF ajar THEN SetDoor(reset, ajar) ELSE SetIdle(reset)
           IN  /\ MachineOK(set) /\ Fit(set) /\ Empty(set)
               /\ set.handler \in {"idle", "await_resume", "noop"}
               /\ set.rtx = m.rtx /\ set.rta = m.rta /\ set.alarmPending = "None"
               /\ set.abort = m.abort /\ set.cancel = m.cancel /\ set.blocking = m.blocking
               /\ set.softLimit = m.softLimit
               /\ set.st \in {"IDLE", "DOOR"} \/ (set.st \in Locked /\ set.st = m.st)
               /\ (set.alarm # "None" => set.st \in Locked)
               /\ ajar => set.st \in {"DOOR"} \cup Locked \/ m.abort
               /\ set.st = "DOOR" => set.suspend \/ m.abort
<1> DEFINE reset == StReset(PlanReset(m))
           set == IF m.st = "ALARM" /\ m.alarm = "ProbeProtect" THEN reset
                  ELSE IF ajar THEN SetDoor(reset, ajar) ELSE SetIdle(reset)
<1> USE Hypotheses
<1>1. MachineOK(reset) /\ reset \in Machines /\ ajar \in BOOLEAN
    BY ResetsStep DEF MachineOK, ControlOK
<1>2. /\ Empty(reset) /\ reset.st = m.st /\ reset.handler = m.handler
      /\ reset.holding = m.holding /\ reset.alarm = m.alarm /\ reset.suspend = m.suspend
      /\ reset.rtx = m.rtx /\ reset.rta = m.rta /\ reset.alarmPending = m.alarmPending
      /\ reset.abort = m.abort /\ reset.cancel = m.cancel /\ reset.blocking = m.blocking
      /\ reset.softLimit = m.softLimit
      /\ reset.endMotion = m.endMotion /\ reset.execHold = m.execHold
    <2> HIDE DEF Moves
    <2> QED BY DEF StReset, PlanReset, Empty, Machines
<1> SUFFICES /\ MachineOK(set) /\ Fit(set) /\ Empty(set)
             /\ set.handler \in {"idle", "await_resume", "noop"}
             /\ set.rtx = m.rtx /\ set.rta = m.rta /\ set.alarmPending = "None"
             /\ set.abort = m.abort /\ set.cancel = m.cancel /\ set.blocking = m.blocking
             /\ set.softLimit = m.softLimit
             /\ set.st \in {"IDLE", "DOOR"} \/ (set.st \in Locked /\ set.st = m.st)
             /\ (set.alarm # "None" => set.st \in Locked)
             /\ ajar => set.st \in {"DOOR"} \cup Locked \/ m.abort
             /\ set.st = "DOOR" => set.suspend \/ m.abort
    BY Zenon
<1> HIDE DEF reset
<1>3. Fit(reset)
    BY <1>2 DEF Empty
<1>4. MachineOK(set)
    <2> HIDE DEF Moves
    <2>1. MachineOK(SetDoor(reset, ajar)) /\ MachineOK(SetIdle(reset))
        BY <1>1, SetDoorStep, SetIdleStep
    <2> QED BY <1>1, <2>1
<1>5. reset.handler = "noop" <=> reset.st \in Locked
    BY <1>1, <1>3 DEF MachineOK
<1>6. CASE reset.st \in Locked /\ (ajar \/ set = reset)
    <2>1. set = reset
        BY <1>6 DEF SetDoor
    <2> HIDE DEF set
    <2> QED BY <1>2, <1>3, <1>4, <1>5, <1>6, <2>1
<1>7. CASE ajar /\ reset.st = "DOOR"
    <2>1. set = reset
        BY <1>2, <1>7 DEF SetDoor
    <2>2. reset.handler = "await_resume"
        BY <1>1, <1>2, <1>3, <1>7, Fields DEF Handlers
    <2> HIDE DEF set
    <2> QED BY <1>2, <1>3, <1>4, <1>7, <2>1, <2>2
<1>8. CASE ajar /\ reset.st \notin {"DOOR"} \cup Locked
    <2>1. /\ reset.st \in {"IDLE", "HOLD"} /\ ~reset.stepping /\ reset.blk = 0
          /\ reset.alarmPending = "None"
          /\ m.softLimit => m.abort
        BY <1>2, <1>8 DEF Empty
    <2>2. Apart(reset, set) /\ Halts(reset, set)
          /\ set.st = IF reset.softLimit THEN "IDLE" ELSE "DOOR"
        <3>1. set = SetDoor(reset, ajar)
            BY <1>2, <1>8
        <3> HIDE DEF set, Moves
        <3> QED BY <1>1, <2>1, <3>1, SetDoorFits
    <2> HIDE DEF set
    <2>3. Empty(set) /\ Fit(set)
        BY <1>2, <2>2 DEF Halts, Apart, Empty
    <2> QED BY <1>2, <1>3, <1>4, <1>8, <2>1, <2>2, <2>3 DEF Halts, Apart
<1>9. CASE ~ajar /\ set # reset
    <2>1. set = SetIdle(reset) /\ reset.st # "IDLE"
        BY <1>9 DEF SetIdle
    <2> HIDE DEF set
    <2>2. Rested(reset, set)
        BY <1>1, <2>1, SetIdleRests
    <2>3. Empty(set) /\ Fit(set)
        BY <1>2, <2>2 DEF Rested, Empty
    <2> QED BY <1>2, <1>3, <1>4, <1>9, <2>2, <2>3 DEF Rested
<1>10. CASE ~ajar /\ set = reset /\ reset.st \notin Locked
    <2>1. reset.st = "IDLE"
        <3>1. reset = SetIdle(reset)
            BY <1>2, <1>10
        <3> HIDE DEF set, Moves
        <3> QED BY <1>1, <3>1, SetIdleRests DEF Rested
    <2> HIDE DEF set
    <2> QED BY <1>2, <1>3, <1>4, <1>10, <2>1
<1> QED BY <1>6, <1>7, <1>8, <1>9, <1>10

LEMMA ExecStoppedMoves == ASSUME IInv, Safe, Moves, ExecStopped PROVE Moves' /\ m'.rtx = m.rtx
<1> USE Hypotheses DEF Aborted
<1> DEFINE reset == StReset(PlanReset(m))
           set == IF m.st = "ALARM" /\ m.alarm = "ProbeProtect" THEN reset
                  ELSE IF ajar THEN SetDoor(reset, ajar) ELSE SetIdle(reset)
           rest == rt \ {"STOP"}
<1>1. /\ pc = "stopped" /\ pc' = "prep" /\ rt' = {}
      /\ UNCHANGED <<site, inSusp, ajar, estop>> /\ ajar \in BOOLEAN
    BY DEF ExecStopped, pins, ControlOK
<1>2. /\ MachineOK(set) /\ Fit(set) /\ Empty(set)
      /\ set.handler \in {"idle", "await_resume", "noop"}
      /\ set.rtx = m.rtx /\ set.rta = m.rta /\ set.alarmPending = "None"
      /\ set.abort = m.abort /\ set.cancel = m.cancel /\ set.blocking = m.blocking
      /\ set.softLimit = m.softLimit
      /\ set.st \in {"IDLE", "DOOR"} \/ (set.st \in Locked /\ set.st = m.st)
      /\ (set.alarm # "None" => set.st \in Locked)
      /\ ajar => set.st \in {"DOOR"} \cup Locked \/ m.abort
      /\ set.st = "DOOR" => set.suspend \/ m.abort
    <2> HIDE DEF Moves, Fit
    <2> QED BY <1>1, StoppedFits
<1>3. m' \in IF rest = {} THEN {set} ELSE StateUpdate(set, rest, ajar)
    BY Zenon DEF ExecStopped, reset, set, rest
<1> HIDE DEF set
<1>4. Apart(set, m') /\ Moved(set, m', rest, ajar)
    <2>1. Apart(set, set) /\ Stays(set, set)
        BY DEF Apart, Stays
    <2>2. /\ "MOTION_CANCEL" \notin rest
          /\ set.blk = 0
          /\ "SAFETY_DOOR" \in rest => ~set.softLimit /\ ~set.stepping
                  /\ set.st \in {"IDLE", "DOOR", "HOLD"} \cup Locked
        BY <1>2 DEF Empty
    <2> HIDE DEF Moves, Fit, rest
    <2> QED BY <1>1, <1>2, <1>3, <2>1, <2>2, StateUpdateFits DEF Moved
<1>5. Fit(m')
    <2>1. set \in Machines /\ ~set.stepping
        BY <1>2 DEF MachineOK, Empty
    <2> HIDE DEF Moves, Fit
    <2> QED BY <1>2, <1>4, <2>1, MovedFits
<1>6. /\ Empty(m') /\ m'.handler \in {"idle", "await_resume", "noop"}
      /\ m'.st \in {"IDLE", "HOLD", "DOOR"} \/ (m'.st \in Locked /\ m'.st = m.st)
      /\ m'.alarm # "None" => m'.st \in Locked
      /\ ajar => m'.st \in {"DOOR"} \cup Locked \/ m.abort
      /\ m'.st = "DOOR" => m'.suspend \/ m.abort
    <2>1. CASE Stays(set, m')
        BY <1>2, <1>4, <2>1 DEF Apart, Stays, Empty
    <2>2. CASE set.st \notin Locked /\ ~(ajar /\ set.st = "DOOR") /\ Halts(set, m')
        BY <1>2, <1>4, <2>2 DEF Apart, Halts, Empty
    <2>3. ~Begins(set, m') /\ ~Slows(set, m')
        BY <1>2 DEF Begins, Slows, Turns, Empty
    <2> QED BY <1>4, <2>1, <2>2, <2>3 DEF Moved
<1>7. /\ m'.rtx = m.rtx /\ m'.rta = m.rta /\ m'.alarmPending = "None"
      /\ m'.abort = m.abort /\ m'.cancel = m.cancel /\ m'.blocking = m.blocking
      /\ m'.softLimit = m.softLimit
    BY <1>2, <1>4 DEF Apart
<1> HIDE DEF rest
<1> QED BY <1>1, <1>5, <1>6, <1>7 DEF Empty

\* A segment is prepared of something that is planned, and a forced
\* deceleration ends only where one has begun.
LEMMA PrepMoves == ASSUME IInv, Safe, Moves, PrepMore \/ PrepBlockEnd \/ PrepHoldEnd PROVE Moves'
<1> USE Hypotheses DEF Empty, Aborted
<1>1. /\ UNCHANGED <<pc, site, inSusp, rt, ajar, estop>>
      /\ (pc = "prep" /\ m.st \in {"CYCLE", "HOLD", "DOOR", "JOG"}) \/ pc = "stopping"
      /\ m.plb # "none" \/ m.blk > 0
    BY DEF PrepMore, PrepBlockEnd, PrepHoldEnd, Preparing, CanPrep, executor, pins
<1>2. m.seg \in Nat /\ m.st # "DOOR"
    <2>1. m.blk # 0
        BY <1>1 DEF MachineOK, Planned
    <2>2. m.seg \in Nat
        <3> HIDE DEF Moves
        <3> QED BY MaxSegAssumption DEF Machines
    <2> QED BY <2>1, <2>2
<1>3. CASE PrepMore
    <2>1. /\ Agree([m EXCEPT !.seg = m'.seg, !.plb = m'.plb], m')
          /\ m'.st = m.st /\ m'.handler = m.handler /\ m'.holding = m.holding /\ m'.suspend = m.suspend
          /\ m'.alarm = m.alarm /\ m'.alarmPending = m.alarmPending
          /\ m'.abort = m.abort /\ m'.cancel = m.cancel /\ m'.blocking = m.blocking
          /\ m'.endMotion = m.endMotion /\ m'.execHold = m.execHold
          /\ m'.exec = m.exec /\ m'.blk = m.blk /\ m'.stepping = m.stepping
          /\ m'.softLimit = m.softLimit /\ m'.rtx = m.rtx /\ m'.rta = m.rta
          /\ m'.seg > 0
          /\ m'.plb = "decel" => m.plb = "decel" \/ m.execHold
        <3> HIDE DEF Moves
        <3> QED BY <1>2, <1>3 DEF PrepMore, PrepSegment, Profile, Agree, Machines
    <2> QED BY <1>1, <2>1
<1>4. CASE PrepBlockEnd
    <2>1. /\ m'.st = m.st /\ m'.handler = m.handler /\ m'.holding = m.holding /\ m'.suspend = m.suspend
          /\ m'.alarm = m.alarm /\ m'.alarmPending = m.alarmPending
          /\ m'.abort = m.abort /\ m'.cancel = m.cancel /\ m'.blocking = m.blocking
          /\ m'.endMotion = m.endMotion /\ m'.execHold = m.execHold
          /\ m'.exec = m.exec /\ m'.stepping = m.stepping
          /\ m'.softLimit = m.softLimit /\ m'.rtx = m.rtx /\ m'.rta = m.rta
          /\ m'.seg > 0 /\ m'.plb = "none"
        <3> HIDE DEF Moves
        <3> QED BY <1>2, <1>4 DEF PrepBlockEnd, Machines
    <2> QED BY <1>1, <1>2, <2>1
<1>5. CASE PrepHoldEnd
    <2>1. /\ m'.st = m.st /\ m'.handler = m.handler /\ m'.holding = m.holding /\ m'.suspend = m.suspend
          /\ m'.alarm = m.alarm /\ m'.alarmPending = m.alarmPending
          /\ m'.abort = m.abort /\ m'.cancel = m.cancel /\ m'.blocking = m.blocking
          /\ m'.execHold = m.execHold
          /\ m'.exec = m.exec /\ m'.blk = m.blk /\ m'.stepping = m.stepping
          /\ m'.softLimit = m.softLimit /\ m'.rtx = m.rtx /\ m'.rta = m.rta
          /\ m'.seg = m.seg \/ m'.seg > 0
          /\ m.plb = "decel" \/ m.execHold
        <3> HIDE DEF Moves
        <3>1. m.plb = "decel" \/ m.execHold
            BY <1>5 DEF PrepHoldEnd, Profile
        <3>2. CASE m' = [m EXCEPT !.seg = @ + 1, !.plb = "decel", !.endMotion = TRUE]
            BY <1>2, <3>1, <3>2 DEF Machines
        <3>3. CASE m' = [m EXCEPT !.plb = "decel", !.endMotion = TRUE]
            BY <3>1, <3>3 DEF Machines
        <3> QED BY <1>5, <3>2, <3>3 DEF PrepHoldEnd
    <2>2. ~Resting(m) /\ m.handler # "cycle"
        BY <2>1
    <2> QED BY <1>1, <2>1, <2>2
<1> QED BY <1>3, <1>4, <1>5

LEMMA ReturnMoves ==
    ASSUME IInv, Safe, Moves, PrepDone \/ Return \/ SuspendLoop \/ SuspendEnd PROVE Moves'
<1> USE Hypotheses DEF Empty, Aborted
<1>1. CASE PrepDone
    BY <1>1 DEF PrepDone, ReturnFalse, ReturnTrue, executor, pins
<1>2. CASE SuspendEnd
    BY <1>2 DEF SuspendEnd, pins
<1>3. CASE Return
    <2>1. CASE m.suspend
        <3>1. /\ pc = "ret" /\ pc' = "susp" /\ inSusp' /\ UNCHANGED <<site, rt, ajar, estop>>
              /\ m' = [m EXCEPT !.blocking = FALSE]
            BY <1>3, <2>1 DEF Return, pins
        <3>2. /\ m'.st = m.st /\ m'.handler = m.handler /\ m'.holding = m.holding /\ m'.suspend = m.suspend
              /\ m'.alarm = m.alarm /\ m'.alarmPending = m.alarmPending
              /\ m'.abort = m.abort /\ m'.cancel = m.cancel /\ ~m'.blocking
              /\ m'.endMotion = m.endMotion /\ m'.execHold = m.execHold
              /\ m'.exec = m.exec /\ m'.seg = m.seg /\ m'.plb = m.plb
              /\ m'.blk = m.blk /\ m'.stepping = m.stepping /\ m'.softLimit = m.softLimit
              /\ m'.rtx = m.rtx /\ m'.rta = m.rta
            <4> HIDE DEF Moves
            <4> QED BY <3>1 DEF Machines
        <3> QED BY <3>1, <3>2
    <2>2. CASE ~m.suspend
        BY <1>3, <2>2 DEF Return, pins
    <2> QED BY <2>1, <2>2
<1>4. CASE SuspendLoop
    <2>1. /\ pc = "susp" /\ ~m.abort /\ pc' = "alarm"
          /\ UNCHANGED <<site, inSusp, rt, ajar, estop>>
          /\ m' \in {m, Flag(m, "DOOR_CLOSED")}
        BY <1>4 DEF SuspendLoop, executor, pins
    <2>2. /\ Agree(m, m') /\ m'.blk = m.blk /\ m'.stepping = m.stepping
          /\ m'.softLimit = m.softLimit /\ m'.rtx \in {m.rtx, m.rtx \cup {"DOOR_CLOSED"}}
          /\ m'.rta = m.rta
        <3> HIDE DEF Moves
        <3> QED BY <2>1 DEF Flag, Machines, Agree
    <2> QED BY <2>1, <2>2 DEF Agree
<1> QED BY <1>1, <1>2, <1>3, <1>4

LEMMA ExecutorMoves == ASSUME IInv, Safe, Moves, Executor PROVE Moves'
BY ExecAlarmMoves, CriticalLoopMoves, FetchMoves, FetchResetMoves, ExecUpdateMoves,
   ExecStopMoves, StopWaitedMoves, ExecStoppedMoves, PrepMoves, ReturnMoves, Zenon
DEF Executor

LEMMA StepperMoves == ASSUME IInv, Safe, Moves, Stepper PROVE Moves'
<1> USE Hypotheses DEF Safe, StopsOK, JogsOK, Empty, Aborted
<1>1. UNCHANGED <<pc, site, inSusp, rt, ajar, estop>> /\ m.stepping
    BY DEF Stepper, StepperSegment, StepperEmpty, executor, pins
<1>2. CASE StepperSegment
    <2>1. /\ m'.st = m.st /\ m'.handler = m.handler /\ m'.holding = m.holding /\ m'.suspend = m.suspend
          /\ m'.alarm = m.alarm /\ m'.alarmPending = m.alarmPending
          /\ m'.abort = m.abort /\ m'.cancel = m.cancel /\ m'.blocking = m.blocking
          /\ m'.endMotion = m.endMotion /\ m'.execHold = m.execHold
          /\ m'.exec /\ m'.plb = m.plb
          /\ m'.blk = m.blk /\ m'.stepping = m.stepping /\ m'.softLimit = m.softLimit
          /\ m'.rtx = m.rtx /\ m'.rta = m.rta
        <3> HIDE DEF Moves
        <3> QED BY <1>2 DEF StepperSegment, Machines
    <2> QED BY <1>1, <2>1
<1>3. CASE StepperEmpty
    <2>1. /\ m'.st = m.st /\ m'.handler = m.handler /\ m'.holding = m.holding /\ m'.suspend = m.suspend
          /\ m'.alarm = m.alarm /\ m'.alarmPending = m.alarmPending
          /\ m'.abort = m.abort /\ m'.cancel = m.cancel /\ m'.blocking = m.blocking
          /\ m'.endMotion = m.endMotion /\ m'.execHold = m.execHold
          /\ m'.seg = m.seg /\ m'.plb = m.plb
          /\ m'.blk = m.blk /\ ~m'.stepping /\ m'.softLimit = m.softLimit
          /\ m'.rtx = m.rtx \cup {"CYCLE_COMPLETE"} /\ m'.rta = m.rta
        <3> HIDE DEF Moves
        <3> QED BY <1>3 DEF StepperEmpty, Flag, Machines
    <2> QED BY <1>1, <2>1
<1> QED BY <1>2, <1>3 DEF Stepper

\* An input of these can only ask for something, or reset the machine.
LEMMA EnvironmentMoves == ASSUME Plain, IInv, Safe, Moves, Environment PROVE Moves'
<1> USE Hypotheses DEF Empty, Aborted
<1>1. CASE \E f \in {"STOP", "FEED_HOLD", "CYCLE_START"} :
              m' = Flag(m, f) /\ UNCHANGED <<pc, executor, pins>>
    <2>1. /\ UNCHANGED <<pc, site, inSusp, rt, ajar, estop>>
          /\ \E f \in {"STOP", "FEED_HOLD", "CYCLE_START"} : m' = Flag(m, f)
        BY <1>1 DEF executor, pins
    <2>2. /\ Agree(m, m') /\ m'.blk = m.blk /\ m'.stepping = m.stepping
          /\ m'.softLimit = m.softLimit /\ m'.rta = m.rta
          /\ m'.rtx \in {m.rtx \cup {"STOP"}, m.rtx \cup {"FEED_HOLD"}, m.rtx \cup {"CYCLE_START"}}
        <3> HIDE DEF Moves
        <3> QED BY <2>1 DEF Flag, Machines, Agree
    <2> QED BY <2>1, <2>2 DEF Agree
<1>2. CASE Reset \/ LimitTripped
    <2> DEFINE r == McReset(m, FALSE)
    <2>1. /\ UNCHANGED <<pc, site, inSusp, rt, ajar, estop>>
          /\ \/ m' = r
             \/ m' = [r EXCEPT !.rta = "HardLimit"] /\ m.st \notin Locked /\ m.rta = "None"
        <3>1. estop = FALSE
            BY DEF ControlOK
        <3> HIDE DEF Moves
        <3> QED BY <1>2, <3>1 DEF Reset, LimitTripped, Input, Quiet, executor, pins
    <2>2. /\ r \in Machines /\ Agree(m, r) /\ r.blk = m.blk /\ r.softLimit = m.softLimit
          /\ r.rtx = m.rtx \cup {"RESET"} /\ (r.stepping => m.stepping)
          /\ r.rta \in {m.rta, "AbortCycle"} /\ (m.blocking => r.rta = m.rta)
        BY McResetType, McResetAgrees
    <2> HIDE DEF r
    <2>3. /\ Agree(m, m') /\ m'.blk = m.blk /\ m'.softLimit = m.softLimit
          /\ m'.rtx = m.rtx \cup {"RESET"} /\ (m'.stepping => m.stepping)
          /\ \/ m'.rta \in {m.rta, "AbortCycle"} /\ (m.blocking => m'.rta = m.rta)
             \/ m'.rta = "HardLimit" /\ m.st \notin Locked /\ m.rta = "None"
        <3> HIDE DEF Moves
        <3> QED BY <2>1, <2>2 DEF Agree, Machines
    <2> QED BY <2>1, <2>3 DEF Agree
<1>3. CASE DoorCloses
    BY <1>3 DEF DoorCloses, executor
<1>4. ~estop /\ Inputs \cap {"jogCancel", "door", "doorCommand", "estop", "probe"} = {}
    BY DEF Plain
<1> QED
    <2>1. Environment => \/ Reset \/ LimitTripped \/ DoorCloses
                         \/ \E f \in {"STOP", "FEED_HOLD", "CYCLE_START"} :
                                 m' = Flag(m, f) /\ UNCHANGED <<pc, executor, pins>>
        <3> HIDE DEF Moves
        <3> QED BY <1>4 DEF Environment, Stop, FeedHold, CycleStart, JogCancel, DoorCommand,
                  DoorOpens, EStopPressed, EStopReleased, ProbeTripped, Input
    <2> QED BY <1>1, <1>2, <1>3, <2>1

LEMMA NextMoves == ASSUME Plain, IInv, Safe, Moves, Next PROVE Moves'
<1> HIDE DEF Moves
<1> QED BY MainLoopMoves, LinesMoves, ExecutorMoves, StepperMoves, EnvironmentMoves, Zenon
    DEF Next, Main

-----------------------------------------------------------------------------
(* Requests of a reset.                                                    *)

Resets(a, b) == "RESET" \notin a.rtx /\ "RESET" \in b.rtx

\* The main thread asks for a reset in limits_soft_check only.
LEMMA MainResets ==
    ASSUME IInv, Safe, Moves, Main, Resets(m, m') PROVE SoftReset
<1> USE Hypotheses DEF Resets
<1> HIDE DEF Moves
<1>1. \A x \in Alarms : RaiseAlarm(m, x).rtx = m.rtx
    BY DEF RaiseAlarm, SetLocked, Machines
<1>2. SetIdle(m).rtx = m.rtx
    BY DEF SetIdle, Machines
<1>3. AutoCycleStart.rtx \subseteq m.rtx \cup {"CYCLE_START"}
    BY DEF AutoCycleStart, Flag, Machines
<1>4. ~MainLoop
    <2>1. ~StartupEstop /\ ~Started
        BY <1>1, Values, Fields DEF StartupEstop, Started
    <2>2. ~StartupDoor /\ ~StartupIdle
        <3>1. SetIdle(m) \in Machines
            BY SetIdleType
        <3> QED BY <1>2, <3>1 DEF StartupDoor, StartupIdle, Flag, Machines
    <2>3. ~Reinit
        BY DEF Reinit, Reinitialize, StReset, PlanReset, SetLocked, Machines
    <2>4. ~LoopEnd
        BY <1>3 DEF LoopEnd
    <2>5. ~LoopAgain
        BY DEF LoopAgain, Machines
    <2>6. ~StartupLocked /\ ~(\E k \in LineKinds : ReadLine(k)) /\ ~AbortedAtEol /\ ~EndLine
        BY DEF StartupLocked, ReadLine, AbortedAtEol, EndLine
    <2> QED BY <2>1, <2>2, <2>3, <2>4, <2>5, <2>6 DEF MainLoop
<1>5. ~Executor
    <2>1. ~ExecUpdate /\ ~ExecStop /\ ~ExecStopped
        BY ExecUpdateMoves, ExecStopMoves, ExecStoppedMoves
    <2>2. ~ExecAlarm
        <3> DEFINE resetting == "RESET" \in m.rtx
                   taken == [m EXCEPT !.rta = "None", !.resetPending = resetting]
                   b == RaiseAlarm(taken, m.rta)
        <3>1. taken \in Machines /\ taken.rtx = m.rtx
            <4>1. resetting \in BOOLEAN /\ "None" \in Alarms
                BY Values
            <4> HIDE DEF resetting
            <4>2. taken \in Machines
                BY <4>1, Zenon DEF Machines
            <4> QED BY <4>2 DEF Machines
        <3> HIDE DEF taken
        <3>2. b \in Machines /\ b.rtx = m.rtx
            <4>1. m.rta \in Alarms
                BY Fields
            <4>2. b \in Machines
                BY <3>1, <4>1, RaiseAlarmType
            <4>3. b.rtx = taken.rtx
                BY <3>1 DEF RaiseAlarm, SetLocked, Machines
            <4> QED BY <3>1, <4>2, <4>3
        <3> HIDE DEF b
        <3>3. ExecAlarm => m' \in {[b EXCEPT !.blocking = TRUE, !.rta = m.rta, !.rtx = @ \ {"RESET"}],
                                   [b EXCEPT !.blocking = FALSE]}
            BY DEF ExecAlarm, taken, b
        <3> QED BY <3>2, <3>3 DEF Machines
    <2>3. ~CriticalLoop
        BY DEF CriticalLoop, Machines
    <2>4. ~Fetch /\ ~StopWaited /\ ~Return
        BY DEF Fetch, StopWaited, Return, Machines
    <2>5. ~FetchReset
        BY DEF FetchReset
    <2>6. ~PrepMore
        BY DEF PrepMore, PrepSegment, Machines
    <2>7. ~PrepBlockEnd
        BY DEF PrepBlockEnd, Machines
    <2>8. ~PrepHoldEnd
        BY DEF PrepHoldEnd, Machines
    <2>9. ~SuspendLoop
        BY DEF SuspendLoop, Flag, Machines
    <2>10. ~NoAlarm /\ ~PrepDone /\ ~SuspendEnd
        BY DEF NoAlarm, PrepDone, SuspendEnd
    <2> QED BY <2>1, <2>2, <2>3, <2>4, <2>5, <2>6, <2>7, <2>8, <2>9, <2>10, Zenon DEF Executor
<1>6. ASSUME Lines PROVE SoftReset
    <2>1. ~Unlock
        <3>1. Unlock => m' = m \/ m' = SetIdle(m)
            <4>1. SetIdle(m).alarmPending = "None"
                BY DEF SetIdle, Moves, ReleasedOK, Machines
            <4> QED BY <4>1, Zenon DEF Unlock
        <3> QED BY <1>2, <3>1
    <2>2. ~SyncLine /\ ~PlanWait
        BY <1>3 DEF SyncLine, PlanWait
    <2>3. ~BadLine
        <3>1. BadLine => \/ m' = [m EXCEPT !.softLimit = TRUE]
                         \/ m' = Flag([m EXCEPT !.softLimit = TRUE], "FEED_HOLD")
            BY DEF BadLine
        <3>2. m' = [m EXCEPT !.softLimit = TRUE] => m'.rtx = m.rtx
            BY DEF Machines
        <3>3. m' = Flag([m EXCEPT !.softLimit = TRUE], "FEED_HOLD")
                 => m'.rtx = m.rtx \cup {"FEED_HOLD"}
            BY DEF Flag, Machines
        <3> QED BY <3>1, <3>2, <3>3
    <2>4. ~PlanBlock
        <3> SUFFICES ASSUME PlanBlock PROVE FALSE
            OBVIOUS
        <3> DEFINE planned == [m EXCEPT !.blk = @ + 1, !.bad = @ \/ kind = "bad"]
        <3>1. m' = planned \/ m' \in PrepBuffer(SetJog(planned))
            BY Zenon DEF PlanBlock
        <3>2. m.blk + 1 \in 0..MaxBlk
            BY Fields, MaxBlkAssumption DEF PlanBlock
        <3>3. (m.bad \/ kind = "bad") \in BOOLEAN
            OBVIOUS
        <3>4. planned \in Machines
            BY <3>2, <3>3, Zenon DEF Machines
        <3>5. planned.rtx = m.rtx
            BY DEF Machines
        <3> HIDE DEF planned
        <3>6. SetJog(planned) \in Machines /\ SetJog(planned).rtx = m.rtx
            BY <3>4, <3>5, SetJogType DEF SetJog, Machines
        <3>7. m'.rtx = m.rtx
            BY <3>1, <3>5, <3>6, PrepBufferEffect
        <3> QED BY <3>7
    <2>5. ~JogWake
        BY DEF JogWake, Machines
    <2>6. ~JogLine /\ ~RejectLine /\ ~MoveLine /\ ~SyncWait /\ ~SoftWait
          /\ ~SoftEnd /\ ~LineStart /\ ~PlanAborted
        BY DEF JogLine, RejectLine, MoveLine, SyncWait, SoftWait, SoftEnd, LineStart, PlanAborted
    <2> QED BY <1>6, <2>1, <2>2, <2>3, <2>4, <2>5, <2>6, Zenon DEF Lines
<1> QED BY <1>4, <1>5, <1>6 DEF Main

Knows(a, b) ==
    (/\ "RESET" \notin a.rtx /\ "RESET" \in b.rtx
     /\ IsStepping(a) /\ a.st \notin Locked
     /\ ~a.resetPending /\ ~a.blocking /\ ~a.cancel)
        => b.positionLost

\* mc_reset finds a machine that is in motion in a state of motion.
LEMMA McResetKnows ==
    ASSUME IInv, Moves, m' = McReset(m, FALSE)
             \/ \E x : m' = [McReset(m, FALSE) EXCEPT !.rta = x]
    PROVE  Knows(m, m')
<1>1. m \in Machines /\ McReset(m, FALSE) \in Machines
    BY Hypotheses, McResetType
<1>2. m'.positionLost = McReset(m, FALSE).positionLost
    <2> HIDE DEF Moves
    <2> QED BY <1>1 DEF Machines
<1>3. "RESET" \notin m.rtx /\ ~m.resetPending /\ ~m.blocking
         => McReset(m, FALSE).positionLost = InMotion(m)
    <2> HIDE DEF Moves
    <2> QED BY <1>1 DEF McReset, Flag, Machines
<1>4. IsStepping(m) /\ m.st \notin Locked /\ ~m.cancel => InMotion(m)
    BY DEF IsStepping, InMotion
<1> QED BY <1>2, <1>3, <1>4, Zenon DEF Knows

LEMMA NextKnows == ASSUME Plain, IInv, Safe, Moves, Next PROVE Knows(m, m')
<1>1. estop = FALSE
    BY Hypotheses DEF ControlOK
<1> HIDE DEF Moves
<1>2. CASE Main
    <2>1. CASE SoftReset
        BY <1>1, <2>1, McResetKnows DEF SoftReset
    <2>2. CASE ~SoftReset
        BY <1>2, <2>2, MainResets DEF Knows, Resets
    <2> QED BY <2>1, <2>2
<1>3. CASE Stepper
    <2>1. StepperSegment => m'.rtx = m.rtx
        BY Hypotheses DEF StepperSegment, Machines
    <2>2. StepperEmpty => m'.rtx = m.rtx \cup {"CYCLE_COMPLETE"}
        BY Hypotheses DEF StepperEmpty, Flag, Machines
    <2>3. "RESET" \in m'.rtx => "RESET" \in m.rtx
        BY <1>3, <2>1, <2>2 DEF Stepper
    <2> QED BY <2>3 DEF Knows
<1>4. CASE Reset \/ LimitTripped
    BY <1>1, <1>4, McResetKnows DEF Reset, LimitTripped
<1>5. CASE Environment /\ ~Reset /\ ~LimitTripped
    <2>1. \/ m' = m
          \/ \E f \in {"STOP", "FEED_HOLD", "CYCLE_START"} : m' = Flag(m, f)
        BY <1>1, <1>5 DEF Plain, Environment, Stop, FeedHold, CycleStart, JogCancel, DoorCommand,
           DoorOpens, DoorCloses, EStopPressed, EStopReleased, ProbeTripped, Input
    <2>2. "RESET" \in m'.rtx => "RESET" \in m.rtx
        BY <2>1, Hypotheses DEF Flag, Machines
    <2> QED BY <2>2 DEF Knows
<1> QED BY <1>2, <1>3, <1>4, <1>5 DEF Next

-----------------------------------------------------------------------------
(* The theorems.                                                           *)

LEMMA MovesInvariance == ASSUME Plain PROVE Spec /\ ~estop => [](IInv /\ Safe /\ Moves)
<1>1. Init /\ ~estop => Moves
    BY InitMoves
<1>2. IInv /\ Safe /\ Moves /\ [Next]_vars => Moves'
    <2> SUFFICES ASSUME IInv, Safe, Moves, [Next]_vars PROVE Moves'
        OBVIOUS
    <2>1. CASE Next
        <3> HIDE DEF Moves
        <3> QED BY <2>1, NextMoves
    <2>2. CASE UNCHANGED vars
        BY <2>2 DEF vars, executor, pins, Empty, Aborted
    <2> QED BY <2>1, <2>2
<1> HIDE DEF Moves, Plain
<1> QED BY <1>1, <1>2, SafeInvariance, PTL DEF Spec

\* The stepper interrupt is never left running on an empty ring: whoever wakes
\* up the steppers has prepared a segment, and only the interrupt takes it.
THEOREM WakesOnSomething == ASSUME Plain PROVE Spec /\ ~estop => []NoBareWake
<1>1. Moves => NoBareWake
    BY DEF NoBareWake
<1> HIDE DEF Moves, Plain
<1> QED BY <1>1, MovesInvariance, PTL

\* IDLE and a completed hold are never reported of a machine that moves,
\* whatever is requested while it decelerates, stops or is being reset.
THEOREM RestsStill == ASSUME Plain PROVE Spec /\ ~estop => []RestIsStill
<1>1. Moves => RestIsStill
    BY DEF RestIsStill
<1> HIDE DEF Moves, Plain
<1> QED BY <1>1, MovesInvariance, PTL

\* A completion that the executor has not seen yet is about the last motion.
THEOREM CompletionsFresh == ASSUME Plain PROVE Spec /\ ~estop => []CompletionIsFresh
<1>1. Moves => CompletionIsFresh
    BY DEF CompletionIsFresh
<1> HIDE DEF Moves, Plain
<1> QED BY <1>1, MovesInvariance, PTL

\* Whenever a reset or a limit switch hits a moving machine, mc_reset knows.
THEOREM ResetsKnowMotion == ASSUME Plain PROVE Spec /\ ~estop => ResetKnowsMotion
<1>1. IInv /\ Safe /\ Moves /\ [Next]_vars =>
         [(/\ "RESET" \notin m.rtx /\ "RESET" \in m'.rtx
           /\ IsStepping(m) /\ m.st \notin Locked
           /\ ~m.resetPending /\ ~m.blocking /\ ~m.cancel)
              => m'.positionLost]_vars
    <2> SUFFICES ASSUME IInv, Safe, Moves, Next PROVE Knows(m, m')
        BY DEF Knows
    <2> HIDE DEF Moves
    <2> QED BY NextKnows
<1> HIDE DEF Moves, Plain
<1> QED BY <1>1, MovesInvariance, PTL DEF Spec, ResetKnowsMotion
=============================================================================
