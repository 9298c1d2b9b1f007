---------------------------- MODULE OperatorView ----------------------------
(***************************************************************************)
(* What the realtime executor promises to whoever stands at the machine    *)
(* and reads its status reports: the mode the machine reports, and whether *)
(* the motors turn.  Motors start in an unlocked mode only and end up in a *)
(* mode that says so, unless the machine is resumed from DOOR; a jog       *)
(* begins in IDLE only, and a locked machine (ALARM, ESTOP) is unlocked    *)
(* into a mode of rest.                                                    *)
(***************************************************************************)
VARIABLES mode,    \* the reported sys_state
          moving   \* is the step timer running?

vars == <<mode, moving>>

Modes == {"IDLE", "CYCLE", "HOLD", "JOG", "DOOR", "ALARM", "ESTOP"}
LockedModes == {"ALARM", "ESTOP"}
Unlocked == Modes \ LockedModes

Init == mode = "IDLE" /\ moving = FALSE

\* A cycle may be started and asked to hold by one and the same request.
StartCycle == /\ mode \in Unlocked
              /\ mode' \in {"CYCLE", "HOLD"} /\ moving' = TRUE

\* The cycle is started twice, and the second start may find nothing left to do.
ResumeDoor == mode = "DOOR" /\ mode' = "IDLE" /\ moving' = TRUE

\* The motors of a jog are started after the mode is reported.
BeginJog == mode = "IDLE" /\ mode' = "JOG" /\ UNCHANGED moving
StartJog == mode = "JOG" /\ moving' = TRUE /\ UNCHANGED mode

Halt == moving /\ moving' = FALSE /\ UNCHANGED mode

\* Holds, doors and the ends of motions.
Switch == /\ mode \in Unlocked /\ mode' \in {"IDLE", "HOLD", "DOOR"}
          /\ moving' => moving
          /\ moving' \in BOOLEAN

Lock == /\ mode' \in LockedModes
        /\ moving' => moving
        /\ moving' \in BOOLEAN

Unlock == /\ mode \in LockedModes /\ mode' \in {"IDLE", "HOLD", "DOOR"}
          /\ moving' => moving
          /\ moving' \in BOOLEAN

Next == \/ StartCycle \/ ResumeDoor \/ BeginJog \/ StartJog
        \/ Halt \/ Switch \/ Lock \/ Unlock

Spec == Init /\ [][Next]_vars
=============================================================================
