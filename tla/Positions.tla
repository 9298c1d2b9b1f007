------------------------------ MODULE Positions ------------------------------
(***************************************************************************)
(* The three positions of the robot: gc_state.position, the pose of the    *)
(* tool after every line the parser has accepted; pl.position, the motors  *)
(* after every block in the planner; sys.position, the motors now.  Words  *)
(* a line leaves out are taken from the first (G0, G1, $J=) or from the    *)
(* second (M100), so that a disagreement turns into motion nobody asked    *)
(* for.                                                                    *)
(*                                                                         *)
(* A line that is being executed waits in mc_line() for room in the        *)
(* planner, and stop, jog cancel and reset requests are served there.  How *)
(* requests are served, and the states of the machine, are the subject of  *)
(* module RealtimeControl; here a request is one step.  Soft limits of the *)
(* single axes are off, the default, and B words are not modelled (inverse *)
(* kinematics does not read them).                                         *)
(***************************************************************************)
EXTENDS Inspector, Sequences

CONSTANTS Places,        \* the XY places of G0, G1 and $J= lines
          Heights,       \* their Z words
          BaseWords, LiftWords, RailWords,   \* P, Q and R words of M100
          Kinds,         \* the lines that occur
          Requests,      \* the requests that occur
          MaxBlk,        \* bound: blocks the planner ring holds
          MaxLines       \* bound: how many lines are executed

ASSUME PlacesAssumption ==
    Places \subseteq {w \in [r : Nat, t : Turn] : w.r = 0 => w.t = 0}
ASSUME WordsAssumption == /\ Heights \subseteq Int
                          /\ BaseWords \subseteq Turn
                          /\ LiftWords \subseteq Int /\ RailWords \subseteq Int
ASSUME KindsAssumption == Kinds \subseteq {"move", "jog", "joints"}
ASSUME RequestsAssumption == Requests \subseteq {"stop", "jogCancel", "reset"}
ASSUME RoomAssumption == MaxBlk \in Nat /\ MaxBlk > 0 /\ MaxLines \in Nat

VARIABLES parser,    \* gc_state.position
          planner,   \* pl.position
          actual,    \* sys.position
          queue,     \* targets of the planned blocks
          mode,      \* IDLE, CYCLE or JOG
          line,      \* the line in mc_line(), or "none"
          target,    \* gc_block.values.xyz: where it goes
          trsf,      \* and the motors that take it there
          lines,     \* lines that may still come
          direct,    \* history: joints have been set by M100
          cutJog     \* history: the last line was a jog that a stop ended

positions == <<parser, planner, actual>>
current == <<line, target, trsf>>
history == <<direct, cutJog>>
vars == <<positions, queue, mode, current, lines, history>>

Home == [a |-> 0, b |-> 0, z |-> 0, base |-> 0]

\* All motors are at zero, and the positions are synchronized.
Init == /\ planner = Home /\ actual = Home
        /\ parser = Forward(Unmix(Home))
        /\ queue = <<>> /\ mode = "IDLE"
        /\ line = "none" /\ target = parser /\ trsf = Home
        /\ lines = MaxLines
        /\ direct = FALSE /\ cutJog = FALSE

-----------------------------------------------------------------------------
(* Lines                                                                   *)

\* The target of a line: a word it leaves out keeps the parser's value.
Targets ==
    {[r |-> w.r, t |-> w.t, z |-> z, pitch |-> a] :
        w \in Places \cup {[r |-> parser.r, t |-> parser.t]},
        z \in Heights \cup {parser.z},
        a \in Pitches}

NewLine(k) == /\ k \in Kinds /\ line = "none" /\ lines > 0
              /\ lines' = lines - 1

\* Until the next line nobody reads what is left of this one.
LineEnds == line' = "none" /\ target' = parser' /\ trsf' = planner'

\* g-code is locked out while jogging, and jogs while a cycle runs.
Allowed(k) == IF k = "jog" THEN mode # "CYCLE" ELSE mode # "JOG"

\* G0, G1 and $J=: inspector_segment_line() finds the motors.
Cartesian(k) ==
    /\ k \in {"move", "jog"} /\ NewLine(k) /\ Allowed(k)
    /\ \E p \in Targets :
          /\ Accepted(p)
          /\ target' = p
          /\ trsf' = Mix(Inverse(p))
    /\ line' = k
    /\ UNCHANGED <<positions, queue, mode, history>>

\* Where the motors may have stopped: before, on or after the way to a block.
Stops ==
    IF queue = <<>> \/ mode = "IDLE" THEN {actual}
    ELSE LET from == Unmix(actual)
             to == Unmix(Head(queue))
             Halfway(i) == (from[i] + to[i]) \div 2
             on == [q1 |-> Halfway("q1"), q2 |-> Halfway("q2"),
                    q3 |-> Halfway("q3"), q4 |-> Halfway("q4")]
         IN  {actual, Head(queue)} \cup (IF on.q4 \in Pitches THEN {Mix(on)} ELSE {})

\* plan_reset(), st_reset() and sync_position().
Sync == /\ actual' \in Stops
        /\ planner' = actual'
        /\ queue' = <<>>
        /\ mode' = "IDLE"

\* A target out of limits: the robot stops, raises the alarm and, after a
\* reset, is initialized again.
Reject(k) ==
    /\ k \in {"move", "jog"} /\ NewLine(k) /\ Allowed(k)
    /\ \E p \in Targets : ~Accepted(p) /\ target' = p
    /\ Sync
    /\ parser' = Forward(Unmix(actual'))
    /\ cutJog' = FALSE
    /\ UNCHANGED <<line, trsf, direct>>

\* M100: joints the line leaves out keep the planner's value, and nobody
\* checks the limits.
Direct ==
    /\ NewLine("joints") /\ Allowed("joints")
    /\ LET now == Unmix(planner)
       IN  \E q1 \in BaseWords \cup {now.q1}, q2 \in LiftWords \cup {now.q2},
              q3 \in RailWords \cup {now.q3}, q4 \in Pitches :
                 trsf' = Mix([q1 |-> q1, q2 |-> q2, q3 |-> q3, q4 |-> q4])
    /\ line' = "joints"
    /\ direct' = TRUE
    /\ UNCHANGED <<positions, queue, mode, target, cutJog>>

\* Mutant of Plan: M100 leaves the parser where it is.
PlanForgets ==
    /\ line # "none" /\ Len(queue) < MaxBlk
    /\ queue' = IF trsf = planner THEN queue ELSE Append(queue, trsf)
    /\ planner' = trsf
    /\ parser' = IF line = "joints" THEN parser ELSE target
    /\ mode' = IF line = "jog" /\ mode = "IDLE" /\ queue' # <<>> THEN "JOG" ELSE mode
    /\ cutJog' = FALSE
    /\ LineEnds
    /\ UNCHANGED <<actual, lines, direct>>

\* There is room: plan_buffer_line(), which drops a block of no length.
Plan ==
    /\ line # "none" /\ Len(queue) < MaxBlk
    /\ queue' = IF trsf = planner THEN queue ELSE Append(queue, trsf)
    /\ planner' = trsf
    /\ parser' = IF line = "joints" THEN Forward(Unmix(planner')) ELSE target
    /\ mode' = IF line = "jog" /\ mode = "IDLE" /\ queue' # <<>> THEN "JOG" ELSE mode
    /\ cutJog' = FALSE
    /\ LineEnds
    /\ UNCHANGED <<actual, lines, direct>>

-----------------------------------------------------------------------------
(* Motion and requests                                                     *)

StartCycle == /\ mode = "IDLE" /\ queue # <<>>
              /\ mode' = "CYCLE"
              /\ UNCHANGED <<positions, queue, current, lines, history>>

Execute == /\ mode # "IDLE" /\ queue # <<>>
           /\ actual' = Head(queue)
           /\ queue' = Tail(queue)
           /\ mode' = IF queue' = <<>> THEN "IDLE" ELSE mode
           /\ UNCHANGED <<parser, planner, current, lines, history>>

\* CMD_STOP.  A line that waits is given up: gc_execute_block() then leaves
\* the position alone, unless the line is a jog.
Stop == /\ "stop" \in Requests
        /\ Sync
        /\ parser' = IF line = "jog" THEN target ELSE Forward(Unmix(actual'))
        /\ LineEnds
        /\ cutJog' = (line = "jog")
        /\ UNCHANGED <<lines, direct>>

\* Mutant of JogCancel: the positions are not synchronized.
JogCancelUnsynced ==
    /\ "jogCancel" \in Requests /\ mode = "JOG"
    /\ actual' \in Stops
    /\ queue' = <<>> /\ mode' = "IDLE"
    /\ UNCHANGED <<parser, planner, current, lines, history>>

\* CMD_JOG_CANCEL.  A jog that waits goes on afterwards.
JogCancel == /\ "jogCancel" \in Requests /\ mode = "JOG"
             /\ Sync
             /\ parser' = Forward(Unmix(actual'))
             /\ cutJog' = FALSE
             /\ UNCHANGED <<current, lines, direct>>

\* CMD_RESET: everything is given up and initialized again.
Reset == /\ "reset" \in Requests
         /\ Sync
         /\ parser' = Forward(Unmix(actual'))
         /\ LineEnds
         /\ cutJog' = FALSE
         /\ UNCHANGED <<lines, direct>>

Next == \/ \E k \in Kinds : Cartesian(k) \/ Reject(k)
        \/ Direct \/ Plan \/ StartCycle \/ Execute
        \/ Stop \/ JogCancel \/ Reset

Spec == Init /\ [][Next]_vars

-----------------------------------------------------------------------------
(* Properties                                                              *)

\* Every variable has a value of its C type.
TypeOK == /\ parser \in Poses /\ planner \in Motors /\ actual \in Motors
          /\ queue \in Seq(Motors) /\ Len(queue) <= MaxBlk
          /\ mode \in {"IDLE", "CYCLE", "JOG"}
          /\ line \in {"none", "move", "jog", "joints"}
          /\ target \in Poses /\ trsf \in Motors
          /\ lines \in 0..MaxLines
          /\ direct \in BOOLEAN /\ cutJog \in BOOLEAN

\* The parser stands where the planner does, whichever kind of line, sync or
\* interruption came last, but for a jog that a stop has ended.
ParserFollowsPlanner == ~cutJog => parser = Forward(Unmix(planner))

\* The planner stands where the motors will be when all is executed.
PlannerIsLastTarget ==
    planner = IF queue = <<>> THEN actual ELSE queue[Len(queue)]

\* Until M100 is used, no joint leaves its limits, wherever motion stops.
LimitsKept ==
    ~direct => \A v \in {planner, actual} \cup {queue[i] : i \in 1..Len(queue)} :
                   InLimits(Unmix(v))

\* The tool is on the side of the base the arm extends to.
ArmSide(j) == j.q3 + CosD[j.q4] < Offset

\* While the arm is on its own side of the base, a line that keeps the place
\* in the XY plane does not turn the base.
SamePlaceKeepsBase ==
    [][(/\ line \in {"move", "jog"} /\ line' = "none" /\ planner' = trsf
        /\ ~cutJog /\ ArmSide(Unmix(planner))
        /\ target.r = parser.r /\ target.t = parser.t)
           => planner'.base = planner.base]_vars

\* A line is rejected only when no joints within the limits reach its target.
RejectedIsUnreachable ==
    [][lines' < lines /\ line' = "none" => ~Reachable(target')]_vars

-----------------------------------------------------------------------------
(* What the repository says and the code does not do.                      *)

\* gcode.c:4561: "Do not update position on cancel (already done in
\* protocol_exec_rt_system)".
CancelKeepsPosition == parser = Forward(Unmix(planner))

\* README.md:160: q1 is determined by the XY position alone ("univocamente").
PlaceFixesBase ==
    [][(/\ line \in {"move", "jog"} /\ line' = "none" /\ planner' = trsf
        /\ ~cutJog /\ parser.r > 0
        /\ target.r = parser.r /\ target.t = parser.t)
           => planner'.base = planner.base]_vars
=============================================================================
