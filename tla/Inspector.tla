------------------------------ MODULE Inspector ------------------------------
(***************************************************************************)
(* The kinematics of the Inspector robot (kinematics/inspector.c): a base  *)
(* that turns (q1), a vertical rail (q2), a radial rail (q3) and a wrist   *)
(* (q4), the two last moved by the same pair of motors.                    *)
(*                                                                         *)
(* Lengths are whole millimetres and an angle of the base is a whole       *)
(* number of steps, Half of them in half a turn, so that the trigonometric *)
(* identities that inverse and forward kinematics rest on are exact here   *)
(* (in floats they are met within LINK_LIMIT_EPS, which this module        *)
(* leaves out).  The place of the tool in the XY plane is given by its     *)
(* distance from the base and the direction of the arm, which extends to   *)
(* negative x: direction 0 is x < 0.  The directions -Half and Half are    *)
(* the two sides of x > 0, y = 0, which a float tells apart as well, by    *)
(* the sign of y.                                                          *)
(***************************************************************************)
EXTENDS Integers

CONSTANTS Half,      \* base steps in half a turn
          Pitches,   \* the angles of the wrist, in degrees
          CosD, SinD \* D * cosf(q4), D * sinf(q4), in millimetres

D == 50              \* length of the wrist
Offset == 140        \* L1 - L3
L2 == 60

ASSUME HalfAssumption == Half \in Nat /\ Half > 0

\* D * cosf(q4) is at least -9 mm within the range of the wrist.
ASSUME WristAssumption ==
    /\ Pitches \subseteq Int /\ 0 \in Pitches
    /\ CosD \in [Pitches -> -D..D] /\ SinD \in [Pitches -> -D..D]
    /\ \A q4 \in Pitches : q4 \in -100..100 => CosD[q4] >= -9

Turn == -Half..Half

Joints == [q1 : Turn, q2 : Int, q3 : Int, q4 : Pitches]
Motors == [a : Int, b : Int, z : Int, base : Turn]
Poses == {p \in [r : Nat, t : Turn, z : Int, pitch : Pitches] : p.r = 0 => p.t = 0}

\* The joints the limit check of transform_from_cartesian lets pass.
InLimits(j) == j.q2 \in 0..180 /\ j.q3 \in 0..180 /\ j.q4 \in -100..100

-----------------------------------------------------------------------------
(* The belt: q3 is the common mode of the two motors, q4 the differential  *)
(* one (one unit of a motor stands for INSPECTOR_Y_SCALE degrees).         *)

Mix(j) == [a |-> -j.q3 - j.q4, b |-> -j.q3 + j.q4, z |-> j.q2, base |-> j.q1]

Unmix(v) == [q1 |-> v.base, q2 |-> v.z, q3 |-> -((v.a + v.b) \div 2),
             q4 |-> (v.b - v.a) \div 2]

-----------------------------------------------------------------------------
(* transform_to_cartesian and transform_from_cartesian                     *)

\* The direction of the arm for a tool on the other side of the base.
Opposite(t) == IF t > 0 THEN t - Half ELSE IF t < 0 THEN t + Half ELSE -Half

\* Mutant of Forward: the side of the base is not looked at.
ForwardOneSide(j) ==
    LET gamma == j.q3 + CosD[j.q4] - Offset
    IN  [r |-> IF gamma < 0 THEN -gamma ELSE gamma, t |-> j.q1,
         z |-> j.q2 + L2 - SinD[j.q4], pitch |-> j.q4]

\* Forward kinematics.  A tool on the axis of the base has direction 0.
Forward(j) ==
    LET gamma == j.q3 + CosD[j.q4] - Offset
    IN  [r |-> IF gamma < 0 THEN -gamma ELSE gamma,
         t |-> IF gamma < 0 THEN j.q1 ELSE IF gamma = 0 THEN 0 ELSE Opposite(j.q1),
         z |-> j.q2 + L2 - SinD[j.q4],
         pitch |-> j.q4]

\* The joints that put the tool at p with gamma = -r (the branch that is
\* tried first) and with gamma = r.
Minus(p) == [q1 |-> IF p.r = 0 THEN 0 ELSE p.t,
             q2 |-> p.z - L2 + SinD[p.pitch],
             q3 |-> -p.r - CosD[p.pitch] + Offset,
             q4 |-> p.pitch]

Plus(p) == [q1 |-> IF p.r = 0 THEN 0 ELSE Opposite(p.t),
            q2 |-> p.z - L2 + SinD[p.pitch],
            q3 |-> p.r - CosD[p.pitch] + Offset,
            q4 |-> p.pitch]

\* Mutant of Inverse: the branch + is tried first.
InversePlus(p) == IF Plus(p).q3 \in 0..180 THEN Plus(p) ELSE Minus(p)

\* Inverse kinematics: a branch is taken when its q3 is within the rail (its
\* q1 always is within a turn), and the branch - when neither is.
Inverse(p) == IF Minus(p).q3 \notin 0..180 /\ Plus(p).q3 \in 0..180
              THEN Plus(p) ELSE Minus(p)

\* Mutant of Accepted: the wrist is checked, the rails are not.
AcceptedWrist(p) == Inverse(p).q4 \in -100..100

\* Mutant of Accepted: the wrist is held to the right angles of the DH model.
AcceptedRightAngle(p) == InLimits(Inverse(p)) /\ p.pitch \in -90..90

\* ~joint_limit_violation
Accepted(p) == InLimits(Inverse(p))

-----------------------------------------------------------------------------
(* What inverse kinematics is for, stated without it.                      *)

\* Joints within the limits put the tool at p (the height determines q2).
Reachable(p) ==
    LET q2 == p.z - L2 + SinD[p.pitch]
    IN  /\ p.pitch \in -100..100 /\ q2 \in 0..180
        /\ \E q1 \in Turn, q3 \in 0..180 :
              Forward([q1 |-> q1, q2 |-> q2, q3 |-> q3, q4 |-> p.pitch]) = p
=============================================================================
