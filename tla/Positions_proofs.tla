--------------------------- MODULE Positions_proofs --------------------------
(***************************************************************************)
(* Forward and inverse kinematics of the Inspector are inverse to each     *)
(* other on the poses that are accepted; and the three positions, of the   *)
(* parser, the planner and the motors, agree whatever is executed, refused *)
(* or interrupted.                                                         *)
(***************************************************************************)
EXTENDS Positions, TLAPS

-----------------------------------------------------------------------------
(* The kinematics. *)

\* Taking the belt apart gives back the joints it was made of.
LEMMA BeltRoundTrip ==
    ASSUME NEW j \in Joints
    PROVE  Unmix(Mix(j)) = j
<1>1. j.q1 \in Turn /\ j.q2 \in Int /\ j.q3 \in Int /\ j.q4 \in Int
  BY WristAssumption DEF Joints
<1>2. -((-j.q3 - j.q4 + (-j.q3 + j.q4)) \div 2) = j.q3
  BY <1>1
<1>3. (-j.q3 + j.q4 - (-j.q3 - j.q4)) \div 2 = j.q4
  BY <1>1
<1>4. Unmix(Mix(j)) = [q1 |-> j.q1, q2 |-> j.q2, q3 |-> j.q3, q4 |-> j.q4]
  BY <1>1, <1>2, <1>3 DEF Unmix, Mix
<1> QED
  BY <1>4 DEF Joints

LEMMA MixType ==
    ASSUME NEW j \in Joints
    PROVE  Mix(j) \in Motors
<1>1. j.q1 \in Turn /\ j.q2 \in Int /\ j.q3 \in Int /\ j.q4 \in Int
  BY WristAssumption DEF Joints
<1> QED
  BY <1>1 DEF Mix, Motors

LEMMA OppositeType ==
    ASSUME NEW t \in Turn
    PROVE  Opposite(t) \in Turn
BY HalfAssumption DEF Opposite, Turn

LEMMA ForwardType ==
    ASSUME NEW j \in Joints
    PROVE  Forward(j) \in Poses
<1> DEFINE gamma == j.q3 + CosD[j.q4] - Offset
<1>1. /\ j.q1 \in Turn /\ j.q2 \in Int /\ j.q3 \in Int /\ j.q4 \in Pitches
      /\ CosD[j.q4] \in Int /\ SinD[j.q4] \in Int
  <2>1. j.q1 \in Turn /\ j.q2 \in Int /\ j.q3 \in Int /\ j.q4 \in Pitches
    BY DEF Joints
  <2>2. CosD[j.q4] \in -50..50 /\ SinD[j.q4] \in -50..50
    BY <2>1, WristAssumption DEF D
  <2> QED
    BY <2>1, <2>2
<1>2. gamma \in Int
  BY <1>1 DEF Offset
<1>3. 0 \in Turn
  BY HalfAssumption DEF Turn
<1>4. Opposite(j.q1) \in Turn
  BY <1>1, OppositeType
<1>5. j.q2 + L2 - SinD[j.q4] \in Int
  BY <1>1 DEF L2
<1> HIDE DEF gamma
<1> DEFINE r == IF gamma < 0 THEN -gamma ELSE gamma
           t == IF gamma < 0 THEN j.q1 ELSE IF gamma = 0 THEN 0 ELSE Opposite(j.q1)
<1>6. r \in Nat /\ t \in Turn /\ (r = 0 => t = 0)
  BY <1>1, <1>2, <1>3, <1>4
<1>7. Forward(j) = [r |-> r, t |-> t, z |-> j.q2 + L2 - SinD[j.q4], pitch |-> j.q4]
  BY DEF Forward, gamma
<1> QED
  BY <1>1, <1>5, <1>6, <1>7 DEF Poses

LEMMA PoseFields ==
    ASSUME NEW p \in Poses
    PROVE  /\ p.r \in Nat /\ p.t \in Turn /\ p.z \in Int /\ p.pitch \in Pitches
           /\ p.pitch \in Int
           /\ CosD[p.pitch] \in -50..50 /\ SinD[p.pitch] \in -50..50
           /\ p.r = 0 => p.t = 0
           /\ p.pitch \in -100..100 => CosD[p.pitch] >= -9
           /\ p = [r |-> p.r, t |-> p.t, z |-> p.z, pitch |-> p.pitch]
BY WristAssumption DEF Poses, D

\* A pose that is accepted is never reached with the tool on the other side
\* of the base: whenever gamma = r fits the rail, so does gamma = -r.
LEMMA PlusIsNeverNeeded ==
    ASSUME NEW p \in Poses, Accepted(p)
    PROVE  Inverse(p) = Minus(p)
<1>1. CASE Inverse(p) = Minus(p)
  BY <1>1
<1>2. CASE Inverse(p) # Minus(p)
  <2>1. Minus(p).q3 \notin 0..180 /\ Plus(p).q3 \in 0..180 /\ Inverse(p) = Plus(p)
    BY <1>2 DEF Inverse
  <2>2. p.pitch \in -100..100
    BY <2>1 DEF Accepted, InLimits, Plus
  <2>3. p.r - CosD[p.pitch] + 140 \in 0..180
    BY <2>1 DEF Plus, Offset
  <2>4. -p.r - CosD[p.pitch] + 140 \notin 0..180
    BY <2>1 DEF Minus, Offset
  <2> DEFINE c == CosD[p.pitch]
             r == p.r
  <2>5. c \in -9..50 /\ r \in Nat
    BY <2>2, PoseFields
  <2>6. r - c + 140 \in 0..180 /\ -r - c + 140 \notin 0..180
    BY <2>3, <2>4
  <2> HIDE DEF c, r
  <2> QED
    BY <2>5, <2>6
<1> QED
  BY <1>1, <1>2

LEMMA InverseType ==
    ASSUME NEW p \in Poses, Accepted(p)
    PROVE  Inverse(p) \in Joints
<1>1. Inverse(p) = Minus(p)
  BY PlusIsNeverNeeded
<1>2. 0 \in Turn
  BY HalfAssumption DEF Turn
<1> QED
  BY <1>1, <1>2, PoseFields DEF Minus, Joints, L2, Offset

\* Where an accepted line leads is where the position report then shows the
\* tool: transform_to_cartesian undoes transform_from_cartesian.
THEOREM AcceptedIsReached ==
    ASSUME NEW p \in Poses, Accepted(p)
    PROVE  Forward(Unmix(Mix(Inverse(p)))) = p
<1>1. Inverse(p) = Minus(p)
  BY PlusIsNeverNeeded
<1>2. Unmix(Mix(Inverse(p))) = Minus(p)
  BY <1>1, InverseType, BeltRoundTrip
<1> DEFINE j == Minus(p)
<1>3. /\ j.q1 = (IF p.r = 0 THEN 0 ELSE p.t) /\ j.q2 = p.z - 60 + SinD[p.pitch]
      /\ j.q3 + CosD[j.q4] - 140 = -p.r /\ j.q4 = p.pitch
  BY PoseFields DEF Minus, L2, Offset
<1>4. Forward(j) =
        [r |-> IF -p.r < 0 THEN p.r ELSE -p.r,
         t |-> IF -p.r < 0 THEN j.q1 ELSE IF -p.r = 0 THEN 0 ELSE Opposite(j.q1),
         z |-> j.q2 + 60 - SinD[p.pitch], pitch |-> p.pitch]
  <2> HIDE DEF j
  <2>1. -(-p.r) = p.r
    BY PoseFields
  <2> QED
    BY <1>3, <2>1 DEF Forward, L2, Offset
<1>5. (IF -p.r < 0 THEN p.r ELSE -p.r) = p.r
  BY PoseFields
<1>6. (IF -p.r < 0 THEN j.q1 ELSE IF -p.r = 0 THEN 0 ELSE Opposite(j.q1)) = p.t
  BY <1>3, PoseFields
<1>7. j.q2 + 60 - SinD[p.pitch] = p.z
  BY <1>3, PoseFields
<1> QED
  BY <1>2, <1>4, <1>5, <1>6, <1>7, PoseFields

\* A line is rejected only when no joints within the limits put the tool
\* where it was to go, on either side of the base.
THEOREM RejectedIsUnreached ==
    ASSUME NEW p \in Poses, ~Accepted(p)
    PROVE  ~Reachable(p)
<1> SUFFICES ASSUME Reachable(p) PROVE FALSE
  OBVIOUS
<1>1. p.pitch \in -100..100 /\ p.z - 60 + SinD[p.pitch] \in 0..180
  BY DEF Reachable, L2
<1>2. PICK q1 \in Turn, q3 \in 0..180 :
         Forward([q1 |-> q1, q2 |-> p.z - L2 + SinD[p.pitch],
                  q3 |-> q3, q4 |-> p.pitch]) = p
  BY DEF Reachable
<1> DEFINE gamma == q3 + CosD[p.pitch] - 140
<1>3. p.r = IF gamma < 0 THEN -gamma ELSE gamma
  BY <1>2 DEF Forward, Offset
<1>4. -p.r - CosD[p.pitch] + 140 \in 0..180
  <2> DEFINE c == CosD[p.pitch]
             r == p.r
  <2>1. c \in -9..50 /\ r \in Nat
    BY <1>1, PoseFields
  <2>2. r = IF q3 + c - 140 < 0 THEN -(q3 + c - 140) ELSE q3 + c - 140
    BY <1>3
  <2> HIDE DEF c, r
  <2>3. -r - c + 140 \in 0..180
    BY <2>1, <2>2
  <2> QED
    BY <2>3 DEF c, r
<1>5. Minus(p).q3 \in 0..180 /\ Inverse(p) = Minus(p)
  BY <1>4 DEF Minus, Inverse, Offset
<1>6. InLimits(Inverse(p))
  BY <1>1, <1>5 DEF InLimits, Minus, L2
<1> QED
  BY <1>6 DEF Accepted

-----------------------------------------------------------------------------
(* The positions. *)

Placed(v) == v \in Motors /\ Unmix(v) \in Joints

Aimed == line \in {"move", "jog"} => Accepted(target) /\ trsf = Mix(Inverse(target))

\* The inductive invariant: motors are always where joints can put them, and
\* a line in mc_line() still leads where its target is.
IInv == /\ TypeOK
        /\ Placed(planner) /\ Placed(actual) /\ Placed(trsf)
        /\ \A i \in 1..Len(queue) : Placed(queue[i])
        /\ Aimed
        /\ ParserFollowsPlanner
        /\ PlannerIsLastTarget

LEMMA PlacedMix ==
    ASSUME NEW j \in Joints
    PROVE  Placed(Mix(j))
BY MixType, BeltRoundTrip DEF Placed

LEMMA PlacedForward ==
    ASSUME NEW v, Placed(v)
    PROVE  Forward(Unmix(v)) \in Poses
BY ForwardType DEF Placed

LEMMA HomePlaced == Placed(Home)
<1> DEFINE zero == [q1 |-> 0, q2 |-> 0, q3 |-> 0, q4 |-> 0]
<1>1. 0 \in Turn /\ 0 \in Pitches
  BY HalfAssumption, WristAssumption DEF Turn
<1>2. zero \in Joints
  BY <1>1 DEF Joints
<1>3. Mix(zero) = Home
  BY DEF Mix, Home
<1> QED
  BY <1>2, <1>3, PlacedMix

\* Wherever motion stops, there are joints for it.
LEMMA StopsPlaced ==
    ASSUME TypeOK, Placed(actual), \A i \in 1..Len(queue) : Placed(queue[i]),
           NEW v \in Stops
    PROVE  Placed(v)
<1>1. CASE v = actual
  BY <1>1
<1>2. CASE v # actual
  <2>1. queue # <<>> /\ queue \in Seq(Motors)
    BY <1>2 DEF Stops, TypeOK
  <2>2. 1 \in 1..Len(queue) /\ Head(queue) = queue[1]
    BY <2>1
  <2>3. CASE v = Head(queue)
    BY <2>2, <2>3
  <2>4. CASE v # Head(queue)
    <3> DEFINE from == Unmix(actual)
               to == Unmix(Head(queue))
               on == [q1 |-> (from.q1 + to.q1) \div 2, q2 |-> (from.q2 + to.q2) \div 2,
                      q3 |-> (from.q3 + to.q3) \div 2, q4 |-> (from.q4 + to.q4) \div 2]
    <3>1. v = Mix(on) /\ on.q4 \in Pitches
      BY <1>2, <2>4 DEF Stops
    <3>2. from \in Joints /\ to \in Joints
      BY <2>2 DEF Placed
    <3> HIDE DEF from, to
    <3>3. /\ from.q1 \in -Half..Half /\ to.q1 \in -Half..Half
          /\ from.q2 \in Int /\ to.q2 \in Int /\ from.q3 \in Int /\ to.q3 \in Int
      BY <3>2 DEF Joints, Turn
    <3>4. (from.q1 + to.q1) \div 2 \in -Half..Half
      BY <3>3, HalfAssumption
    <3>5. (from.q2 + to.q2) \div 2 \in Int /\ (from.q3 + to.q3) \div 2 \in Int
      BY <3>3
    <3>6. on \in Joints
      BY <3>1, <3>4, <3>5 DEF Joints, Turn
    <3> QED
      BY <3>1, <3>6, PlacedMix
  <2> QED
    BY <2>3, <2>4
<1> QED
  BY <1>1, <1>2

LEMMA TargetsAreParsed ==
    ASSUME parser \in Poses, NEW p \in Targets
    PROVE  p \in Poses
<1>1. PICK w \in Places \cup {[r |-> parser.r, t |-> parser.t]},
           z \in Heights \cup {parser.z}, a \in Pitches :
             p = [r |-> w.r, t |-> w.t, z |-> z, pitch |-> a]
  BY DEF Targets
<1>2. z \in Int
  BY WordsAssumption, PoseFields
<1>3. w.r \in Nat /\ w.t \in Turn /\ (w.r = 0 => w.t = 0)
  BY PlacesAssumption, PoseFields
<1> QED
  BY <1>1, <1>2, <1>3 DEF Poses

-----------------------------------------------------------------------------
(* The inductive invariant                                                 *)

LEMMA InitHolds == Init => IInv
<1> SUFFICES ASSUME Init PROVE IInv
  OBVIOUS
<1>1. Placed(planner) /\ Placed(actual) /\ Placed(trsf) /\ queue = <<>>
  BY HomePlaced DEF Init
<1>2. parser \in Poses /\ target \in Poses
  BY HomePlaced, PlacedForward DEF Init
<1>3. TypeOK
  <2>1. queue \in Seq(Motors) /\ Len(queue) <= MaxBlk
    BY <1>1, RoomAssumption
  <2>2. lines \in 0..MaxLines
    BY RoomAssumption DEF Init
  <2> QED
    BY <1>1, <1>2, <2>1, <2>2 DEF Init, TypeOK, Placed
<1> QED
  BY <1>1, <1>3 DEF Init, IInv, Aimed, ParserFollowsPlanner, PlannerIsLastTarget

\* After a sync all positions agree.
LEMMA SyncHolds ==
    ASSUME IInv, Sync
    PROVE  /\ Placed(planner') /\ Placed(actual') /\ planner' = actual'
           /\ queue' = <<>> /\ mode' = "IDLE"
           /\ Forward(Unmix(actual')) \in Poses
           /\ PlannerIsLastTarget'
<1>1. Placed(actual')
  BY StopsPlaced DEF IInv, Sync
<1> QED
  BY <1>1, PlacedForward DEF Sync, PlannerIsLastTarget

LEMMA OneLineLess ==
    ASSUME TypeOK, lines > 0, lines' = lines - 1
    PROVE  lines' \in 0..MaxLines
BY RoomAssumption DEF TypeOK

LEMMA CartesianStep ==
    ASSUME IInv, NEW k \in Kinds, Cartesian(k)
    PROVE  IInv'
<1> USE DEF IInv
<1>1. /\ target' \in Targets /\ Accepted(target') /\ trsf' = Mix(Inverse(target'))
      /\ line' = k /\ k \in {"move", "jog"}
      /\ UNCHANGED <<parser, planner, actual, queue, mode, direct, cutJog>>
      /\ lines > 0 /\ lines' = lines - 1
  BY DEF Cartesian, NewLine, positions, history
<1>2. target' \in Poses
  BY <1>1, TargetsAreParsed DEF TypeOK
<1>3. Placed(trsf')
  BY <1>1, <1>2, InverseType, PlacedMix
<1>4. TypeOK'
  <2>1. lines' \in 0..MaxLines
    BY <1>1, OneLineLess
  <2> QED
    BY <1>1, <1>2, <1>3, <2>1 DEF TypeOK, Placed
<1>5. Aimed' /\ ParserFollowsPlanner' /\ PlannerIsLastTarget'
  BY <1>1 DEF Aimed, ParserFollowsPlanner, PlannerIsLastTarget
<1> QED
  BY <1>1, <1>3, <1>4, <1>5

LEMMA RejectStep ==
    ASSUME IInv, NEW k \in Kinds, Reject(k)
    PROVE  IInv'
<1> USE DEF IInv
<1>1. /\ target' \in Targets /\ Sync /\ parser' = Forward(Unmix(actual'))
      /\ line = "none" /\ lines > 0 /\ lines' = lines - 1
      /\ cutJog' = FALSE /\ UNCHANGED <<line, trsf, direct>>
  BY DEF Reject, NewLine
<1>2. target' \in Poses
  BY <1>1, TargetsAreParsed DEF TypeOK
<1>3. /\ Placed(planner') /\ Placed(actual') /\ planner' = actual'
      /\ queue' = <<>> /\ mode' = "IDLE" /\ parser' \in Poses
      /\ PlannerIsLastTarget'
  BY <1>1, SyncHolds
<1>4. TypeOK'
  <2>1. lines' \in 0..MaxLines
    BY <1>1, OneLineLess
  <2>2. queue' \in Seq(Motors) /\ Len(queue') <= MaxBlk
    BY <1>3, RoomAssumption
  <2> QED
    BY <1>1, <1>2, <1>3, <2>1, <2>2 DEF TypeOK, Placed
<1>5. Aimed' /\ ParserFollowsPlanner'
  BY <1>1, <1>3 DEF Aimed, ParserFollowsPlanner
<1> QED
  BY <1>1, <1>3, <1>4, <1>5

LEMMA DirectStep ==
    ASSUME IInv, Direct
    PROVE  IInv'
<1> USE DEF IInv
<1> DEFINE now == Unmix(planner)
<1>1. now \in Joints
  BY DEF Placed
<1>2. PICK q1 \in BaseWords \cup {now.q1}, q2 \in LiftWords \cup {now.q2},
           q3 \in RailWords \cup {now.q3}, q4 \in Pitches :
             trsf' = Mix([q1 |-> q1, q2 |-> q2, q3 |-> q3, q4 |-> q4])
  BY DEF Direct
<1> HIDE DEF now
<1>3. [q1 |-> q1, q2 |-> q2, q3 |-> q3, q4 |-> q4] \in Joints
  BY <1>1, WordsAssumption DEF Joints
<1>4. Placed(trsf')
  BY <1>2, <1>3, PlacedMix
<1>5. /\ line' = "joints" /\ lines > 0 /\ lines' = lines - 1 /\ direct' = TRUE
      /\ UNCHANGED <<parser, planner, actual, queue, mode, target, cutJog>>
  BY DEF Direct, NewLine, positions
<1>6. TypeOK'
  <2>1. lines' \in 0..MaxLines
    BY <1>5, OneLineLess
  <2> QED
    BY <1>4, <1>5, <2>1 DEF TypeOK, Placed
<1>7. Aimed' /\ ParserFollowsPlanner' /\ PlannerIsLastTarget'
  BY <1>5 DEF Aimed, ParserFollowsPlanner, PlannerIsLastTarget
<1> QED
  BY <1>4, <1>5, <1>6, <1>7

LEMMA PlanStep ==
    ASSUME IInv, Plan
    PROVE  IInv'
<1> USE DEF IInv
<1>1. /\ line # "none" /\ Len(queue) < MaxBlk
      /\ queue' = (IF trsf = planner THEN queue ELSE Append(queue, trsf))
      /\ planner' = trsf /\ line' = "none" /\ target' = parser' /\ trsf' = planner'
      /\ parser' = (IF line = "joints" THEN Forward(Unmix(planner')) ELSE target)
      /\ mode' \in {mode, "JOG"} /\ cutJog' = FALSE
      /\ UNCHANGED <<actual, lines, direct>>
  BY DEF Plan, LineEnds
<1>2. parser' = Forward(Unmix(planner')) /\ parser' \in Poses
  <2>1. CASE line = "joints"
    BY <1>1, <2>1, PlacedForward
  <2>2. CASE line # "joints"
    <3>1. Accepted(target) /\ trsf = Mix(Inverse(target)) /\ target \in Poses
      BY <1>1, <2>2 DEF Aimed, TypeOK
    <3>2. Forward(Unmix(Mix(Inverse(target)))) = target
      BY <3>1, AcceptedIsReached
    <3> QED
      BY <1>1, <2>2, <3>1, <3>2
  <2> QED
    BY <2>1, <2>2
<1>3. queue' \in Seq(Motors) /\ Len(queue') <= MaxBlk
  BY <1>1, RoomAssumption DEF TypeOK, Placed
<1>4. \A i \in 1..Len(queue') : Placed(queue'[i])
  <2>1. CASE trsf = planner
    BY <1>1, <2>1
  <2>2. CASE trsf # planner
    BY <1>1, <2>2 DEF TypeOK
  <2> QED
    BY <2>1, <2>2
<1>5. PlannerIsLastTarget'
  <2>1. CASE trsf = planner
    BY <1>1, <2>1 DEF PlannerIsLastTarget
  <2>2. CASE trsf # planner
    <3>1. queue' = Append(queue, trsf) /\ queue' # <<>> /\ queue'[Len(queue')] = trsf
      BY <1>1, <2>2 DEF TypeOK
    <3> QED
      BY <1>1, <3>1 DEF PlannerIsLastTarget
  <2> QED
    BY <2>1, <2>2
<1>6. TypeOK'
  BY <1>1, <1>2, <1>3 DEF TypeOK
<1>7. Aimed' /\ ParserFollowsPlanner'
  BY <1>1, <1>2 DEF Aimed, ParserFollowsPlanner
<1> QED
  BY <1>1, <1>4, <1>5, <1>6, <1>7

LEMMA ExecuteStep ==
    ASSUME IInv, Execute
    PROVE  IInv'
<1> USE DEF IInv
<1>1. /\ queue # <<>> /\ actual' = Head(queue) /\ queue' = Tail(queue)
      /\ mode' \in {"IDLE", mode}
      /\ UNCHANGED <<parser, planner, line, target, trsf, lines, direct, cutJog>>
  BY DEF Execute, current, history
<1>2. queue \in Seq(Motors) /\ Len(queue) \in Nat /\ Len(queue) > 0
  BY <1>1 DEF TypeOK
<1>3. /\ queue' \in Seq(Motors) /\ Len(queue') = Len(queue) - 1
      /\ \A i \in 1..Len(queue') : queue'[i] = queue[i + 1]
  BY <1>1, <1>2
<1>4. Placed(actual')
  BY <1>1, <1>2
<1>5. \A i \in 1..Len(queue') : Placed(queue'[i])
  BY <1>2, <1>3
<1>6. PlannerIsLastTarget'
  <2>1. planner = queue[Len(queue)]
    BY <1>1 DEF PlannerIsLastTarget
  <2>2. CASE Len(queue) = 1
    <3>1. queue' = <<>> /\ actual' = queue[1]
      BY <1>1, <1>2, <1>3, <2>2
    <3> QED
      BY <1>1, <2>1, <2>2, <3>1 DEF PlannerIsLastTarget
  <2>3. CASE Len(queue) > 1
    <3>1. queue' # <<>> /\ queue'[Len(queue')] = queue[Len(queue)]
      BY <1>2, <1>3, <2>3
    <3> QED
      BY <1>1, <2>1, <3>1 DEF PlannerIsLastTarget
  <2>4. Len(queue) = 1 \/ Len(queue) > 1
    <3> DEFINE n == Len(queue)
    <3>1. n \in Nat /\ n > 0
      BY <1>2
    <3> HIDE DEF n
    <3>2. n = 1 \/ n > 1
      BY <3>1
    <3> QED
      BY <3>2 DEF n
  <2> QED
    BY <2>2, <2>3, <2>4
<1>7. TypeOK'
  BY <1>1, <1>2, <1>3, <1>4, RoomAssumption DEF TypeOK, Placed
<1>8. Aimed' /\ ParserFollowsPlanner'
  BY <1>1 DEF Aimed, ParserFollowsPlanner
<1> QED
  BY <1>1, <1>4, <1>5, <1>6, <1>7, <1>8

\* Requests: the three of them synchronize the positions.
LEMMA StopStep ==
    ASSUME IInv, Stop
    PROVE  IInv'
<1> USE DEF IInv
<1>1. /\ Sync /\ line' = "none" /\ target' = parser' /\ trsf' = planner'
      /\ parser' = (IF line = "jog" THEN target ELSE Forward(Unmix(actual')))
      /\ cutJog' = (line = "jog") /\ UNCHANGED <<lines, direct>>
  BY DEF Stop, LineEnds
<1>2. /\ Placed(planner') /\ Placed(actual') /\ planner' = actual'
      /\ queue' = <<>> /\ mode' = "IDLE" /\ Forward(Unmix(actual')) \in Poses
      /\ PlannerIsLastTarget'
  BY <1>1, SyncHolds
<1>3. parser' \in Poses
  BY <1>1, <1>2 DEF TypeOK
<1>4. TypeOK'
  <2>1. queue' \in Seq(Motors) /\ Len(queue') <= MaxBlk
    BY <1>2, RoomAssumption
  <2> QED
    BY <1>1, <1>2, <1>3, <2>1 DEF TypeOK, Placed
<1>5. Aimed' /\ ParserFollowsPlanner'
  BY <1>1, <1>2 DEF Aimed, ParserFollowsPlanner
<1> QED
  BY <1>1, <1>2, <1>4, <1>5

LEMMA JogCancelStep ==
    ASSUME IInv, JogCancel
    PROVE  IInv'
<1> USE DEF IInv
<1>1. /\ Sync /\ parser' = Forward(Unmix(actual')) /\ cutJog' = FALSE
      /\ UNCHANGED <<line, target, trsf, lines, direct>>
  BY DEF JogCancel, current
<1>2. /\ Placed(planner') /\ Placed(actual') /\ planner' = actual'
      /\ queue' = <<>> /\ mode' = "IDLE" /\ parser' \in Poses
      /\ PlannerIsLastTarget'
  BY <1>1, SyncHolds
<1>3. TypeOK'
  <2>1. queue' \in Seq(Motors) /\ Len(queue') <= MaxBlk
    BY <1>2, RoomAssumption
  <2> QED
    BY <1>1, <1>2, <2>1 DEF TypeOK, Placed
<1>4. Aimed' /\ ParserFollowsPlanner'
  BY <1>1, <1>2 DEF Aimed, ParserFollowsPlanner
<1> QED
  BY <1>1, <1>2, <1>3, <1>4

LEMMA ResetStep ==
    ASSUME IInv, Reset
    PROVE  IInv'
<1> USE DEF IInv
<1>1. /\ Sync /\ parser' = Forward(Unmix(actual')) /\ cutJog' = FALSE
      /\ line' = "none" /\ target' = parser' /\ trsf' = planner'
      /\ UNCHANGED <<lines, direct>>
  BY DEF Reset, LineEnds
<1>2. /\ Placed(planner') /\ Placed(actual') /\ planner' = actual'
      /\ queue' = <<>> /\ mode' = "IDLE" /\ parser' \in Poses
      /\ PlannerIsLastTarget'
  BY <1>1, SyncHolds
<1>3. TypeOK'
  <2>1. queue' \in Seq(Motors) /\ Len(queue') <= MaxBlk
    BY <1>2, RoomAssumption
  <2> QED
    BY <1>1, <1>2, <2>1 DEF TypeOK, Placed
<1>4. Aimed' /\ ParserFollowsPlanner'
  BY <1>1, <1>2 DEF Aimed, ParserFollowsPlanner
<1> QED
  BY <1>1, <1>2, <1>3, <1>4

LEMMA StepHolds == IInv /\ [Next]_vars => IInv'
<1> SUFFICES ASSUME IInv, [Next]_vars PROVE IInv'
  OBVIOUS
<1>1. ASSUME NEW k \in Kinds, Cartesian(k) PROVE IInv'
  BY <1>1, CartesianStep
<1>2. ASSUME NEW k \in Kinds, Reject(k) PROVE IInv'
  BY <1>2, RejectStep
<1>3. CASE Direct
  BY <1>3, DirectStep
<1>4. CASE Plan
  BY <1>4, PlanStep
<1>5. CASE StartCycle
  <2>1. mode' = "CYCLE" /\ UNCHANGED <<parser, planner, actual, queue, line, target,
                                       trsf, lines, direct, cutJog>>
    BY <1>5 DEF StartCycle, positions, current, history
  <2>2. TypeOK' /\ Aimed' /\ ParserFollowsPlanner' /\ PlannerIsLastTarget'
    BY <2>1 DEF IInv, TypeOK, Aimed, ParserFollowsPlanner, PlannerIsLastTarget
  <2> QED
    BY <2>1, <2>2 DEF IInv
<1>6. CASE Execute
  BY <1>6, ExecuteStep
<1>7. CASE Stop
  BY <1>7, StopStep
<1>8. CASE JogCancel
  BY <1>8, JogCancelStep
<1>9. CASE Reset
  BY <1>9, ResetStep
<1>10. CASE UNCHANGED vars
  <2>1. UNCHANGED <<parser, planner, actual, queue, mode, line, target, trsf, lines,
                    direct, cutJog>>
    BY <1>10 DEF vars, positions, current, history
  <2>2. TypeOK' /\ Aimed' /\ ParserFollowsPlanner' /\ PlannerIsLastTarget'
    BY <2>1 DEF IInv, TypeOK, Aimed, ParserFollowsPlanner, PlannerIsLastTarget
  <2> QED
    BY <2>1, <2>2 DEF IInv
<1> QED
  BY <1>1, <1>2, <1>3, <1>4, <1>5, <1>6, <1>7, <1>8, <1>9, <1>10 DEF Next

LEMMA Invariance == Spec => []IInv
BY InitHolds, StepHolds, PTL DEF Spec

-----------------------------------------------------------------------------

\* The three positions, the queue and the line in execution keep their types.
THEOREM TypeCorrect == Spec => []TypeOK
<1>1. IInv => TypeOK
  BY DEF IInv
<1> QED
  BY Invariance, <1>1, PTL

\* The next relative or partial line starts from where the planner really
\* ends, for every pose, wrist and sequence of lines and requests.
THEOREM ParserAgrees == Spec => []ParserFollowsPlanner
<1>1. IInv => ParserFollowsPlanner
  BY DEF IInv
<1> QED
  BY Invariance, <1>1, PTL

\* Nothing gets lost between the planner's position and the motors'.
THEOREM PlannerAgrees == Spec => []PlannerIsLastTarget
<1>1. IInv => PlannerIsLastTarget
  BY DEF IInv
<1> QED
  BY Invariance, <1>1, PTL

\* inspector_segment_line refuses no line that could have been executed.
THEOREM RejectionsAreRight == Spec => RejectedIsUnreachable
<1> DEFINE Rejected == lines' < lines /\ line' = "none" => ~Reachable(target')
<1>1. IInv /\ [Next]_vars => [Rejected]_vars
  <2> SUFFICES ASSUME IInv, Next, lines' < lines, line' = "none"
               PROVE  ~Reachable(target')
    OBVIOUS
  <2>1. ASSUME NEW k \in Kinds, Reject(k) PROVE ~Reachable(target')
    <3>1. target' \in Targets /\ ~Accepted(target')
      BY <2>1 DEF Reject
    <3>2. target' \in Poses
      BY <3>1, TargetsAreParsed DEF IInv, TypeOK
    <3> QED
      BY <3>1, <3>2, RejectedIsUnreached
  <2>2. ASSUME NEW k \in Kinds, Cartesian(k) PROVE FALSE
    BY <2>2 DEF Cartesian
  <2>3. ~Direct
    BY DEF Direct
  <2>4. ASSUME lines' = lines PROVE FALSE
    BY <2>4 DEF IInv, TypeOK
  <2>5. Plan \/ StartCycle \/ Execute \/ Stop \/ JogCancel \/ Reset => lines' = lines
    BY DEF Plan, StartCycle, Execute, Stop, JogCancel, Reset
  <2> QED
    BY <2>1, <2>2, <2>3, <2>4, <2>5 DEF Next
<1> QED
  BY <1>1, Invariance, PTL DEF Spec, RejectedIsUnreachable

\* The base does not turn for a line that leaves the tool where it is in the
\* XY plane, as long as the tool has not been taken across the base.
THEOREM BaseIsKept == Spec => SamePlaceKeepsBase
<1> DEFINE Kept == (/\ line \in {"move", "jog"} /\ line' = "none" /\ planner' = trsf
                    /\ ~cutJog /\ ArmSide(Unmix(planner))
                    /\ target.r = parser.r /\ target.t = parser.t)
                       => planner'.base = planner.base
<1>1. IInv => Kept
  <2> SUFFICES ASSUME IInv, line \in {"move", "jog"}, planner' = trsf, ~cutJog,
                      ArmSide(Unmix(planner)),
                      target.r = parser.r, target.t = parser.t
               PROVE  planner'.base = planner.base
    OBVIOUS
  <2> DEFINE now == Unmix(planner)
  <2>1. now \in Joints /\ now.q1 = planner.base
    BY DEF IInv, Placed, Unmix
  <2>2. now.q3 + CosD[now.q4] - 140 < 0 /\ now.q3 + CosD[now.q4] - 140 \in Int
    <3>1. now.q3 \in Int /\ now.q4 \in Pitches
      BY <2>1 DEF Joints
    <3>2. CosD[now.q4] \in -50..50
      BY <3>1, WristAssumption DEF D
    <3>3. now.q3 + CosD[now.q4] < 140
      BY DEF ArmSide, Offset
    <3> HIDE DEF now
    <3> QED
      BY <3>1, <3>2, <3>3
  <2>3. parser = Forward(now)
    BY DEF IInv, ParserFollowsPlanner
  <2> HIDE DEF now
  <2>4. parser.t = now.q1 /\ parser.r = -(now.q3 + CosD[now.q4] - 140)
    BY <2>2, <2>3 DEF Forward, Offset
  <2>5. target.r # 0 /\ target.t = planner.base
    BY <2>1, <2>2, <2>4
  <2>6. target \in Poses /\ Accepted(target) /\ trsf = Mix(Inverse(target))
    BY DEF IInv, TypeOK, Aimed
  <2>7. trsf = Mix(Minus(target))
    BY <2>6, PlusIsNeverNeeded
  <2> QED
    BY <2>5, <2>7 DEF Mix, Minus
<1>2. IInv /\ [Next]_vars => [Kept]_vars
  BY <1>1
<1> QED
  BY <1>2, Invariance, PTL DEF Spec, SamePlaceKeepsBase

-----------------------------------------------------------------------------
(* Limits: with them the inductive invariant speaks of the motors a line   *)
(* in mc_line() is going to plan, too.                                     *)

LInv == LimitsKept /\ (~direct => InLimits(Unmix(trsf)))

\* The middle of two travels of a rail, and of two angles of the wrist.
LEMMA MidwayOnRail ==
    ASSUME NEW x \in 0..180, NEW y \in 0..180
    PROVE  (x + y) \div 2 \in 0..180
OBVIOUS

LEMMA MidwayOfWrist ==
    ASSUME NEW x \in -100..100, NEW y \in -100..100
    PROVE  (x + y) \div 2 \in -100..100
OBVIOUS

\* Joint limits are intervals: a motion between joints within them stops
\* within them.
LEMMA StopsInLimits ==
    ASSUME IInv, LimitsKept, ~direct, NEW v \in Stops
    PROVE  InLimits(Unmix(v))
<1>1. InLimits(Unmix(actual))
  BY DEF LimitsKept
<1>2. CASE v = actual
  BY <1>1, <1>2
<1>3. CASE v # actual
  <2>1. queue # <<>> /\ queue \in Seq(Motors)
    BY <1>3 DEF Stops, IInv, TypeOK
  <2>2. 1 \in 1..Len(queue) /\ Head(queue) = queue[1]
    BY <2>1
  <2>3. InLimits(Unmix(Head(queue))) /\ Placed(Head(queue))
    BY <2>2 DEF LimitsKept, IInv
  <2>4. CASE v = Head(queue)
    BY <2>3, <2>4
  <2>5. CASE v # Head(queue)
    <3> DEFINE from == Unmix(actual)
               to == Unmix(Head(queue))
               on == [q1 |-> (from.q1 + to.q1) \div 2, q2 |-> (from.q2 + to.q2) \div 2,
                      q3 |-> (from.q3 + to.q3) \div 2, q4 |-> (from.q4 + to.q4) \div 2]
    <3>1. v = Mix(on) /\ on.q4 \in Pitches
      BY <1>3, <2>5 DEF Stops
    <3>2. from \in Joints /\ to \in Joints /\ InLimits(from) /\ InLimits(to)
      BY <1>1, <2>3 DEF Placed, IInv
    <3> HIDE DEF from, to
    <3>3. /\ from.q1 \in -Half..Half /\ to.q1 \in -Half..Half
          /\ from.q2 \in 0..180 /\ to.q2 \in 0..180
          /\ from.q3 \in 0..180 /\ to.q3 \in 0..180
          /\ from.q4 \in -100..100 /\ to.q4 \in -100..100
      BY <3>2 DEF Joints, Turn, InLimits
    <3>4. (from.q1 + to.q1) \div 2 \in -Half..Half
      BY <3>3, HalfAssumption
    <3>5. /\ (from.q2 + to.q2) \div 2 \in 0..180
          /\ (from.q3 + to.q3) \div 2 \in 0..180
          /\ (from.q4 + to.q4) \div 2 \in -100..100
      <4>1. (from.q2 + to.q2) \div 2 \in 0..180
        BY <3>3, MidwayOnRail
      <4>2. (from.q3 + to.q3) \div 2 \in 0..180
        BY <3>3, MidwayOnRail
      <4>3. (from.q4 + to.q4) \div 2 \in -100..100
        BY <3>3, MidwayOfWrist
      <4> QED
        BY <4>1, <4>2, <4>3
    <3>6. on \in Joints /\ InLimits(on)
      BY <3>1, <3>4, <3>5 DEF Joints, Turn, InLimits
    <3> QED
      BY <3>1, <3>6, BeltRoundTrip
  <2> QED
    BY <2>4, <2>5
<1> QED
  BY <1>2, <1>3

LEMMA LimitsStep == IInv /\ LInv /\ [Next]_vars => LInv'
<1> SUFFICES ASSUME IInv, LInv, [Next]_vars PROVE LInv'
  OBVIOUS
<1>1. ASSUME NEW k \in Kinds, Cartesian(k) PROVE LInv'
  <2>1. /\ target' \in Targets /\ Accepted(target') /\ trsf' = Mix(Inverse(target'))
        /\ UNCHANGED <<planner, actual, queue, direct>>
    BY <1>1 DEF Cartesian, positions, history
  <2>2. target' \in Poses
    BY <2>1, TargetsAreParsed DEF IInv, TypeOK
  <2>3. Unmix(trsf') = Inverse(target')
    BY <2>1, <2>2, InverseType, BeltRoundTrip
  <2> QED
    BY <2>1, <2>3 DEF LInv, LimitsKept, Accepted
<1>2. ASSUME Sync, UNCHANGED direct, trsf' \in {trsf, planner'} PROVE LInv'
  <2>1. /\ planner' = actual' /\ queue' = <<>>
        /\ ~direct => InLimits(Unmix(actual'))
    BY <1>2, StopsInLimits DEF Sync, LInv
  <2>2. Len(queue') = 0
    BY <2>1
  <2>3. {queue'[i] : i \in 1..Len(queue')} = {}
    BY <2>2
  <2> QED
    BY <1>2, <2>1, <2>3 DEF LInv, LimitsKept
<1>3. ASSUME NEW k \in Kinds, Reject(k) PROVE LInv'
  BY <1>2, <1>3 DEF Reject
<1>4. CASE Direct
  BY <1>4 DEF Direct, LInv, LimitsKept
<1>5. CASE Plan
  <2>1. /\ planner' = trsf /\ trsf' = planner'
        /\ queue' = (IF trsf = planner THEN queue ELSE Append(queue, trsf))
        /\ UNCHANGED <<actual, direct>>
    BY <1>5 DEF Plan, LineEnds
  <2>2. {queue'[i] : i \in 1..Len(queue')}
           \subseteq {queue[i] : i \in 1..Len(queue)} \cup {trsf}
    BY <2>1 DEF IInv, TypeOK
  <2> QED
    BY <2>1, <2>2 DEF LInv, LimitsKept
<1>6. CASE StartCycle
  BY <1>6 DEF StartCycle, positions, current, history, LInv, LimitsKept
<1>7. CASE Execute
  <2>1. /\ queue # <<>> /\ actual' = Head(queue) /\ queue' = Tail(queue)
        /\ UNCHANGED <<planner, trsf, direct>>
    BY <1>7 DEF Execute, current, history
  <2>2. queue \in Seq(Motors) /\ 1 \in 1..Len(queue) /\ actual' = queue[1]
    BY <2>1 DEF IInv, TypeOK
  <2>3. {queue'[i] : i \in 1..Len(queue')} \subseteq {queue[i] : i \in 1..Len(queue)}
    BY <2>1, <2>2
  <2> QED
    BY <2>1, <2>2, <2>3 DEF LInv, LimitsKept
<1>8. CASE Stop
  BY <1>2, <1>8 DEF Stop, LineEnds
<1>9. CASE JogCancel
  BY <1>2, <1>9 DEF JogCancel, current
<1>10. CASE Reset
  BY <1>2, <1>10 DEF Reset, LineEnds
<1>11. CASE UNCHANGED vars
  BY <1>11 DEF vars, positions, current, history, LInv, LimitsKept
<1> QED
  BY <1>1, <1>3, <1>4, <1>5, <1>6, <1>7, <1>8, <1>9, <1>10, <1>11 DEF Next

\* No sequence of G0, G1 and jog lines, stops, cancels and resets takes a
\* joint out of its limits, in motion, at rest or in the planner.
THEOREM LimitsAreKept == Spec => []LimitsKept
<1>1. Init => LInv
  <2> SUFFICES ASSUME Init PROVE LInv
    OBVIOUS
  <2> DEFINE zero == [q1 |-> 0, q2 |-> 0, q3 |-> 0, q4 |-> 0]
  <2>1. zero \in Joints /\ Mix(zero) = Home
    BY HalfAssumption, WristAssumption DEF Turn, Joints, Mix, Home
  <2>2. Unmix(Home) = zero
    BY <2>1, BeltRoundTrip
  <2>3. InLimits(Unmix(Home))
    BY <2>2 DEF InLimits
  <2>4. {queue[i] : i \in 1..Len(queue)} = {}
    BY DEF Init
  <2> QED
    BY <2>3, <2>4 DEF Init, LInv, LimitsKept
<1>2. LInv => LimitsKept
  BY DEF LInv
<1> QED
  BY <1>1, <1>2, LimitsStep, Invariance, PTL DEF Spec
=============================================================================
