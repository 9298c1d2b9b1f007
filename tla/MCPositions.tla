----------------------------- MODULE MCPositions -----------------------------
(* Positions with quarter turns of the base and four angles of the wrist,   *)
(* D * cos and D * sin of them rounded to millimetres.                     *)
EXTENDS Positions

MCPitches == {0, 45, 90, 100}

MCCosD == [q4 \in MCPitches |->
             CASE q4 = 0 -> 50 [] q4 = 45 -> 35 [] q4 = 90 -> 0 [] q4 = 100 -> -9]

MCSinD == [q4 \in MCPitches |->
             CASE q4 = 0 -> 0 [] q4 = 45 -> 35 [] q4 = 90 -> 50 [] q4 = 100 -> 49]

\* On the axis of the base, near it and behind it, and out of reach but for
\* a wrist that points up.
MCPlaces == {[r |-> 0, t |-> 0], [r |-> 5, t |-> -2], [r |-> 140, t |-> 1]}

MCHeights == {200}
MCBaseWords == {2}
MCLiftWords == {}
MCRailWords == {180}
=============================================================================
