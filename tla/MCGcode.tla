------------------------------ MODULE MCGcode ------------------------------
(***************************************************************************)
(* Instances of GcodeParser: the blocks of a short program.                *)
(***************************************************************************)
EXTENDS GcodeParser

Plain == [jog |-> FALSE, motion |-> "same", feedMode |-> "same", f |-> FALSE,
          dist |-> "same", cs |-> "same", tool |-> "same", nonModal |-> "none",
          p |-> "same", axis |-> {}, r |-> {}, stray |-> FALSE, end |-> FALSE]

Offsets == {[Plain EXCEPT !.nonModal = "offset", !.axis = {1}],          \* G92 X1
            [Plain EXCEPT !.nonModal = "clear"],                         \* G92.2
            [Plain EXCEPT !.nonModal = "restore"],                       \* G92.3
            [Plain EXCEPT !.nonModal = "reset"],                         \* G92.1
            [Plain EXCEPT !.nonModal = "set", !.p = "G55", !.axis = {2}],  \* G10 L2 P2 X2
            [Plain EXCEPT !.nonModal = "setHere", !.axis = {1}],         \* G10 L20 P0 X1
            [Plain EXCEPT !.nonModal = "setHome"],                       \* G28.1
            [Plain EXCEPT !.tool = "G43.1", !.axis = {1}],               \* G43.1 X1
            [Plain EXCEPT !.tool = "G49"],                               \* G49
            [Plain EXCEPT !.cs = "G55"],                                 \* G55
            [Plain EXCEPT !.cs = "G54", !.nonModal = "dwell"]}           \* G54 G4 P1
Motions == {[Plain EXCEPT !.motion = "seek", !.axis = {2}],              \* G0 X2
            [Plain EXCEPT !.axis = {1}],                                 \* X1
            [Plain EXCEPT !.motion = "linear", !.dist = "G91", !.axis = {1}, !.f = TRUE],
            [Plain EXCEPT !.feedMode = "inverse", !.motion = "linear", !.axis = {3}, !.f = TRUE],
            [Plain EXCEPT !.feedMode = "perMin", !.dist = "G90"],        \* G94 G90
            [Plain EXCEPT !.cs = "G55", !.nonModal = "dwell", !.axis = {1}],
            [Plain EXCEPT !.nonModal = "home", !.axis = {1}],            \* G28 X1
            [Plain EXCEPT !.nonModal = "machine", !.axis = {1}],         \* G53 X1
            [Plain EXCEPT !.motion = "drill", !.axis = {0}, !.r = {2}, !.f = TRUE],
            [Plain EXCEPT !.motion = "none"],                            \* G80
            [Plain EXCEPT !.axis = {1}, !.stray = TRUE],                 \* X1 and an unused word
            [Plain EXCEPT !.jog = TRUE, !.dist = "G91", !.axis = {1}, !.f = TRUE],
            [Plain EXCEPT !.end = TRUE]}                                 \* M2
Program == Offsets \cup Motions
\* G93 G1 X3 F1 M2 and then X1
InverseEnd == {[Plain EXCEPT !.feedMode = "inverse", !.motion = "linear", !.axis = {3},
                             !.f = TRUE, !.end = TRUE],
               [Plain EXCEPT !.axis = {1}]}
\* G92.2 X1
OffsetAndMove == {[Plain EXCEPT !.nonModal = "offset", !.axis = {1}],
                  [Plain EXCEPT !.nonModal = "clear", !.axis = {1}]}
=============================================================================
