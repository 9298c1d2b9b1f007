----------------------------- MODULE JobService -----------------------------
(***************************************************************************)
(* What running a file promises: its lines are executed in order, each     *)
(* once a pass and from the first to the last, unless an error, a program  *)
(* end, the operator or another connection ends the job; what is typed is  *)
(* executed only when no job runs or during an acknowledged tool change.   *)
(***************************************************************************)
EXTENDS Naturals, Sequences

CONSTANT Programs    \* the files: sequences of line kinds

VARIABLES
    mode,    \* "manual", "running", "held" by a tool change, "changing" the
             \* tool, "waiting" for a cycle start; "final" and "ending" when
             \* the job is ended from outside, with or without a line in hand
    prog,    \* the file of the job
    next,    \* the line to be executed next
    last     \* history: the line executed last, 0 for a typed one

svars == <<mode, prog, next, last>>

ServiceInit == mode = "manual" /\ prog = <<>> /\ next = 1 /\ last = 0

\* an order to end it may have come already
StartFile == /\ mode = "manual" /\ mode' \in {"running", "ending"}
             /\ prog' \in Programs /\ next' = 1 /\ last' = 0

\* the modes a line of this kind may lead to
After(kind) == CASE kind \in {"bad", "run"} -> {"manual"}
                 [] kind = "tool"           -> {"held"}
                 [] kind \in {"m2", "m30"}  -> {"waiting", "manual"}
                 [] OTHER                   -> {"running"}

Line == /\ mode \in {"running", "final"} /\ next <= Len(prog)
        /\ mode' \in IF mode = "running" THEN After(prog[next]) ELSE {"ending", "manual"}
        /\ next' \in IF mode = "final" THEN {1, next + 1}
                     ELSE IF mode' = "waiting" THEN {1} ELSE {next + 1}
        /\ last' = next /\ UNCHANGED prog

\* a typed line may have been in hand when the job was resumed; a program end
\* or an error in it may end the job
Typed == /\ mode \in {"manual", "changing", "ending"}
         /\ \/ mode' = mode
            \/ mode = "changing" /\ mode' \in {"running", "waiting"}
            \/ mode # "manual" /\ mode' = "manual"
         /\ next' \in IF mode' \in {"waiting", "ending"} THEN {1, next} ELSE {next}
         /\ last' = 0 /\ UNCHANGED prog

Acknowledge == mode = "held" /\ mode' = "changing" /\ UNCHANGED <<prog, next, last>>

Resume == /\ mode \in {"held", "changing", "waiting"} /\ mode' = "running"
          /\ UNCHANGED <<prog, next, last>>

Complete == /\ mode = "running" /\ next > Len(prog)
            /\ \/ mode' = "manual" /\ UNCHANGED next
               \/ mode' = "waiting" /\ next' = 1
            /\ UNCHANGED <<prog, last>>

Break == /\ mode # "manual"
         /\ mode' = "ending" \/ (mode = "running" /\ mode' = "final")
         /\ UNCHANGED <<prog, next, last>>

\* a line in hand is given up
End == /\ mode \in {"final", "ending"} /\ mode' = "manual"
       /\ next' \in {next, next + 1} /\ UNCHANGED <<prog, last>>

ServiceNext == \/ StartFile \/ Line \/ Typed \/ Acknowledge
               \/ Resume \/ Complete \/ Break \/ End

ServiceSpec == ServiceInit /\ [][ServiceNext]_svars
=============================================================================
