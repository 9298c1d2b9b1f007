----------------------------- MODULE TaskService ----------------------------
(***************************************************************************)
(* What the task functions of grbllib.c promise their callers: a function  *)
(* accepted for a list is owed one call (a systick function a call per     *)
(* tick), a delayed one not before its time, and a cancelled one is owed   *)
(* nothing.  How requests are stored, and in which order those that may    *)
(* start do start, is left open.                                           *)
(***************************************************************************)
EXTENDS Naturals, Sequences, Bags

CONSTANTS Task,     \* a function together with its argument
          Period    \* number of values of the millisecond counter

VARIABLES owed,     \* bag of the requests accepted, not started or cancelled
          running,  \* the functions being run, a nested call after its caller
          clock     \* hal.get_elapsed_ticks()

svars == <<owed, running, clock>>

Lists == {"immediate", "delayed", "systick", "booted", "reset"}
Request == [list : {"delayed"}, fn : Task, time : 0..(Period - 1)]
           \cup [list : Lists \ {"delayed"}, fn : Task, time : {0}]

\* (int32_t)(a - b) <= 0 for a counter of Period values
NotAfter(a, b) == a = b \/ (a + Period - b) % Period >= Period \div 2

ServiceInit == owed = EmptyBag /\ running = <<>> /\ clock = 0

Accept(r) == owed' = (owed (+) SetToBag({r})) /\ UNCHANGED <<running, clock>>

Cancel(r) == /\ r.list = "delayed" /\ r \in DOMAIN owed
             /\ owed' = owed (-) SetToBag({r})
             /\ UNCHANGED <<running, clock>>

\* an interrupt cancels and accepts in one go
Restart(r, q) == /\ r.list = "delayed" /\ r \in DOMAIN owed
                 /\ owed' = (owed (-) SetToBag({r})) (+) SetToBag({q})
                 /\ UNCHANGED <<running, clock>>

Start(r) == /\ r \in DOMAIN owed
            /\ r.list = "delayed" => NotAfter(r.time, clock)
            /\ owed' = IF r.list = "systick" THEN owed ELSE owed (-) SetToBag({r})
            /\ running' = Append(running, r.fn)
            /\ UNCHANGED clock

Return == /\ running # <<>>
          /\ running' = SubSeq(running, 1, Len(running) - 1)
          /\ UNCHANGED <<owed, clock>>

\* a driver that failed to start gives up what is not due at once
GiveUp == /\ \E S \in SUBSET DOMAIN owed :
                /\ \A r \in S : r.list \in {"booted", "delayed", "systick"}
                /\ owed' = [r \in DOMAIN owed \ S |-> owed[r]]
          /\ UNCHANGED <<running, clock>>

Tick == clock' = (clock + 1) % Period /\ UNCHANGED <<owed, running>>

ServiceNext == \/ \E r \in Request : Accept(r)
               \/ \E r \in DOMAIN owed : Cancel(r) \/ Start(r)
               \/ \E r \in DOMAIN owed :
                     r.list = "delayed" /\ \E q \in Request : Restart(r, q)
               \/ Return
               \/ GiveUp
               \/ Tick

ServiceSpec == ServiceInit /\ [][ServiceNext]_svars
=============================================================================
