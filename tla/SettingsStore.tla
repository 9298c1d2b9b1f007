--------------------------- MODULE SettingsStore ---------------------------
(***************************************************************************)
(* What persistent settings promise: a record that was saved is found      *)
(* again after the power was off; while a save is under way, or after one  *)
(* that did not succeed, it may also be found as before or as its default, *)
(* and never as anything else.                                             *)
(***************************************************************************)
CONSTANTS
    Kind,     \* the records
    Value,
    Default   \* of every record

VARIABLES
    on,     \* the power is on
    mem,    \* the records as the program reads them
    kept    \* for each record, the values the next power-up may find

vars == <<on, mem, kept>>

Init == /\ on = FALSE
        /\ mem = [k \in Kind |-> Default]
        /\ kept = [k \in Kind |-> {Default}]

\* records change in memory
Change == /\ on
          /\ mem' \in [Kind -> Value]
          /\ UNCHANGED <<on, kept>>

\* a save begins of some records, which change with the same call
StartSave(s) == /\ on
                /\ mem' \in [Kind -> Value]
                /\ kept' = [k \in Kind |-> IF k \in s THEN kept[k] \cup {mem'[k], Default}
                                                     ELSE kept[k]]
                /\ UNCHANGED on

\* a save of everything that had changed ends well
EndSave == /\ on
           /\ kept' = [k \in Kind |-> {mem[k]}]
           /\ UNCHANGED <<on, mem>>

PowerOff == /\ on' = FALSE
            /\ mem' = [k \in Kind |-> Default]
            /\ UNCHANGED kept

\* every record is found as it may have been kept; or nothing can be read, and the
\* defaults stand in for what is kept
PowerUp == /\ ~on /\ on'
           /\ mem' \in [Kind -> Value]
           /\ \/ \A k \in Kind : mem'[k] \in kept[k]
              \/ UNCHANGED mem
           /\ UNCHANGED kept

Next == Change \/ (\E s \in SUBSET Kind : StartSave(s)) \/ EndSave \/ PowerOff \/ PowerUp

Spec == Init /\ [][Next]_vars
=============================================================================
