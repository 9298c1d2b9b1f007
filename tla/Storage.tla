------------------------------ MODULE Storage -------------------------------
(***************************************************************************)
(* Settings and other persistent records: the copy in RAM of nvs_buffer.c  *)
(* with its flags for what changed, the writes to the flash or EEPROM      *)
(* behind it, and start-up, which reads it back.  Power may be lost at any *)
(* point, reads and writes may fail.                                       *)
(*                                                                         *)
(* A record is its value, or Blank when its checksum does not fit.  The    *)
(* version byte that the area begins with is a record of its own; of the   *)
(* global settings one is modelled, an acceleration, which can also be     *)
(* overridden for a while.                                                 *)
(***************************************************************************)
EXTENDS Naturals

CONSTANTS
    Others,     \* of "coord", "startup", "build", "driver"
    Value,
    Default,    \* of every record, also the version the program expects
    Blank,
    Backends,   \* of "flash", "eeprom"
    Fallible,   \* records whose write may fail
    ReadFails,  \* the flash may fail to be read at start-up
    Overrides   \* values the acceleration is overridden with

Kind == Others \cup {"global"}
Rec == Kind \cup {"version"}
Tries == 4

ASSUME StorageAssumption ==
    /\ Others \subseteq {"coord", "startup", "build", "driver"}
    /\ Default \in Value /\ Blank \notin Value
    /\ Backends \subseteq {"flash", "eeprom"} /\ Fallible \subseteq Rec
    /\ ReadFails \in BOOLEAN /\ Overrides \subseteq Value

VARIABLES
    backend,
    chip,              \* the records on the flash or EEPROM
    ram,               \* nvsbuffer
    dirty, is_dirty,   \* settings_dirty
    attached,          \* grblNVS # NULL
    live, backup,      \* settings.axis[].acceleration; override_backup, Blank if not valid
    busy,              \* not in IDLE, ALARM or ESTOP, or a file is running
    pc, after,         \* the main thread; where it continues after a save
    left, tries,       \* records not yet written, attempts left
    failed,            \* history: what is known of a failed write since the last good save
    kept               \* history: what the next power-up may find, see SettingsStore

main == <<live, backup, busy>>
save == <<after, left, tries>>
flags == <<dirty, is_dirty>>
vars == <<backend, chip, ram, flags, attached, main, pc, save, failed, kept>>

AllBlank == [r \in Rec |-> Blank]
Loaded(v) == IF v = Blank THEN Default ELSE v

\* what start-up makes of a copy of the area
Effective(m) == [k \in Kind |-> IF m["version"] = Blank \/ m["global"] = Blank
                                THEN Default ELSE Loaded(m[k])]

-----------------------------------------------------------------------------
\* nvs_buffer.c: changes in RAM

\* mutant: only a write of the whole area counts
ChangedVersion(r, v) == "version" \in dirty

\* the new contents differ, or the whole area is to be written
Changed(r, v) == ram[r] # v \/ "version" \in dirty

\* memcpy_to_ram
Write(r, v) ==
    /\ ram' = [ram EXCEPT ![r] = v]
    /\ IF Changed(r, v) THEN dirty' = dirty \cup {r} /\ is_dirty' = TRUE
                        ELSE UNCHANGED flags

-----------------------------------------------------------------------------
\* Saves

\* nvs_buffer_sync_physical begins, on return at p
StartSync(p) ==
    /\ is_dirty'
    /\ after' = p /\ tries' = Tries
    /\ IF backend = "flash"
       THEN pc' = "erase" /\ left' = {}
       ELSE pc' = "records" /\ left' = dirty'
    /\ kept' = [k \in Kind |->
                  IF backend = "flash" \/ dirty' \cap {"version", "global", k} # {}
                  THEN kept[k] \cup {Effective(ram')[k], Default} ELSE kept[k]]

Clean == dirty' = {} /\ is_dirty' = FALSE

\* the copy that start-up makes has failed, and nobody looks at its result
Unseen == IF failed = "reported" THEN failed ELSE "silent"

\* the message after the last attempt of a save, none after the copy of start-up;
\* the flags are cleared all the same
GiveUp ==
    /\ Clean
    /\ failed' = (IF after = "settings" THEN Unseen ELSE "reported")
    /\ tries' = 0 /\ left' = {} /\ pc' = after
    /\ UNCHANGED kept

\* mutant: the attempts are not counted down to an end
RetryUnchecked ==
    tries' = tries - 1 /\ left' = {} /\ pc' = "erase" /\ UNCHANGED <<flags, failed, kept>>

\* the next attempt
Retry ==
    IF tries > 1
    THEN tries' = tries - 1 /\ left' = {} /\ pc' = "erase" /\ UNCHANGED <<flags, failed, kept>>
    ELSE GiveUp

uSave == UNCHANGED <<backend, ram, attached, main, after>>

\* mutant: the size of the area leaves out what lies behind the global settings
AreaTooShort == {"version", "global"}

\* what hal.nvs.size covers
Area == Rec

\* nvsWrite: one sector is erased, then written
EraseFlash == /\ pc = "erase" /\ attached
              /\ chip' = AllBlank
              /\ left' = Area /\ pc' = "program"
              /\ UNCHANGED <<flags, tries, failed, kept>> /\ uSave

\* the order of the records in the area, and in nvs_buffer_sync_physical
Address == [version |-> 0, global |-> 1, coord |-> 2, startup |-> 3, build |-> 4, driver |-> 5]
SyncOrder == [version |-> 0, global |-> 1, build |-> 2, startup |-> 3, coord |-> 4, driver |-> 5]

\* the record written next, if any
Heads == LET order == IF pc = "records" THEN SyncOrder ELSE Address
         IN  {r \in left : \A q \in left : order[r] <= order[q]}

Program == /\ pc = "program"
           /\ \E r \in Heads : chip' = [chip EXCEPT ![r] = ram[r]] /\ left' = left \ {r}
           /\ UNCHANGED <<flags, pc, tries, failed, kept>> /\ uSave

FlashWritten == /\ pc = "program" /\ left = {}
                /\ Clean
                /\ failed' = "none" /\ kept' = [k \in Kind |-> {Effective(ram)[k]}]
                /\ tries' = 0 /\ pc' = after
                /\ UNCHANGED <<left, chip>> /\ uSave

FlashFails == /\ pc = "erase" \/ (pc = "program" /\ left # {})
              /\ ~attached \/ Fallible # {}
              /\ Retry
              /\ UNCHANGED chip /\ uSave

\* the EEPROM is written record by record, each flag cleared when that went well
WriteRecord(r) ==
    /\ pc = "records" /\ r \in Heads
    /\ chip' = [chip EXCEPT ![r] = ram[r]]
    /\ left' = left \ {r} /\ dirty' = dirty \ {r}
    /\ UNCHANGED <<is_dirty, pc, tries, failed, kept>> /\ uSave

\* the flags that are cleared before the write
ClearedFirst == {"startup"}

WriteRecordFails ==
    /\ pc = "records"
    /\ \E r \in Heads \cap Fallible : left' = left \ {r} /\ dirty' = dirty \ ({r} \cap ClearedFirst)
    /\ UNCHANGED <<chip, is_dirty, pc, tries, failed, kept>> /\ uSave

\* mutant: one group of records is left out
StillDirtyForgets == dirty \ {"version", "coord"} # {}

\* settings_dirty.is_dirty is computed anew from the flags, that of the version left out
StillDirty == dirty \ {"version"} # {}

RecordsWritten ==
    /\ pc = "records" /\ left = {}
    /\ is_dirty' = StillDirty
    /\ kept' = IF dirty = {} /\ failed = "none" THEN [k \in Kind |-> {Effective(ram)[k]}] ELSE kept
    /\ tries' = 0 /\ pc' = after
    /\ UNCHANGED <<dirty, left, chip, failed>> /\ uSave

-----------------------------------------------------------------------------
\* Start-up

\* settings_restore; the global settings are saved by way of _settings_write_global,
\* which puts an overridden acceleration back
Restored(s) ==
    LET global == IF backup = Blank THEN Default ELSE backup
    IN  /\ ram' = [r \in Rec |-> IF r = "global" /\ r \in s THEN global
                                 ELSE IF r \in s \cup {"version"} THEN Default ELSE ram[r]]
        /\ live' = IF "global" \in s THEN global ELSE live
        /\ dirty' = dirty \cup s \cup {"version"} /\ is_dirty' = TRUE

\* nvs_buffer_init reads the area
PowerUp ==
    /\ pc = "off" /\ pc' = "init"
    /\ \/ attached' = TRUE /\ ram' = chip
       \/ ReadFails /\ backend = "flash" /\ attached' = FALSE /\ UNCHANGED ram
    /\ UNCHANGED <<backend, chip, flags, main, save, failed, kept>>

\* ... and fills it with defaults and writes it out when it is of another version
InitBuffer ==
    /\ pc = "init"
    /\ IF ram["version"] = Blank
       THEN Restored(Kind) /\ StartSync("image")
       ELSE pc' = "settings" /\ Clean /\ UNCHANGED <<ram, live, save, kept>>
    /\ UNCHANGED <<backend, chip, attached, backup, busy, failed>>

\* after the restore the area is written once more as a whole, without retries
WriteImage ==
    /\ pc = "image"
    /\ after' = "settings" /\ tries' = 1
    /\ IF backend = "flash" THEN pc' = "erase" /\ left' = {}
                            ELSE pc' = "copy" /\ left' = Rec
    /\ kept' = [k \in Kind |-> kept[k] \cup {Effective(ram)[k], Default}]
    /\ UNCHANGED <<backend, chip, ram, flags, attached, main, failed>>

Copy ==
    /\ pc = "copy" /\ backend = "eeprom"
    /\ \E r \in Heads : chip' = [chip EXCEPT ![r] = ram[r]] /\ left' = left \ {r}
    /\ UNCHANGED <<flags, pc, tries, failed, kept>> /\ uSave

\* the result of the copy is not looked at
CopyEnds ==
    /\ pc = "copy"
    /\ left = {} \/ Heads \cap Fallible # {}
    /\ Clean
    /\ failed' = IF left = {} THEN failed ELSE Unseen
    /\ kept' = IF left = {} THEN [k \in Kind |-> {Effective(ram)[k]}] ELSE kept
    /\ left' = {} /\ tries' = 0 /\ pc' = after
    /\ UNCHANGED chip /\ uSave

\* settings_init
InitSettings ==
    /\ pc = "settings"
    /\ IF ram["global"] = Blank
       THEN Restored(Kind) /\ StartSync("up")
       ELSE pc' = "up" /\ live' = ram["global"] /\ UNCHANGED <<ram, flags, save, kept>>
    /\ UNCHANGED <<backend, chip, attached, backup, busy, failed>>

\* power is lost, in the middle of a record or not
PowerLoss ==
    /\ pc # "off" /\ pc' = "off"
    /\ \/ UNCHANGED chip
       \/ pc \in {"records", "copy"} /\ \E r \in Heads : chip' = [chip EXCEPT ![r] = Blank]
    /\ ram' = AllBlank /\ Clean
    /\ live' = Default /\ backup' = Blank /\ busy' = FALSE
    /\ after' = "up" /\ left' = {} /\ tries' = 0 /\ failed' = "none"
    /\ UNCHANGED <<backend, attached, kept>>
-----------------------------------------------------------------------------
\* The running machine

uUp == UNCHANGED <<backend, chip, attached, failed>>
uMain == UNCHANGED <<pc, save, kept>> /\ uUp

\* _settings_write_global for another setting
WriteGlobal(acceleration) == live' = acceleration /\ Write("global", acceleration)

StoreOtherSetting ==
    /\ pc = "up"
    /\ WriteGlobal(IF backup = Blank THEN live ELSE backup)
    /\ UNCHANGED <<backup, busy>> /\ uMain

\* $120=v
StoreAcceleration(v) ==
    /\ pc = "up"
    /\ WriteGlobal(v)
    /\ backup' = IF backup = Blank THEN Blank ELSE v
    /\ UNCHANGED busy /\ uMain

\* settings_override_acceleration
OverrideAcceleration(v) ==
    /\ pc = "up" /\ ~busy /\ v \in Overrides
    /\ live' = v
    /\ backup' = IF backup = Blank THEN live ELSE backup
    /\ UNCHANGED <<ram, flags, busy>> /\ uMain

EndOverride ==
    /\ pc = "up" /\ ~busy /\ backup # Blank
    /\ live' = backup
    /\ UNCHANGED <<ram, flags, backup, busy>> /\ uMain

\* settings_write_coord_data, settings_write_startup_line, settings_write_build_info
WriteOther(r, v) ==
    /\ pc = "up"
    /\ Write(r, v)
    /\ UNCHANGED main /\ uMain

\* settings_read_coord_data, settings_read_startup_line, the load of driver settings
ReadOther(r) ==
    /\ pc = "up" /\ r # "build" /\ ram[r] = Blank
    /\ Write(r, Default)
    /\ UNCHANGED main /\ uMain

\* settings_read_build_info
ReadBuildInfo ==
    /\ pc = "up" /\ "build" \in Others /\ ram["build"] = Blank
    /\ Restored({"build"}) /\ StartSync("up")
    /\ UNCHANGED <<backup, busy>> /\ uUp

\* $RST=$, $RST=#, $RST=& and $RST=*
ResetGroups == {{k} : k \in Kind \cap {"global", "coord", "driver"}} \cup {Kind}

SettingsReset(s) ==
    /\ pc = "up" /\ ~busy
    /\ Restored(s) /\ StartSync("up")
    /\ UNCHANGED <<backup, busy>> /\ uUp

\* the machine starts to move, or comes to rest
Moves == /\ pc = "up" /\ ~busy /\ busy' = TRUE
         /\ UNCHANGED <<ram, flags, live, backup>> /\ uMain
Rests == /\ pc = "up" /\ busy /\ busy' = FALSE
         /\ UNCHANGED <<ram, flags, live, backup>> /\ uMain

\* protocol_execute_realtime
CheckPoint ==
    /\ pc = "up" /\ ~busy /\ is_dirty
    /\ UNCHANGED <<ram, flags>>
    /\ StartSync("up")
    /\ UNCHANGED main /\ uUp
-----------------------------------------------------------------------------
Init == /\ backend \in Backends
        /\ chip = AllBlank /\ ram = AllBlank
        /\ dirty = {} /\ is_dirty = FALSE
        /\ attached = TRUE
        /\ live = Default /\ backup = Blank /\ busy = FALSE
        /\ pc = "off" /\ after = "up" /\ left = {} /\ tries = 0
        /\ failed = "none"
        /\ kept = [k \in Kind |-> {Default}]

SaveStep == \/ EraseFlash \/ Program \/ FlashWritten \/ FlashFails
            \/ (\E r \in Rec : WriteRecord(r)) \/ WriteRecordFails \/ RecordsWritten
            \/ WriteImage \/ Copy \/ CopyEnds

BootStep == InitBuffer \/ InitSettings

UserStep == \/ StoreOtherSetting
            \/ \E v \in Value : StoreAcceleration(v) \/ OverrideAcceleration(v)
            \/ EndOverride
            \/ \E r \in Others : ReadOther(r) \/ \E v \in Value : WriteOther(r, v)
            \/ ReadBuildInfo
            \/ \E s \in ResetGroups : SettingsReset(s)

Next == SaveStep \/ BootStep \/ UserStep \/ Moves \/ Rests \/ CheckPoint \/ PowerUp \/ PowerLoss

Spec == Init /\ [][Next]_vars

\* The main thread runs on, the machine comes to rest again and again, and a
\* record of the EEPROM that fails to be written does not fail for ever.
FairSpec == /\ Spec
            /\ WF_vars(SaveStep \/ BootStep) /\ \A r \in Fallible : SF_vars(WriteRecord(r))
            /\ WF_vars(Rests) /\ SF_vars(CheckPoint)

-----------------------------------------------------------------------------
\* Properties

Place == {"off", "init", "image", "copy", "settings", "up", "erase", "program", "records"}
TypeOK ==
    /\ backend \in {"flash", "eeprom"}
    /\ chip \in [Rec -> Value \cup {Blank}] /\ ram \in [Rec -> Value \cup {Blank}]
    /\ dirty \subseteq Rec /\ is_dirty \in BOOLEAN
    /\ attached \in BOOLEAN /\ live \in Value /\ backup \in Value \cup {Blank} /\ busy \in BOOLEAN
    /\ pc \in Place /\ after \in {"image", "settings", "up"}
    /\ left \subseteq Rec /\ tries \in 0..Tries
    /\ failed \in {"none", "reported", "silent"} /\ kept \in [Kind -> SUBSET Value]

\* While the machine runs, a record that differs from what is on the chip is
\* flagged to be saved: only a save whose failure was reported, and the copy
\* of start-up, whose failure nobody looks at, may lose a record.
NothingForgotten ==
    pc = "up" /\ failed = "none" =>
        \A r \in Rec : ram[r] # chip[r] => r \in dirty /\ is_dirty

\* What was saved is found again, and never a record that was not written.
Store == INSTANCE SettingsStore WITH on <- pc # "off", mem <- Effective(ram)
ImplementsSettingsStore == Store!Spec

\* What changed is saved, or the failure reported, once the machine is at rest again and again.
ChangesAreSaved == dirty \cap Kind # {} ~> (dirty \cap Kind = {} \/ pc = "off")

\* After settings are restored they are the defaults.
RestoreGivesDefaults ==
    [][\A s \in ResetGroups : SettingsReset(s) => \A k \in s : ram'[k] = Default]_vars

\* Start-up is to "write out to physical storage when available" (nvs_buffer.c:276):
\* what is not on the chip is flagged, or a failure was reported.
DefaultsAreWrittenOut ==
    pc = "up" /\ failed # "reported" =>
        \A r \in Rec : ram[r] # chip[r] => r \in dirty /\ is_dirty

\* A write that is interrupted harms no other record.
TornRecordIsAlone ==
    [][PowerLoss /\ pc = "records" =>
           \A k \in Kind \ left : Effective(chip')[k] = Effective(chip)[k]]_vars
=============================================================================
