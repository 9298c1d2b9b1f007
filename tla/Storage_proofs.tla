--------------------------- MODULE Storage_proofs ---------------------------
(***************************************************************************)
(* Storage: nothing that changed is forgotten, and it implements           *)
(* SettingsStore, for any records, values and failures but one: a startup  *)
(* line of the EEPROM loses its flag before it is written, so its write    *)
(* must not fail.                                                          *)
(***************************************************************************)
EXTENDS Storage, TLAPS

\* a write that fails finds the flag of its record still set
FailuresAreFlagged == Fallible \cap ClearedFirst = {}

-----------------------------------------------------------------------------
\* The inductive invariant

\* what the program holds is of its own version, and complete once start-up is past it
HeldIsOwn ==
    /\ chip["version"] \in {Default, Blank}
    /\ pc = "off" => ram = AllBlank
    /\ pc \notin {"off", "init"} => ram["version"] = Default
    /\ pc \notin {"off", "init", "settings"} => ram["global"] # Blank

\* where the chip agrees with what the program holds
Agreement ==
    /\ pc = "init" /\ ram["version"] # Blank => ram = chip
    /\ pc = "settings" /\ failed = "none" => ram = chip
    /\ pc \in {"program", "copy"} => \A r \in Rec \ left : chip[r] = ram[r]
    /\ pc = "records" => after \in {"image", "up"}

\* what is not yet saved is flagged, also while it is being saved
Flagged ==
    /\ pc \in {"records", "up"} /\ failed = "none" => \A r \in Rec : ram[r] # chip[r] => r \in dirty
    /\ pc = "up" /\ failed = "none" => (ram = chip \/ is_dirty)
    /\ (pc \in {"settings", "up"} \/ (pc = "records" /\ after = "up")) /\ failed = "none"
           => chip["version"] = ram["version"]

\* every record may be found as it is on the chip, and as it is about to be
Findable ==
    /\ \A k \in Kind : Loaded(chip[k]) \in kept[k]
    /\ chip["version"] = Blank \/ chip["global"] = Blank => \A k \in Kind : Default \in kept[k]
    /\ pc \in {"records", "program", "copy"} =>
           \A k \in Kind : left \cap {"version", "global", k} # {}
               => Loaded(ram[k]) \in kept[k] /\ Default \in kept[k]
    /\ pc \in {"erase", "program"} =>
           \A k \in Kind : Loaded(ram[k]) \in kept[k] /\ Default \in kept[k]

IInv == TypeOK /\ HeldIsOwn /\ Agreement /\ Flagged /\ Findable

-----------------------------------------------------------------------------
\* The steps of the running machine, by what they do to the records

\* one record is written in RAM
Writes == /\ pc = "up"
          /\ \E r \in Kind, v \in Value : Write(r, v)
          /\ UNCHANGED <<chip, pc, save, failed, kept>>

\* defaults are restored and saved
Restores(p) == /\ pc = (IF p = "image" THEN "init" ELSE IF pc = "settings" THEN "settings" ELSE "up")
               /\ \E s \in SUBSET Kind : Restored(s) /\ (pc = "up" \/ s = Kind)
               /\ StartSync(p)
               /\ UNCHANGED <<chip, failed>>

\* the records stay as they are
Keeps == UNCHANGED <<chip, ram, flags, pc, save, failed, kept>>

\* the part of TypeOK that is not about the records
MainOK == /\ backend \in {"flash", "eeprom"}
          /\ attached \in BOOLEAN /\ live \in Value /\ backup \in Value \cup {Blank}
          /\ busy \in BOOLEAN

LEMMA RecordsAre == "version" \in Rec /\ "global" \in Kind /\ Kind \subseteq Rec /\ "version" \notin Kind
  BY StorageAssumption DEF Rec, Kind

LEMMA UserSteps == TypeOK /\ UserStep => (Writes \/ Restores("up") \/ Keeps) /\ MainOK'
<1> SUFFICES ASSUME TypeOK, UserStep PROVE (Writes \/ Restores("up") \/ Keeps) /\ MainOK'
  OBVIOUS
<1> USE StorageAssumption, RecordsAre DEF uMain, uUp, main, MainOK, TypeOK
<1>1. CASE StoreOtherSetting
  <2> DEFINE v == IF backup = Blank THEN live ELSE backup
  <2>1. v \in Value
    OBVIOUS
  <2>2. Write("global", v) /\ live' = v
    BY <1>1 DEF StoreOtherSetting, WriteGlobal
  <2> QED
    BY <1>1, <2>1, <2>2 DEF StoreOtherSetting, Writes
<1>2. ASSUME NEW v \in Value, StoreAcceleration(v) PROVE (Writes \/ Restores("up") \/ Keeps) /\ MainOK'
  BY <1>2 DEF StoreAcceleration, WriteGlobal, Writes
<1>3. ASSUME NEW v \in Value, OverrideAcceleration(v) PROVE (Writes \/ Restores("up") \/ Keeps) /\ MainOK'
  BY <1>3 DEF OverrideAcceleration, Keeps, flags
<1>4. CASE EndOverride
  BY <1>4 DEF EndOverride, Keeps, flags
<1>5. ASSUME NEW r \in Others, NEW v \in Value, WriteOther(r, v) PROVE (Writes \/ Restores("up") \/ Keeps) /\ MainOK'
  BY <1>5 DEF WriteOther, Writes, Kind
<1>6. ASSUME NEW r \in Others, ReadOther(r) PROVE (Writes \/ Restores("up") \/ Keeps) /\ MainOK'
  BY <1>6 DEF ReadOther, Writes, Kind
<1>7. CASE ReadBuildInfo
  <2>1. Restored({"build"}) /\ {"build"} \in SUBSET Kind
    BY <1>7 DEF ReadBuildInfo, Kind
  <2>2. live' \in Value
    BY <2>1 DEF Restored
  <2> QED
    BY <1>7, <2>1, <2>2 DEF ReadBuildInfo, Restores
<1>8. ASSUME NEW s \in ResetGroups, SettingsReset(s) PROVE (Writes \/ Restores("up") \/ Keeps) /\ MainOK'
  <2>1. Restored(s) /\ s \in SUBSET Kind
    BY <1>8 DEF SettingsReset, ResetGroups
  <2>2. live' \in Value
    BY <2>1 DEF Restored
  <2> QED
    BY <1>8, <2>1, <2>2 DEF SettingsReset, Restores
<1> QED
  BY <1>1, <1>2, <1>3, <1>4, <1>5, <1>6, <1>7, <1>8 DEF UserStep

\* every step, by what it does to the records
LEMMA Steps ==
  ASSUME TypeOK, [Next]_vars
  PROVE  \/ SaveStep
         \/ Writes \/ Restores("up") \/ Restores("image") \/ Keeps
         \/ InitBuffer /\ ram["version"] # Blank
         \/ InitSettings /\ ram["global"] # Blank
         \/ CheckPoint \/ PowerUp \/ PowerLoss
<1> USE StorageAssumption, RecordsAre DEF uMain, uUp, main
<1>1. CASE UserStep
  BY <1>1, UserSteps
<1>2. CASE InitBuffer /\ ram["version"] = Blank
  BY <1>2 DEF InitBuffer, Restores
<1>3. CASE InitSettings /\ ram["global"] = Blank
  BY <1>3 DEF InitSettings, Restores
<1>4. CASE Moves \/ Rests
  BY <1>4 DEF Moves, Rests, Keeps, flags
<1>5. CASE UNCHANGED vars
  BY <1>5 DEF vars, Keeps
<1> QED
  BY <1>1, <1>2, <1>3, <1>4, <1>5 DEF Next, BootStep

-----------------------------------------------------------------------------
\* Types

LEMMA LoadedIsValue == \A v \in Value \cup {Blank} : Loaded(v) \in Value
  BY StorageAssumption DEF Loaded

LEMMA EffectiveIsValue ==
  ASSUME NEW m \in [Rec -> Value \cup {Blank}]
  PROVE  Effective(m) \in [Kind -> Value]
  BY LoadedIsValue, RecordsAre, StorageAssumption DEF Effective

LEMMA BlankIsRecords == AllBlank \in [Rec -> Value \cup {Blank}]
  BY DEF AllBlank

LEMMA SyncTypes ==
  ASSUME TypeOK, NEW p \in {"image", "up"}, StartSync(p),
         ram' \in [Rec -> Value \cup {Blank}], dirty' \in SUBSET Rec, is_dirty' \in BOOLEAN
  PROVE  /\ pc' \in {"erase", "records"} /\ after' = p
         /\ left' \subseteq Rec /\ tries' \in 0..Tries
         /\ kept' \in [Kind -> SUBSET Value]
<1>1. Effective(ram') \in [Kind -> Value]
  BY EffectiveIsValue
<1>2. kept' \in [Kind -> SUBSET Value]
  BY <1>1, StorageAssumption DEF StartSync, TypeOK
<1>3. tries' \in 0..Tries
  BY DEF StartSync, Tries
<1> QED
  BY <1>2, <1>3 DEF StartSync, TypeOK

LEMMA RestoredTypes ==
  ASSUME TypeOK, NEW s \in SUBSET Kind, Restored(s)
  PROVE  /\ ram' \in [Rec -> Value \cup {Blank}] /\ live' \in Value
         /\ dirty' \in SUBSET Rec /\ is_dirty' \in BOOLEAN
         /\ ram'["version"] = Default
         /\ \A r \in Rec : ram'[r] # ram[r] => r \in dirty'
         /\ \A r \in s : ram'[r] \in Value
         /\ \A r \in Rec : ram[r] \in Value => ram'[r] \in Value
         /\ s \cup {"version"} \subseteq dirty' /\ dirty \subseteq dirty'
  BY StorageAssumption, RecordsAre DEF Restored, TypeOK

LEMMA WriteTypes ==
  ASSUME TypeOK, NEW r \in Kind, NEW v \in Value, Write(r, v)
  PROVE  /\ ram' \in [Rec -> Value \cup {Blank}]
         /\ dirty' \in SUBSET Rec /\ is_dirty' \in BOOLEAN
         /\ \A q \in Rec : ram'[q] # ram[q] => q = r /\ q \in dirty' /\ is_dirty'
         /\ ram'[r] = v
         /\ dirty \subseteq dirty' /\ (is_dirty => is_dirty')
<1>1. r \in Rec /\ ram' = [ram EXCEPT ![r] = v]
  BY RecordsAre DEF Write
<1>2. CASE Changed(r, v)
  <2>1. dirty' = dirty \cup {r} /\ is_dirty' = TRUE
    BY <1>2 DEF Write
  <2> QED
    BY <1>1, <2>1 DEF TypeOK
<1>3. CASE ~Changed(r, v)
  <2>1. dirty' = dirty /\ is_dirty' = is_dirty /\ ram[r] = v
    BY <1>3 DEF Write, Changed, flags
  <2> QED
    BY <1>1, <2>1 DEF TypeOK
<1> QED
  BY <1>2, <1>3

\* the main thread's own variables keep their types
LEMMA MainTypes == TypeOK /\ [Next]_vars => MainOK'
<1> SUFFICES ASSUME TypeOK, [Next]_vars PROVE MainOK'
  OBVIOUS
<1> USE StorageAssumption, RecordsAre DEF MainOK, TypeOK, main
<1>1. CASE UserStep
  BY <1>1, UserSteps
<1>2. CASE SaveStep
  BY <1>2 DEF SaveStep, EraseFlash, Program, FlashWritten, FlashFails, WriteRecord,
              WriteRecordFails, RecordsWritten, WriteImage, Copy, CopyEnds, uSave
<1>3. CASE InitBuffer
  BY <1>3 DEF InitBuffer, Restored
<1>4. CASE InitSettings
  <2>1. ram["global"] # Blank => ram["global"] \in Value
    BY DEF Rec
  <2> QED
    BY <1>4, <2>1 DEF InitSettings, Restored
<1>5. CASE Moves \/ Rests \/ CheckPoint \/ PowerUp \/ PowerLoss
  BY <1>5 DEF Moves, Rests, CheckPoint, PowerUp, PowerLoss, uMain, uUp
<1>6. CASE UNCHANGED vars
  BY <1>6 DEF vars
<1> QED
  BY <1>1, <1>2, <1>3, <1>4, <1>5, <1>6 DEF Next, BootStep

LEMMA TypeInit == Init => TypeOK
<1> SUFFICES ASSUME Init PROVE TypeOK
  OBVIOUS
<1>1. chip \in [Rec -> Value \cup {Blank}] /\ ram \in [Rec -> Value \cup {Blank}]
  BY BlankIsRecords DEF Init
<1>2. kept \in [Kind -> SUBSET Value] /\ backend \in {"flash", "eeprom"}
  BY StorageAssumption DEF Init
<1>3. tries \in 0..Tries
  BY DEF Init, Tries
<1> QED
  BY StorageAssumption, <1>1, <1>2, <1>3 DEF Init, TypeOK, Place

LEMMA TypeNext == TypeOK /\ [Next]_vars => TypeOK'
<1> SUFFICES ASSUME TypeOK, [Next]_vars PROVE TypeOK'
  OBVIOUS
<1>m. MainOK'
  BY MainTypes
<1> USE StorageAssumption, RecordsAre, <1>m DEF MainOK
<1>s. CASE SaveStep
  <2> USE DEF TypeOK, uSave, main, flags, Place, Tries, Clean
  <2>h. \A r \in Heads : r \in Rec
    BY DEF Heads
  <2>e. Effective(ram) \in [Kind -> Value]
    BY EffectiveIsValue
  <2>1. CASE EraseFlash
    BY <2>1, BlankIsRecords DEF EraseFlash, Area
  <2>2. CASE Program
    BY <2>2, <2>h DEF Program
  <2>3. CASE FlashWritten
    <3>1. kept' \in [Kind -> SUBSET Value]
      BY <2>3, <2>e DEF FlashWritten
    <3>2. dirty' \subseteq Rec /\ is_dirty' \in BOOLEAN /\ failed' \in {"none", "reported", "silent"}
      BY <2>3, Zenon DEF FlashWritten
    <3>3. UNCHANGED <<chip, ram, left>> /\ pc' \in Place
          /\ after' \in {"image", "settings", "up"}
      BY <2>3 DEF FlashWritten
    <3>4. tries' \in 0..Tries
      BY <2>3 DEF FlashWritten
    <3> QED
      BY <3>1, <3>2, <3>3, <3>4
  <2>4. CASE FlashFails
    <3>1. tries' \in 0..Tries /\ left' = {} /\ kept' \in [Kind -> SUBSET Value]
      BY <2>4 DEF FlashFails, Retry, GiveUp, Unseen
    <3>2. pc' \in Place /\ dirty' \subseteq Rec /\ is_dirty' \in BOOLEAN /\ failed' \in {"none", "reported", "silent"}
      BY <2>4 DEF FlashFails, Retry, GiveUp, Unseen
    <3> QED
      BY <2>4, <3>1, <3>2 DEF FlashFails
  <2>5. ASSUME NEW r \in Rec, WriteRecord(r) PROVE TypeOK'
    BY <2>5 DEF WriteRecord
  <2>6. CASE WriteRecordFails
    BY <2>6 DEF WriteRecordFails
  <2>7. CASE RecordsWritten
    BY <2>7, <2>e DEF RecordsWritten, StillDirty
  <2>8. CASE WriteImage
    <3>1. kept' \in [Kind -> SUBSET Value]
      BY <2>8, <2>e DEF WriteImage
    <3> QED
      BY <2>8, <3>1 DEF WriteImage
  <2>9. CASE Copy
    BY <2>9, <2>h DEF Copy
  <2>10. CASE CopyEnds
    <3>1. kept' \in [Kind -> SUBSET Value]
      BY <2>10, <2>e DEF CopyEnds
    <3>2. dirty' \subseteq Rec /\ is_dirty' \in BOOLEAN /\ failed' \in {"none", "reported", "silent"}
      BY <2>10, Zenon DEF CopyEnds, Unseen
    <3>3. UNCHANGED <<chip, ram>> /\ left' = {} /\ pc' \in Place
          /\ after' \in {"image", "settings", "up"}
      BY <2>10 DEF CopyEnds
    <3>4. tries' \in 0..Tries
      BY <2>10 DEF CopyEnds
    <3> QED
      BY <3>1, <3>2, <3>3, <3>4
  <2> QED
    BY <1>s, <2>1, <2>2, <2>3, <2>4, <2>5, <2>6, <2>7, <2>8, <2>9, <2>10 DEF SaveStep
<1>1. CASE Writes
  BY <1>1, WriteTypes DEF Writes, TypeOK, save
<1>2. ASSUME NEW p \in {"up", "image"}, Restores(p) PROVE TypeOK'
  <2>1. PICK s \in SUBSET Kind : Restored(s)
    BY <1>2 DEF Restores
  <2>2. /\ ram' \in [Rec -> Value \cup {Blank}]
        /\ dirty' \in SUBSET Rec /\ is_dirty' \in BOOLEAN
    BY <2>1, RestoredTypes
  <2>3. /\ pc' \in {"erase", "records"} /\ after' = p
        /\ left' \subseteq Rec /\ tries' \in 0..Tries
        /\ kept' \in [Kind -> SUBSET Value]
    BY <1>2, <2>2, SyncTypes DEF Restores
  <2> QED
    BY <1>2, <2>2, <2>3 DEF Restores, TypeOK, Place
<1>3. CASE Keeps
  BY <1>3 DEF Keeps, TypeOK, save, flags
<1>4. CASE InitBuffer /\ ram["version"] # Blank
  BY <1>4 DEF InitBuffer, TypeOK, save, Place, Clean
<1>5. CASE InitSettings /\ ram["global"] # Blank
  BY <1>5 DEF InitSettings, TypeOK, save, Place, flags
<1>6. CASE CheckPoint
  <2>1. /\ pc' \in {"erase", "records"} /\ after' = "up"
        /\ left' \subseteq Rec /\ tries' \in 0..Tries
        /\ kept' \in [Kind -> SUBSET Value]
    BY <1>6, SyncTypes DEF CheckPoint, flags, TypeOK
  <2> QED
    BY <1>6, <2>1 DEF CheckPoint, TypeOK, uUp, flags, Place
<1>7. CASE PowerUp
  BY <1>7 DEF PowerUp, TypeOK, save, flags, Place
<1>8. CASE PowerLoss
  <2>1. chip' \in [Rec -> Value \cup {Blank}]
    BY <1>8 DEF PowerLoss, TypeOK
  <2>2. ram' \in [Rec -> Value \cup {Blank}] /\ kept' \in [Kind -> SUBSET Value]
    BY <1>8, BlankIsRecords DEF PowerLoss, TypeOK
  <2>3. dirty' \subseteq Rec /\ is_dirty' \in BOOLEAN /\ failed' \in {"none", "reported", "silent"}
    BY <1>8, Zenon DEF PowerLoss, Clean
  <2>5. tries' \in 0..Tries
    BY <1>8 DEF PowerLoss, Tries
  <2>4. left' \subseteq Rec /\ pc' \in Place /\ after' \in {"image", "settings", "up"}
    BY <1>8 DEF PowerLoss, Place
  <2> QED
    BY <2>1, <2>2, <2>3, <2>4, <2>5 DEF TypeOK
<1> QED
  BY <1>s, <1>1, <1>2, <1>3, <1>4, <1>5, <1>6, <1>7, <1>8, Steps

\* Every variable of the storage keeps its type, whatever is written,
\* restored, fails or is cut short.
THEOREM TypeCorrect == Spec => []TypeOK
  BY TypeInit, TypeNext, PTL DEF Spec

-----------------------------------------------------------------------------
\* The parts of the invariant, step by step

LEMMA OwnNext == TypeOK /\ HeldIsOwn /\ Agreement /\ [Next]_vars => HeldIsOwn'
<1> SUFFICES ASSUME TypeOK, HeldIsOwn, Agreement, [Next]_vars PROVE HeldIsOwn'
  OBVIOUS
<1>t. TypeOK'
  BY TypeNext
<1> USE StorageAssumption, RecordsAre DEF HeldIsOwn
<1>s. CASE SaveStep
  <2> USE DEF uSave
  <2>1. CASE EraseFlash
    BY <2>1 DEF EraseFlash, AllBlank
  <2>2. ASSUME NEW r \in Rec, chip' = [chip EXCEPT ![r] = ram[r]], pc \in {"program", "copy", "records"},
               UNCHANGED <<pc, ram>>
        PROVE  HeldIsOwn'
    BY <2>2 DEF TypeOK
  <2>3. CASE Program \/ Copy
    BY <2>3, <2>2 DEF Program, Copy, Heads, TypeOK
  <2>4. ASSUME NEW r \in Rec, WriteRecord(r) PROVE HeldIsOwn'
    BY <2>4, <2>2 DEF WriteRecord
  <2>5. CASE FlashWritten
    BY <2>5 DEF FlashWritten, TypeOK
  <2>6. CASE FlashFails
    BY <2>6 DEF FlashFails, Retry, GiveUp, Unseen, TypeOK
  <2>7. CASE WriteRecordFails
    BY <2>7 DEF WriteRecordFails
  <2>8. CASE RecordsWritten
    BY <2>8 DEF RecordsWritten, TypeOK
  <2>9. CASE WriteImage
    BY <2>9 DEF WriteImage
  <2>10. CASE CopyEnds
    BY <2>10 DEF CopyEnds, TypeOK
  <2> QED
    BY <1>s, <2>1, <2>3, <2>4, <2>5, <2>6, <2>7, <2>8, <2>9, <2>10 DEF SaveStep
<1>1. CASE Writes
  BY <1>1, WriteTypes DEF Writes
<1>2. ASSUME NEW p \in {"up", "image"}, Restores(p) PROVE HeldIsOwn'
  <2>1. PICK s \in SUBSET Kind : Restored(s) /\ (pc = "up" \/ s = Kind)
    BY <1>2 DEF Restores
  <2>2. pc = "up" => ram["global"] \in Value
    BY DEF TypeOK
  <2>3. ram'["version"] = Default /\ ram'["global"] \in Value
    BY <2>1, <2>2, RestoredTypes
  <2> QED
    BY <1>2, <2>3 DEF Restores, StartSync
<1>3. CASE Keeps
  BY <1>3 DEF Keeps
<1>4. CASE InitBuffer /\ ram["version"] # Blank
  BY <1>4 DEF InitBuffer, Agreement
<1>5. CASE InitSettings /\ ram["global"] # Blank
  BY <1>5 DEF InitSettings
<1>6. CASE CheckPoint
  BY <1>6 DEF CheckPoint, uUp, StartSync
<1>7. CASE PowerUp
  BY <1>7 DEF PowerUp
<1>8. CASE PowerLoss
  BY <1>8 DEF PowerLoss, TypeOK, Heads
<1> QED
  BY <1>s, <1>1, <1>2, <1>3, <1>4, <1>5, <1>6, <1>7, <1>8, Steps

LEMMA AgreementNext == TypeOK /\ HeldIsOwn /\ Agreement /\ [Next]_vars => Agreement'
<1> SUFFICES ASSUME TypeOK, HeldIsOwn, Agreement, [Next]_vars PROVE Agreement'
  OBVIOUS
<1> USE StorageAssumption, RecordsAre DEF Agreement
<1>s. CASE SaveStep
  <2> USE DEF uSave
  <2>r. ram' = ram
    BY <1>s DEF SaveStep, EraseFlash, Program, FlashWritten, FlashFails, WriteRecord,
                WriteRecordFails, RecordsWritten, WriteImage, Copy, CopyEnds
  <2>1. CASE EraseFlash
    BY <2>1 DEF EraseFlash, Area
  <2>2. CASE Program \/ Copy
    BY <2>2 DEF Program, Copy, Heads, TypeOK
  <2>3. ASSUME chip = ram, chip' = chip, pc' \in {"image", "settings", "up"}, left' = {} PROVE Agreement'
    BY <2>3, <2>r
  <2>4. left = {} /\ pc \in {"program", "copy"} => chip = ram
    BY DEF TypeOK
  <2>5. CASE FlashWritten
    BY <2>5, <2>3, <2>4 DEF FlashWritten, TypeOK
  <2>6. CASE FlashFails
    BY <2>6 DEF FlashFails, Retry, GiveUp, Unseen, TypeOK
  <2>7. ASSUME NEW r \in Rec, WriteRecord(r) PROVE Agreement'
    BY <2>7 DEF WriteRecord
  <2>8. CASE WriteRecordFails
    BY <2>8 DEF WriteRecordFails
  <2>9. CASE WriteImage
    BY <2>9 DEF WriteImage
  <2>10. CASE CopyEnds
    BY <2>10, <2>3, <2>4 DEF CopyEnds, Unseen, TypeOK
  <2>11. CASE RecordsWritten
    BY <2>11 DEF RecordsWritten
  <2> QED
    BY <1>s, <2>1, <2>2, <2>5, <2>6, <2>7, <2>8, <2>9, <2>10, <2>11 DEF SaveStep
<1>1. CASE Writes \/ CheckPoint
  BY <1>1 DEF Writes, CheckPoint, StartSync
<1>2. ASSUME NEW p \in {"up", "image"}, Restores(p) PROVE Agreement'
  BY <1>2 DEF Restores, StartSync
<1>3. CASE Keeps
  BY <1>3 DEF Keeps, save
<1>4. CASE InitBuffer /\ ram["version"] # Blank
  BY <1>4 DEF InitBuffer
<1>5. CASE InitSettings /\ ram["global"] # Blank
  BY <1>5 DEF InitSettings
<1>7. CASE PowerUp
  BY <1>7 DEF PowerUp, HeldIsOwn, AllBlank
<1>8. CASE PowerLoss
  BY <1>8 DEF PowerLoss
<1> QED
  BY <1>s, <1>1, <1>2, <1>3, <1>4, <1>5, <1>7, <1>8, Steps

\* a save that ends well leaves nothing to flag
LEMMA SavedIsFlagged ==
  ASSUME TypeOK, TypeOK', ram' = chip'
  PROVE  Flagged'
  BY DEF Flagged

LEMMA WrittenAll ==
  ASSUME TypeOK, Agreement, left = {}, pc \in {"program", "copy"}
  PROVE  chip = ram
  BY DEF TypeOK, Agreement

LEMMA FlaggedNext ==
  ASSUME FailuresAreFlagged, TypeOK, HeldIsOwn, Agreement, Flagged, [Next]_vars
  PROVE  Flagged'
<1>t. TypeOK'
  BY TypeNext
<1> USE StorageAssumption, RecordsAre DEF Flagged
<1>s. CASE SaveStep
  <2> USE DEF uSave
  <2>1. CASE EraseFlash
    BY <2>1 DEF EraseFlash
  <2>2. CASE Program \/ Copy
    BY <2>2 DEF Program, Copy
  <2>3. CASE FlashWritten
    BY <2>3, <1>t, WrittenAll, SavedIsFlagged DEF FlashWritten
  <2>4. CASE FlashFails
    BY <2>4 DEF FlashFails, Retry, GiveUp, Unseen, TypeOK
  <2>5. ASSUME NEW r \in Rec, WriteRecord(r) PROVE Flagged'
    <3>1. \A q \in Rec : chip'[q] = IF q = r THEN ram[r] ELSE chip[q]
      BY <2>5 DEF WriteRecord, TypeOK
    <3> QED
      BY <2>5, <3>1 DEF WriteRecord
  <2>6. CASE WriteRecordFails
    <3>1. dirty' = dirty
      BY <2>6 DEF WriteRecordFails, FailuresAreFlagged
    <3> QED
      BY <2>6, <3>1 DEF WriteRecordFails
  <2>7. CASE RecordsWritten
    <3>1. CASE after = "up" /\ failed = "none" /\ ram # chip
      <4>1. PICK r \in Rec : ram[r] # chip[r]
        BY <3>1 DEF TypeOK
      <4>2. r \in dirty /\ r # "version"
        BY <2>7, <3>1, <4>1 DEF RecordsWritten
      <4>3. is_dirty' = StillDirty
        BY <2>7 DEF RecordsWritten
      <4>4. is_dirty'
        BY <4>2, <4>3 DEF StillDirty
      <4> QED
        BY <2>7, <3>1, <4>4 DEF RecordsWritten
    <3> QED
      BY <2>7, <3>1, <1>t DEF RecordsWritten, Agreement
  <2>8. CASE WriteImage
    BY <2>8 DEF WriteImage
  <2>9. CASE CopyEnds
    BY <2>9, <1>t, WrittenAll, SavedIsFlagged DEF CopyEnds, Unseen
  <2> QED
    BY <1>s, <2>1, <2>2, <2>3, <2>4, <2>5, <2>6, <2>7, <2>8, <2>9 DEF SaveStep
<1>1. CASE Writes
  <2>1. PICK r \in Kind, v \in Value : Write(r, v)
    BY <1>1 DEF Writes
  <2>2. /\ ram' \in [Rec -> Value \cup {Blank}]
        /\ \A q \in Rec : ram'[q] # ram[q] => q = r /\ q \in dirty' /\ is_dirty'
        /\ dirty \subseteq dirty' /\ (is_dirty => is_dirty')
    BY <2>1, WriteTypes
  <2>3. ram' = ram \/ is_dirty'
    BY <2>2 DEF TypeOK
  <2> QED
    BY <1>1, <2>2, <2>3 DEF Writes, save
<1>2. ASSUME NEW p \in {"up", "image"}, Restores(p) PROVE Flagged'
  <2>1. PICK s \in SUBSET Kind : Restored(s) /\ (pc = "up" \/ s = Kind)
    BY <1>2 DEF Restores
  <2>2. /\ ram'["version"] = Default
        /\ \A r \in Rec : ram'[r] # ram[r] => r \in dirty'
        /\ s \cup {"version"} \subseteq dirty' /\ dirty \subseteq dirty'
    BY <2>1, RestoredTypes
  <2>3. \A r \in Rec : ram'[r] # chip[r] /\ failed = "none" => r \in dirty'
    <3>1. CASE pc = "up"
      BY <2>2, <3>1
    <3>2. CASE s = Kind
      BY <2>2, <3>2 DEF Rec
    <3> QED
      BY <2>1, <3>1, <3>2
  <2>4. p = "up" /\ failed = "none" => chip["version"] = ram'["version"]
    BY <1>2, <2>2 DEF Restores, HeldIsOwn, Agreement
  <2> QED
    BY <1>2, <2>3, <2>4 DEF Restores, StartSync
<1>3. CASE Keeps
  BY <1>3 DEF Keeps, save, flags
<1>4. CASE InitBuffer /\ ram["version"] # Blank
  BY <1>4 DEF InitBuffer, Agreement
<1>5. CASE InitSettings /\ ram["global"] # Blank
  BY <1>5 DEF InitSettings, Agreement, flags
<1>6. CASE CheckPoint
  BY <1>6 DEF CheckPoint, uUp, StartSync, flags
<1>7. CASE PowerUp \/ PowerLoss
  BY <1>7 DEF PowerUp, PowerLoss
<1> QED
  BY <1>s, <1>1, <1>2, <1>3, <1>4, <1>5, <1>6, <1>7, Steps

LEMMA EffectiveIsLoaded ==
  ASSUME NEW m \in [Rec -> Value \cup {Blank}], m["version"] # Blank, m["global"] # Blank
  PROVE  \A k \in Kind : Effective(m)[k] = Loaded(m[k])
  BY DEF Effective

LEMMA SyncIsFindable ==
  ASSUME TypeOK, TypeOK', HeldIsOwn', Findable, NEW p \in {"image", "up"}, StartSync(p),
         UNCHANGED chip
  PROVE  Findable'
<1> DEFINE added(k) == backend = "flash" \/ dirty' \cap {"version", "global", k} # {}
<1>1. ram'["version"] # Blank /\ ram'["global"] # Blank
  BY StorageAssumption DEF HeldIsOwn, StartSync
<1>2. \A k \in Kind : Effective(ram')[k] = Loaded(ram'[k])
  BY <1>1, EffectiveIsLoaded DEF TypeOK
<1>3. \A k \in Kind : kept[k] \subseteq kept'[k]
  BY DEF StartSync
<1>4. \A k \in Kind : added(k) => Loaded(ram'[k]) \in kept'[k] /\ Default \in kept'[k]
  BY <1>2 DEF StartSync
<1>5. \/ pc' = "erase" /\ \A k \in Kind : added(k)
      \/ pc' = "records" /\ left' = dirty'
  BY DEF StartSync
<1> QED
  BY <1>3, <1>4, <1>5 DEF Findable

LEMMA WrittenIsFindable ==
  ASSUME TypeOK, TypeOK', HeldIsOwn, ram = chip, UNCHANGED <<chip, ram>>,
         pc \in {"program", "records", "copy"}, pc' = after,
         kept' = [k \in Kind |-> {Effective(ram)[k]}]
  PROVE  Findable'
<1>1. ram["version"] # Blank /\ ram["global"] # Blank
  BY StorageAssumption DEF HeldIsOwn
<1>2. \A k \in Kind : kept'[k] = {Loaded(chip[k])}
  BY <1>1, EffectiveIsLoaded DEF TypeOK
<1> QED
  BY <1>1, <1>2 DEF Findable, TypeOK

LEMMA OneWrittenIsFindable ==
  ASSUME TypeOK, HeldIsOwn, Findable, NEW r \in left, pc \in {"program", "records", "copy"},
         chip' = [chip EXCEPT ![r] = ram[r]], left' \subseteq left, UNCHANGED <<ram, pc, kept>>
  PROVE  Findable'
<1>1. ram["version"] # Blank /\ ram["global"] # Blank
  BY StorageAssumption DEF HeldIsOwn
<1>2. r \in Rec /\ \A q \in Rec : chip'[q] = IF q = r THEN ram[q] ELSE chip[q]
  BY DEF TypeOK
<1>3. \A k \in Kind : Loaded(chip'[k]) \in kept'[k]
  BY <1>2, RecordsAre DEF Findable
<1>4. chip'["version"] = Blank \/ chip'["global"] = Blank => \A k \in Kind : Default \in kept'[k]
  BY <1>1, <1>2, RecordsAre DEF Findable
<1> QED
  BY <1>3, <1>4 DEF Findable

LEMMA FindableNext ==
  ASSUME FailuresAreFlagged, TypeOK, HeldIsOwn, Agreement, Flagged, Findable, [Next]_vars
  PROVE  Findable'
<1>t. TypeOK' /\ HeldIsOwn'
  BY TypeNext, OwnNext
<1> USE StorageAssumption, RecordsAre
<1>s. CASE SaveStep
  <2> USE DEF uSave
  <2>1. CASE EraseFlash
    <3>1. \A k \in Kind : Default \in kept[k] /\ chip'[k] = Blank
      BY <2>1 DEF EraseFlash, Findable, AllBlank
    <3> QED
      BY <2>1, <3>1 DEF EraseFlash, Findable, Loaded
  <2>2. CASE Program \/ Copy
    BY <2>2, OneWrittenIsFindable DEF Program, Copy, Heads
  <2>3. CASE FlashWritten
    BY <2>3, <1>t, WrittenAll, WrittenIsFindable DEF FlashWritten
  <2>4. CASE FlashFails
    BY <2>4 DEF FlashFails, Retry, GiveUp, Unseen, TypeOK, Findable
  <2>5. ASSUME NEW r \in Rec, WriteRecord(r) PROVE Findable'
    BY <2>5, OneWrittenIsFindable DEF WriteRecord, Heads
  <2>6. CASE WriteRecordFails
    BY <2>6 DEF WriteRecordFails, Findable
  <2>7. CASE RecordsWritten
    <3>1. CASE dirty = {} /\ failed = "none"
      <4>1. ram = chip
        BY <2>7, <3>1 DEF RecordsWritten, Flagged, TypeOK
      <4> QED
        BY <2>7, <3>1, <4>1, <1>t, WrittenIsFindable DEF RecordsWritten
    <3>2. CASE ~(dirty = {} /\ failed = "none")
      BY <2>7, <3>2 DEF RecordsWritten, Findable, TypeOK
    <3> QED
      BY <3>1, <3>2
  <2>8. CASE WriteImage
    <3>1. ram["version"] # Blank /\ ram["global"] # Blank
      BY <2>8 DEF WriteImage, HeldIsOwn
    <3>2. \A k \in Kind : kept'[k] = kept[k] \cup {Loaded(ram[k]), Default}
      BY <2>8, <3>1, EffectiveIsLoaded DEF WriteImage, TypeOK
    <3> QED
      BY <2>8, <3>2 DEF WriteImage, Findable
  <2>9. CASE CopyEnds
    <3>1. CASE left = {}
      BY <2>9, <3>1, <1>t, WrittenAll, WrittenIsFindable DEF CopyEnds
    <3>2. CASE left # {}
      BY <2>9, <3>2 DEF CopyEnds, Findable, TypeOK
    <3> QED
      BY <3>1, <3>2
  <2> QED
    BY <1>s, <2>1, <2>2, <2>3, <2>4, <2>5, <2>6, <2>7, <2>8, <2>9 DEF SaveStep
<1>1. CASE Writes
  BY <1>1 DEF Writes, save, Findable
<1>2. ASSUME NEW p \in {"up", "image"}, Restores(p) PROVE Findable'
  BY <1>2, <1>t, SyncIsFindable DEF Restores
<1>3. CASE Keeps
  BY <1>3 DEF Keeps, save, Findable
<1>4. CASE InitBuffer /\ ram["version"] # Blank
  BY <1>4 DEF InitBuffer, save, Findable
<1>5. CASE InitSettings /\ ram["global"] # Blank
  BY <1>5 DEF InitSettings, save, Findable
<1>6. CASE CheckPoint
  BY <1>6, <1>t, SyncIsFindable DEF CheckPoint, uUp
<1>7. CASE PowerUp
  BY <1>7 DEF PowerUp, save, Findable
<1>8. CASE PowerLoss
  <2>1. CASE UNCHANGED chip
    BY <1>8, <2>1 DEF PowerLoss, Findable
  <2>2. ASSUME NEW r \in left, pc \in {"records", "copy"}, chip' = [chip EXCEPT ![r] = Blank]
        PROVE  Findable'
    <3>1. r \in Rec /\ \A q \in Rec : chip'[q] = IF q = r THEN Blank ELSE chip[q]
      BY <2>2 DEF TypeOK
    <3>2. kept' = kept /\ pc' = "off"
      BY <1>8 DEF PowerLoss
    <3>3. \A k \in Kind : Loaded(chip'[k]) \in kept[k]
      BY <2>2, <3>1 DEF Findable, Loaded
    <3>4. chip'["version"] = Blank \/ chip'["global"] = Blank => \A k \in Kind : Default \in kept[k]
      BY <2>2, <3>1 DEF Findable
    <3> QED
      BY <3>2, <3>3, <3>4 DEF Findable
  <2> QED
    BY <1>8, <2>1, <2>2 DEF PowerLoss, Heads
<1> QED
  BY <1>s, <1>1, <1>2, <1>3, <1>4, <1>5, <1>6, <1>7, <1>8, Steps

LEMMA Invariance == ASSUME FailuresAreFlagged PROVE Spec => []IInv
<1>1. Init => IInv
  BY TypeInit, StorageAssumption, RecordsAre
  DEF Init, IInv, HeldIsOwn, Agreement, Flagged, Findable, AllBlank, Loaded
<1>2. IInv /\ [Next]_vars => IInv'
  BY TypeNext, OwnNext, AgreementNext, FlaggedNext, FindableNext DEF IInv
<1> QED
  BY <1>1, <1>2, PTL DEF Spec

\* A record that differs from what is on the chip is flagged to be saved,
\* unless a failed save was reported or the copy that start-up makes has failed
\* unseen, as long as a write that fails finds its flag still set: which
\* nvs_buffer_sync_physical breaks for startup lines only.
THEOREM Remembered == ASSUME FailuresAreFlagged PROVE Spec => []NothingForgotten
<1>1. IInv => NothingForgotten
  BY DEF IInv, Flagged, NothingForgotten, TypeOK
<1> QED
  BY <1>1, Invariance, PTL

-----------------------------------------------------------------------------
\* The refinement

LEMMA SyncStartsSave ==
  ASSUME TypeOK, TypeOK', NEW p \in {"image", "up"}, StartSync(p), pc # "off"
  PROVE  \E s \in SUBSET Kind : Store!StartSave(s)
<1> DEFINE saved == {k \in Kind : backend = "flash" \/ dirty' \cap {"version", "global", k} # {}}
<1>1. Effective(ram') \in [Kind -> Value]
  BY EffectiveIsValue DEF TypeOK
<1>2. kept' = [k \in Kind |-> IF k \in saved THEN kept[k] \cup {Effective(ram')[k], Default} ELSE kept[k]]
  BY DEF StartSync
<1>3. pc' # "off"
  BY DEF StartSync
<1>4. saved \in SUBSET Kind
  OBVIOUS
<1> HIDE DEF saved
<1> QED
  BY <1>1, <1>2, <1>3, <1>4 DEF Store!StartSave

LEMMA SaveSteps ==
  ASSUME TypeOK, TypeOK', HeldIsOwn, SaveStep
  PROVE  Store!Next \/ UNCHANGED Store!vars
<1> USE DEF uSave
<1>1. ram' = ram /\ pc # "off" /\ pc' # "off"
  BY DEF SaveStep, EraseFlash, Program, FlashWritten, FlashFails, WriteRecord, Retry, GiveUp, Unseen,
         WriteRecordFails, RecordsWritten, WriteImage, Copy, CopyEnds, TypeOK
<1>2. Effective(ram) \in [Kind -> Value]
  BY EffectiveIsValue DEF TypeOK
<1>3. CASE kept' = kept
  BY <1>1, <1>3 DEF Store!vars
<1>4. CASE kept' = [k \in Kind |-> {Effective(ram)[k]}]
  BY <1>1, <1>4 DEF Store!Next, Store!EndSave
<1>5. CASE WriteImage
  <2>1. kept' = [k \in Kind |-> IF k \in Kind THEN kept[k] \cup {Effective(ram)[k], Default} ELSE kept[k]]
    BY <1>5 DEF WriteImage
  <2>2. Store!StartSave(Kind)
    BY <1>1, <1>2, <2>1 DEF Store!StartSave
  <2> QED
    BY <2>2 DEF Store!Next
<1>6. kept' = kept \/ kept' = [k \in Kind |-> {Effective(ram)[k]}] \/ WriteImage
  BY DEF SaveStep, EraseFlash, Program, FlashWritten, FlashFails, WriteRecord, Retry, GiveUp, Unseen,
         WriteRecordFails, RecordsWritten, Copy, CopyEnds
<1> QED
  BY <1>3, <1>4, <1>5, <1>6

LEMMA StoreNext ==
  ASSUME FailuresAreFlagged, IInv, [Next]_vars
  PROVE  Store!Next \/ UNCHANGED Store!vars
<1>t. TypeOK /\ TypeOK' /\ HeldIsOwn /\ HeldIsOwn' /\ Agreement /\ Findable
  BY TypeNext, OwnNext DEF IInv
<1>e. Effective(ram) \in [Kind -> Value] /\ Effective(ram') \in [Kind -> Value]
  BY <1>t, EffectiveIsValue DEF TypeOK
<1> USE StorageAssumption, RecordsAre
<1>s. CASE SaveStep
  BY <1>s, <1>t, SaveSteps
<1>1. CASE Writes
  <2>1. Store!Change
    BY <1>1, <1>e DEF Writes, Store!Change
  <2> QED
    BY <2>1 DEF Store!Next
<1>2. ASSUME NEW p \in {"up", "image"}, Restores(p) PROVE Store!Next
  <2>1. StartSync(p) /\ pc # "off"
    BY <1>2 DEF Restores
  <2> QED
    BY <2>1, <1>t, SyncStartsSave DEF Store!Next
<1>3. CASE Keeps
  BY <1>3 DEF Keeps, save, Store!vars
<1>4. CASE InitBuffer /\ ram["version"] # Blank
  BY <1>4 DEF InitBuffer, save, Store!vars
<1>5. CASE InitSettings /\ ram["global"] # Blank
  BY <1>5 DEF InitSettings, save, Store!vars
<1>6. CASE CheckPoint
  <2>1. StartSync("up") /\ pc # "off"
    BY <1>6 DEF CheckPoint
  <2> QED
    BY <2>1, <1>t, SyncStartsSave DEF Store!Next
<1>7. CASE PowerUp
  <2>1. CASE ram' = ram
    BY <1>7, <2>1, <1>e DEF PowerUp, save, Store!Next, Store!PowerUp
  <2>2. CASE ram' = chip
    <3>1. \A k \in Kind : Effective(chip)[k] \in kept[k]
      BY <1>t DEF Findable, Effective
    <3> QED
      BY <1>7, <2>2, <3>1, <1>e DEF PowerUp, save, Store!Next, Store!PowerUp
  <2> QED
    BY <1>7, <2>1, <2>2 DEF PowerUp
<1>8. CASE PowerLoss
  <2>1. Effective(ram') = [k \in Kind |-> Default]
    BY <1>8 DEF PowerLoss, Effective, AllBlank
  <2> QED
    BY <1>8, <2>1 DEF PowerLoss, Store!Next, Store!PowerOff
<1> QED
  BY <1>s, <1>1, <1>2, <1>3, <1>4, <1>5, <1>6, <1>7, <1>8, <1>t, Steps

\* The copy in RAM, its flags, the saves to flash or EEPROM and the start-up
\* that reads them back keep the promise of SettingsStore, for any records,
\* wherever the power is lost and whatever write fails with its flag set.
THEOREM Kept == ASSUME FailuresAreFlagged PROVE Spec => ImplementsSettingsStore
<1>1. Init => Store!Init
  BY StorageAssumption, RecordsAre DEF Init, Store!Init, Effective, AllBlank
<1>2. IInv /\ [Next]_vars => [Store!Next]_(Store!vars)
  BY StoreNext
<1> QED
  BY <1>1, <1>2, Invariance, PTL DEF Spec, ImplementsSettingsStore, Store!Spec
=============================================================================
