--------------------------- MODULE DocumentProofs ---------------------------
(***************************************************************************)
(* The safety properties of Document hold for every number of names, texts *)
(* and undo steps, and for a clock of any length.                          *)
(*                                                                         *)
(* Every property follows from the inductive invariant IInv.  Its proof    *)
(* does not go through the handlers one by one, since several of them take *)
(* the same elementary steps (a reload is asked for by a menu and by the   *)
(* stale check, a save by five handlers): StepCases reduces Next to those  *)
(* elementary steps, and each conjunct of IInv is then shown to be         *)
(* preserved by each of them.                                              *)
(***************************************************************************)
EXTENDS Document, TLAPS

StepReload == Idle /\ Named /\ LoadBytes(name, "loaded")
                   /\ UNCHANGED <<opened, readonly, backup>>
StepTorn == Idle /\ Named /\ ReloadTorn /\ watch' \in BOOLEAN
StepStop == Idle /\ StopWatching
StepSave == Idle /\ \E n \in Names, then \in {"written", "closing"} :
                       SaveBytes(n, then)
StepFail == Idle /\ \E n \in Names : SaveFails(n)
StepDiscard == Idle /\ Discard
StepOpen == \E n \in Names, ro \in BOOLEAN : Open(n, ro)
StepCreate == \E n \in Names : CreateFile(n)
StepEdit == \E t \in Texts : Edit(t)
StepTravel == \E c \in 0..MaxUndo : c # cur /\ Travel(c)
StepLock == \E ro \in BOOLEAN : SetReadOnly(ro)
StepCopy == \E n \in Names : SaveCopy(n)
StepForeign == \E n \in Names, t \in Texts : ExternalWrite(n, t)
StepDelete == \E n \in Names : ExternalDelete(n)

Step ==
    \/ NewFile \/ StepOpen \/ StepCreate \/ StepEdit \/ StepTravel
    \/ InsertFile \/ StepLock \/ StepReload \/ StepTorn \/ StepStop
    \/ StepSave \/ StepFail \/ StepCopy \/ StepDiscard \/ LoadStat
    \/ SaveStat \/ SaveStatAndClose \/ AutoSave \/ Crash \/ StepForeign
    \/ StepDelete \/ Tick

\* Every step of the system is one of the elementary steps.
LEMMA StepCases == ASSUME TypeOK, Next PROVE Step
<1>1. CASE Undo \/ Redo
  <2>1. Undo => StepTravel
    BY DocumentAssumption DEF Undo, StepTravel, TypeOK
  <2>2. Redo => StepTravel
    BY DocumentAssumption DEF Redo, StepTravel, TypeOK
  <2> QED BY <1>1, <2>1, <2>2 DEF Step
<1>2. CASE Reload
  <2>1. watch' = watch => watch' \in BOOLEAN
    BY DEF TypeOK
  <2> QED BY <1>2, <2>1 DEF Reload, Step, StepReload, StepTorn
<1>3. CASE SaveFile
  BY <1>3 DEF SaveFile, Named, Save, Step, StepSave, StepFail
<1>4. CASE \E n \in Names : SaveFileAs(n)
  BY <1>4 DEF SaveFileAs, Save, Step, StepSave, StepFail
<1>5. CASE CloseUnasked
  BY <1>5 DEF CloseUnasked, Step, StepDiscard
<1>6. CASE CloseAsked
  BY <1>6 DEF CloseAsked, Named, Save, Step, StepSave, StepFail, StepDiscard
<1>7. CASE CheckStale
  <2>0. ASSUME ~Named PROVE Stale = 0
    BY <2>0, Zenon DEF Stale
  <2>1. Stale = 1 => Named
    BY <2>0
  <2>2. Stale = 2 => Named
    BY <2>0
  <2>3. ASSUME Idle, Named, ReloadTorn, watch' = FALSE PROVE StepTorn
    BY <2>3 DEF StepTorn
  <2>4. ASSUME Idle, Named, Save(name, "written") PROVE StepSave \/ StepFail
    BY <2>4 DEF Named, Save, StepSave, StepFail
  <2> QED BY <1>7, <2>1, <2>2, <2>3, <2>4
          DEF CheckStale, Step, StepReload, StepStop
<1> QED
  BY <1>1, <1>2, <1>3, <1>4, <1>5, <1>6, <1>7
  DEF Next, User, Timer, Environment, Step, StepOpen, StepCreate, StepEdit,
      StepLock, StepCopy, StepForeign, StepDelete

(***************************************************************************)
(* Types.                                                                  *)
(***************************************************************************)

UndoOK ==
    /\ hist \in [0..MaxUndo -> Texts]
    /\ cur \in 0..MaxUndo
    /\ last \in 0..MaxUndo
    /\ save \in -1..MaxUndo

DiskOK ==
    /\ diskText \in [Names -> Texts \cup {NoText}]
    /\ diskTime \in [Names -> 0..MaxClock]

BackupOK == backup \in [Slots -> Texts \cup {NoText}]

FlagsOK ==
    /\ opened \in BOOLEAN /\ dirty \in BOOLEAN /\ needBackup \in BOOLEAN
    /\ watch \in BOOLEAN /\ readonly \in BOOLEAN
    /\ torn \in BOOLEAN /\ foreign \in BOOLEAN /\ spoilt \in BOOLEAN

FileOK ==
    /\ pc \in {"idle", "loaded", "opening", "written", "closing"}
    /\ target \in Slots /\ name \in Slots
    /\ filetime \in 0..MaxClock /\ clock \in 1..MaxClock
    /\ synced \in Texts /\ since \in 0..MaxClock

\* The parts of the type invariant, to be shown one at a time.
LEMMA TypeParts == TypeOK <=> UndoOK /\ DiskOK /\ BackupOK /\ FlagsOK /\ FileOK
BY DEF TypeOK, UndoOK, DiskOK, BackupOK, FlagsOK, FileOK

\* AppendAction keeps the history an array of MaxUndo texts with its indices in it.
LEMMA AppendType ==
  ASSUME UndoOK, NEW t \in Texts, Append(t)
  PROVE  UndoOK'
<1>1. cur + 1 \in 0..MaxUndo
  BY DocumentAssumption DEF UndoOK, Append
<1>2. save' \in -1..MaxUndo
  BY DocumentAssumption DEF UndoOK, Append
<1>3. hist' \in [0..MaxUndo -> Texts]
  BY DEF UndoOK, Append
<1> QED BY <1>1, <1>2, <1>3 DEF UndoOK, Append

\* ... and so does emptying it.
LEMMA RefillType ==
  ASSUME NEW t \in Texts, Refill(t)
  PROVE  UndoOK'
BY DocumentAssumption DEF UndoOK, Refill

\* Writing a file keeps the disk a function of the names.
LEMMA WriteDiskType ==
  ASSUME DiskOK, clock \in 1..MaxClock, NEW n \in Names, NEW t \in Texts,
         WriteDisk(n, t)
  PROVE  DiskOK'
<1>1. clock \in 0..MaxClock
  BY DocumentAssumption
<1> QED BY <1>1 DEF DiskOK, WriteDisk

\* Removing or writing a backup keeps the backups a function of the slots.
LEMMA BackupType ==
  ASSUME BackupOK
  PROVE  /\ \A n : Unbacked(n) \in [Slots -> Texts \cup {NoText}]
         /\ \A n, t \in Texts \cup {NoText} :
               [backup EXCEPT ![n] = t] \in [Slots -> Texts \cup {NoText}]
BY DEF BackupOK, Unbacked

\* Closing a tab leaves everything about it blank, and so well typed.
LEMMA DeleteType ==
  ASSUME Delete, clock' \in 1..MaxClock
  PROVE  ~opened' /\ Blank' /\ UndoOK' /\ FlagsOK' /\ FileOK'
<1>1. ~opened' /\ Blank'
  BY DEF Delete, Blank, Refill
<1>2. UndoOK'
  BY RefillType, DocumentAssumption DEF Delete
<1>3. FlagsOK'
  BY DEF Delete, FlagsOK
<1>4. FileOK'
  BY DocumentAssumption DEF Delete, FileOK, Slots
<1> QED BY <1>1, <1>2, <1>3, <1>4

\* Every step keeps the types.
LEMMA TypeStep ==
  ASSUME TypeOK, Shape, Step \/ UNCHANGED vars
  PROVE  TypeOK'
<1> USE DocumentAssumption
<1>0. UndoOK /\ DiskOK /\ BackupOK /\ FlagsOK /\ FileOK
  BY TypeParts
<1> SUFFICES UndoOK' /\ DiskOK' /\ BackupOK' /\ FlagsOK' /\ FileOK'
  BY DEF TypeOK, UndoOK, DiskOK, BackupOK, FlagsOK, FileOK
<1>1. CASE NewFile
  BY <1>0, <1>1, BackupType
  DEF NewFile, UndoOK, DiskOK, BackupOK, FlagsOK, FileOK, Slots, disk, undo,
      flags, ghost
<1>2. CASE StepOpen
  <2>1. UndoOK'
    BY <1>0, <1>2
    DEF StepOpen, Open, LoadBytes, UndoOK, disk, undo, flags, ghost
  <2>2. DiskOK'
    BY <1>0, <1>2
    DEF StepOpen, Open, LoadBytes, DiskOK, disk, undo, flags, ghost
  <2>3. BackupOK'
    BY <1>0, <1>2, BackupType
    DEF StepOpen, Open, LoadBytes, BackupOK, disk, undo, flags, ghost
  <2>4. FlagsOK'
    BY <1>0, <1>2
    DEF StepOpen, Open, LoadBytes, FlagsOK, disk, undo, flags, ghost
  <2>5. FileOK'
    BY <1>0, <1>2
    DEF StepOpen, Open, LoadBytes, FileOK, Slots, DiskOK, UndoOK, disk,
        undo, flags, ghost
  <2> QED BY <2>1, <2>2, <2>3, <2>4, <2>5
<1>3. CASE StepCreate
  BY <1>0, <1>3
  DEF StepCreate, CreateFile, UndoOK, DiskOK, BackupOK, FlagsOK, FileOK,
      Slots, disk, undo, flags, ghost
<1>4. CASE StepEdit
  <2>1. UndoOK'
    BY <1>0, <1>4, AppendType
    DEF StepEdit, Edit, UndoOK, disk, undo, flags, ghost
  <2>2. DiskOK'
    BY <1>0, <1>4
    DEF StepEdit, Edit, DiskOK, disk, undo, flags, ghost
  <2>3. BackupOK'
    BY <1>0, <1>4
    DEF StepEdit, Edit, BackupOK, disk, undo, flags, ghost
  <2>4. FlagsOK'
    BY <1>0, <1>4
    DEF StepEdit, Edit, FlagsOK, disk, undo, flags, ghost
  <2>5. FileOK'
    BY <1>0, <1>4
    DEF StepEdit, Edit, FileOK, Slots, disk, undo, flags, ghost
  <2> QED BY <2>1, <2>2, <2>3, <2>4, <2>5
<1>5. CASE StepTravel
  <2>1. UndoOK'
    BY <1>0, <1>5
    DEF StepTravel, Travel, Notify, UndoOK, disk, undo, flags, ghost
  <2>2. DiskOK'
    BY <1>0, <1>5
    DEF StepTravel, Travel, Notify, DiskOK, disk, undo, flags, ghost
  <2>3. BackupOK'
    BY <1>0, <1>5, BackupType
    DEF StepTravel, Travel, Notify, BackupOK, disk, undo, flags, ghost
  <2>4. FlagsOK'
    BY <1>0, <1>5
    DEF StepTravel, Travel, Notify, FlagsOK, disk, undo, flags, ghost
  <2>5. FileOK'
    BY <1>0, <1>5
    DEF StepTravel, Travel, Notify, FileOK, Slots, disk, undo, flags, ghost
  <2> QED BY <2>1, <2>2, <2>3, <2>4, <2>5
<1>6. CASE InsertFile
  <2>1. UndoOK'
    BY <1>0, <1>6, AppendType
    DEF InsertFile, UndoOK, disk, undo, flags, ghost
  <2>2. DiskOK'
    BY <1>0, <1>6
    DEF InsertFile, DiskOK, disk, undo, flags, ghost
  <2>3. BackupOK'
    BY <1>0, <1>6
    DEF InsertFile, BackupOK, disk, undo, flags, ghost
  <2>4. FlagsOK'
    BY <1>0, <1>6
    DEF InsertFile, FlagsOK, disk, undo, flags, ghost
  <2>5. FileOK'
    BY <1>0, <1>6
    DEF InsertFile, FileOK, Slots, disk, undo, flags, ghost
  <2> QED BY <2>1, <2>2, <2>3, <2>4, <2>5
<1>7. CASE StepLock
  BY <1>0, <1>7
  DEF StepLock, SetReadOnly, UndoOK, DiskOK, BackupOK, FlagsOK, FileOK,
      Slots, disk, undo, flags, ghost
<1>8. CASE StepReload
  <2>1. UndoOK'
    BY <1>0, <1>8
    DEF StepReload, LoadBytes, Named, UndoOK, disk, undo, flags, ghost
  <2>2. DiskOK'
    BY <1>0, <1>8
    DEF StepReload, LoadBytes, Named, DiskOK, disk, undo, flags, ghost
  <2>3. BackupOK'
    BY <1>0, <1>8
    DEF StepReload, LoadBytes, Named, BackupOK, disk, undo, flags, ghost
  <2>4. FlagsOK'
    BY <1>0, <1>8
    DEF StepReload, LoadBytes, Named, FlagsOK, disk, undo, flags, ghost
  <2>5. FileOK'
    BY <1>0, <1>8
    DEF StepReload, LoadBytes, Named, FileOK, Slots, DiskOK, UndoOK, disk,
        undo, flags, ghost
  <2> QED BY <2>1, <2>2, <2>3, <2>4, <2>5
<1>9. CASE StepTorn
  <2>1. UndoOK'
    BY <1>0, <1>9, AppendType
    DEF StepTorn, ReloadTorn, UndoOK, disk, undo, flags, ghost
  <2>2. DiskOK'
    BY <1>0, <1>9
    DEF StepTorn, ReloadTorn, DiskOK, disk, undo, flags, ghost
  <2>3. BackupOK'
    BY <1>0, <1>9
    DEF StepTorn, ReloadTorn, BackupOK, disk, undo, flags, ghost
  <2>4. FlagsOK'
    BY <1>0, <1>9
    DEF StepTorn, ReloadTorn, FlagsOK, disk, undo, flags, ghost
  <2>5. FileOK'
    BY <1>0, <1>9
    DEF StepTorn, ReloadTorn, FileOK, Slots, disk, undo, flags, ghost
  <2> QED BY <2>1, <2>2, <2>3, <2>4, <2>5
<1>10. CASE StepStop
  BY <1>0, <1>10
  DEF StepStop, StopWatching, Idle, UndoOK, DiskOK, BackupOK, FlagsOK,
      FileOK, Slots, disk, undo, flags, ghost
<1>11. CASE StepSave
  <2>1. UndoOK'
    BY <1>0, <1>11
    DEF StepSave, SaveBytes, text, UndoOK, disk, undo, flags, ghost
  <2>2. DiskOK'
    BY <1>0, <1>11, WriteDiskType
    DEF StepSave, SaveBytes, text, DiskOK, FileOK, UndoOK, disk, undo,
        flags, ghost
  <2>3. BackupOK'
    BY <1>0, <1>11
    DEF StepSave, SaveBytes, text, BackupOK, disk, undo, flags, ghost
  <2>4. FlagsOK'
    BY <1>0, <1>11
    DEF StepSave, SaveBytes, text, FlagsOK, disk, undo, flags, ghost
  <2>5. FileOK'
    BY <1>0, <1>11
    DEF StepSave, SaveBytes, text, FileOK, Slots, DiskOK, UndoOK, disk,
        undo, flags, ghost
  <2> QED BY <2>1, <2>2, <2>3, <2>4, <2>5
<1>12. CASE StepFail
  <2>1. UndoOK'
    BY <1>0, <1>12
    DEF StepFail, SaveFails, UndoOK, disk, undo, flags, ghost
  <2>2. DiskOK'
    BY <1>0, <1>12, WriteDiskType
    DEF StepFail, SaveFails, DiskOK, FileOK, disk, undo, flags, ghost
  <2>3. BackupOK'
    BY <1>0, <1>12
    DEF StepFail, SaveFails, BackupOK, disk, undo, flags, ghost
  <2>4. FlagsOK'
    BY <1>0, <1>12
    DEF StepFail, SaveFails, FlagsOK, disk, undo, flags, ghost
  <2>5. FileOK'
    BY <1>0, <1>12
    DEF StepFail, SaveFails, FileOK, Slots, disk, undo, flags, ghost
  <2> QED BY <2>1, <2>2, <2>3, <2>4, <2>5
<1>13. CASE StepCopy
  <2>1. UndoOK'
    BY <1>0, <1>13
    DEF StepCopy, SaveCopy, text, UndoOK, disk, undo, flags, ghost
  <2>2. DiskOK'
    BY <1>0, <1>13, WriteDiskType
    DEF StepCopy, SaveCopy, text, DiskOK, FileOK, UndoOK, disk, undo,
        flags, ghost
  <2>3. BackupOK'
    BY <1>0, <1>13
    DEF StepCopy, SaveCopy, text, BackupOK, disk, undo, flags, ghost
  <2>4. FlagsOK'
    BY <1>0, <1>13
    DEF StepCopy, SaveCopy, text, FlagsOK, disk, undo, flags, ghost
  <2>5. FileOK'
    BY <1>0, <1>13
    DEF StepCopy, SaveCopy, text, FileOK, Slots, disk, undo, flags, ghost
  <2> QED BY <2>1, <2>2, <2>3, <2>4, <2>5
<1>14. CASE StepDiscard
  <2>1. Delete /\ clock' \in 1..MaxClock
    BY <1>0, <1>14 DEF StepDiscard, Discard, FileOK
  <2>2. DiskOK' /\ BackupOK'
    BY <1>0, <1>14, BackupType DEF StepDiscard, Discard, DiskOK, BackupOK,
        disk, undo, flags, ghost
  <2> QED BY <2>1, <2>2, DeleteType
<1>15. CASE LoadStat
  <2>1. UndoOK'
    BY <1>0, <1>15, RefillType
    DEF LoadStat, Stamp, Shape, UndoOK, FileOK, disk, undo, flags, ghost
  <2>2. DiskOK'
    BY <1>0, <1>15
    DEF LoadStat, Stamp, Shape, DiskOK, disk, undo, flags, ghost
  <2>3. BackupOK'
    BY <1>0, <1>15
    DEF LoadStat, Stamp, Shape, BackupOK, disk, undo, flags, ghost
  <2>4. FlagsOK'
    BY <1>0, <1>15
    DEF LoadStat, Stamp, Shape, FlagsOK, disk, undo, flags, ghost
  <2>5. FileOK'
    BY <1>0, <1>15
    DEF LoadStat, Stamp, Shape, FileOK, Slots, DiskOK, UndoOK, disk, undo,
        flags, ghost
  <2> QED BY <2>1, <2>2, <2>3, <2>4, <2>5
<1>16. CASE SaveStat
  <2>1. UndoOK'
    BY <1>0, <1>16
    DEF SaveStat, Stamp, Shape, UndoOK, disk, undo, flags, ghost
  <2>2. DiskOK'
    BY <1>0, <1>16
    DEF SaveStat, Stamp, Shape, DiskOK, disk, undo, flags, ghost
  <2>3. BackupOK'
    BY <1>0, <1>16, BackupType
    DEF SaveStat, Stamp, Shape, BackupOK, disk, undo, flags, ghost
  <2>4. FlagsOK'
    BY <1>0, <1>16
    DEF SaveStat, Stamp, Shape, FlagsOK, disk, undo, flags, ghost
  <2>5. FileOK'
    BY <1>0, <1>16
    DEF SaveStat, Stamp, Shape, FileOK, Slots, DiskOK, UndoOK, disk, undo,
        flags, ghost
  <2> QED BY <2>1, <2>2, <2>3, <2>4, <2>5
<1>17. CASE SaveStatAndClose
  <2>1. Delete /\ clock' \in 1..MaxClock
    BY <1>0, <1>17 DEF SaveStatAndClose, FileOK
  <2>2. DiskOK' /\ BackupOK'
    BY <1>0, <1>17, BackupType DEF SaveStatAndClose, DiskOK, BackupOK,
        disk, undo, flags, ghost
  <2> QED BY <2>1, <2>2, DeleteType
<1>18. CASE AutoSave
  <2>1. UndoOK'
    BY <1>0, <1>18
    DEF AutoSave, text, UndoOK, disk, undo, flags, ghost
  <2>2. DiskOK'
    BY <1>0, <1>18
    DEF AutoSave, text, DiskOK, disk, undo, flags, ghost
  <2>3. BackupOK'
    BY <1>0, <1>18, BackupType
    DEF AutoSave, text, BackupOK, UndoOK, DiskOK, disk, undo, flags, ghost
  <2>4. FlagsOK'
    BY <1>0, <1>18
    DEF AutoSave, text, FlagsOK, disk, undo, flags, ghost
  <2>5. FileOK'
    BY <1>0, <1>18
    DEF AutoSave, text, FileOK, Slots, disk, undo, flags, ghost
  <2> QED BY <2>1, <2>2, <2>3, <2>4, <2>5
<1>19. CASE Crash
  <2>1. Delete /\ clock' \in 1..MaxClock
    BY <1>0, <1>19 DEF Crash, FileOK
  <2>2. DiskOK' /\ BackupOK'
    BY <1>0, <1>19, BackupType DEF Crash, DiskOK, BackupOK, disk, undo,
        flags, ghost
  <2> QED BY <2>1, <2>2, DeleteType
<1>20. CASE StepForeign
  <2>1. UndoOK'
    BY <1>0, <1>20
    DEF StepForeign, ExternalWrite, UndoOK, disk, undo, flags, ghost
  <2>2. DiskOK'
    BY <1>0, <1>20, WriteDiskType
    DEF StepForeign, ExternalWrite, DiskOK, FileOK, disk, undo, flags, ghost
  <2>3. BackupOK'
    BY <1>0, <1>20
    DEF StepForeign, ExternalWrite, BackupOK, disk, undo, flags, ghost
  <2>4. FlagsOK'
    BY <1>0, <1>20
    DEF StepForeign, ExternalWrite, FlagsOK, disk, undo, flags, ghost
  <2>5. FileOK'
    BY <1>0, <1>20
    DEF StepForeign, ExternalWrite, FileOK, Slots, disk, undo, flags, ghost
  <2> QED BY <2>1, <2>2, <2>3, <2>4, <2>5
<1>21. CASE StepDelete
  BY <1>0, <1>21
  DEF StepDelete, ExternalDelete, UndoOK, DiskOK, BackupOK, FlagsOK, FileOK,
      Slots, disk, undo, flags, ghost
<1>22. CASE Tick
  BY <1>0, <1>22
  DEF Tick, UndoOK, DiskOK, BackupOK, FlagsOK, FileOK, Slots, disk, undo,
      flags, ghost
<1>23. CASE UNCHANGED vars
  BY <1>0, <1>23 DEF UndoOK, DiskOK, BackupOK, FlagsOK, FileOK, Slots, vars,
      disk, undo, flags, ghost
<1> QED
  BY <1>1, <1>2, <1>3, <1>4, <1>5, <1>6, <1>7, <1>8, <1>9, <1>10, <1>11,
      <1>12, <1>13, <1>14, <1>15, <1>16, <1>17, <1>18, <1>19, <1>20, <1>21,
      <1>22, <1>23 DEF Step

(***************************************************************************)
(* The other conjuncts of the inductive invariant.                         *)
(***************************************************************************)

\* A tab is blank when it is closed, and a load or save names a real file.
LEMMA ShapeStep ==
  ASSUME TypeOK, Shape, Step \/ UNCHANGED vars
  PROVE  Shape'
<1>1. CASE StepEdit \/ StepTravel \/ InsertFile \/ StepLock \/ StepTorn \/
        StepStop \/ StepFail \/ StepCopy \/ AutoSave
  BY <1>1
  DEF Shape, Idle, StepEdit, Edit, StepTravel, Travel, InsertFile,
      StepLock, SetReadOnly, StepTorn, ReloadTorn, StepStop, StopWatching,
      StepFail, SaveFails, StepCopy, SaveCopy, AutoSave
<1>2. CASE StepReload \/ StepSave \/ StepOpen
  BY <1>2
  DEF Shape, Idle, Named, StepReload, StepSave, StepOpen, Open, LoadBytes,
      SaveBytes
<1>3. CASE LoadStat \/ SaveStat
  BY <1>3
  DEF Shape, LoadStat, SaveStat
<1>4. CASE StepDiscard \/ SaveStatAndClose \/ Crash
  BY <1>4, DeleteType
  DEF Shape, TypeOK, StepDiscard, Discard, SaveStatAndClose, Crash, Blank,
      Delete, Refill
<1>5. CASE NewFile
  BY <1>5
  DEF Shape, Blank, NewFile
<1>6. CASE StepForeign \/ StepDelete
  BY <1>6, DocumentAssumption
  DEF Shape, Blank, Watched, StepForeign, ExternalWrite, StepDelete,
      ExternalDelete, disk, undo, flags, ghost
<1>7. CASE StepCreate \/ Tick \/ UNCHANGED vars
  BY <1>7
  DEF Shape, Blank, StepCreate, CreateFile, Tick, vars, disk, undo, flags,
      ghost
<1> QED
  BY <1>1, <1>2, <1>3, <1>4, <1>5, <1>6, <1>7 DEF Step

\* Nothing changes the buffer between the bytes of a save and its time stamp.
LEMMA FrozenStep ==
  ASSUME TypeOK, Shape, Step \/ UNCHANGED vars, SaveIsFrozen
  PROVE  SaveIsFrozen'
<1>1. CASE StepEdit \/ StepTravel \/ InsertFile \/ StepLock \/ StepTorn \/
        StepStop \/ StepFail \/ StepCopy \/ AutoSave \/ StepReload \/
        StepOpen \/ NewFile
  BY <1>1
  DEF SaveIsFrozen, Shape, Blank, Idle, StepEdit, Edit, StepTravel,
      Travel, InsertFile, StepLock, SetReadOnly, StepTorn, ReloadTorn,
      StepStop, StopWatching, StepFail, SaveFails, StepCopy, SaveCopy,
      AutoSave, NewFile, StepReload, StepOpen, Open, LoadBytes
<1>2. CASE StepSave
  BY <1>2
  DEF SaveIsFrozen, StepSave, SaveBytes, text, undo
<1>3. CASE LoadStat \/ SaveStat
  BY <1>3
  DEF SaveIsFrozen, LoadStat, SaveStat
<1>4. CASE StepDiscard \/ SaveStatAndClose \/ Crash
  BY <1>4
  DEF SaveIsFrozen, StepDiscard, Discard, SaveStatAndClose, Crash, Delete
<1>5. CASE StepForeign \/ StepDelete \/ StepCreate \/ Tick \/ UNCHANGED vars
  BY <1>5
  DEF SaveIsFrozen, text, StepForeign, ExternalWrite, StepDelete,
      ExternalDelete, StepCreate, CreateFile, Tick, vars, disk, undo, flags,
      ghost
<1> QED
  BY <1>1, <1>2, <1>3, <1>4, <1>5 DEF Step

\* What is on disk, and when it was written, is known until somebody else writes.
LEMMA SyncedStep ==
  ASSUME TypeOK, Shape, Step \/ UNCHANGED vars, SyncedIsOnDisk
  PROVE  SyncedIsOnDisk'
<1>1. CASE StepEdit \/ StepTravel \/ InsertFile \/ StepLock \/ StepTorn \/
        StepStop \/ AutoSave
  BY <1>1
  DEF SyncedIsOnDisk, Watched, Idle, StepEdit, Edit, StepTravel, Travel,
      InsertFile, StepLock, SetReadOnly, StepTorn, ReloadTorn, StepStop,
      StopWatching, AutoSave, disk, undo, flags, ghost
<1>2. CASE StepFail
  <2>1. PICK n \in Names : Idle /\ SaveFails(n)
    BY <1>2 DEF StepFail, SaveFails
  <2>2. UNCHANGED <<opened, pc, name, filetime, synced>>
    BY <2>1 DEF SaveFails, flags, ghost
  <2>3. n # name => UNCHANGED <<diskText[name], diskTime[name]>>
    BY <2>1 DEF SaveFails, WriteDisk, TypeOK
  <2>4. (n = name => spoilt') /\ (spoilt => spoilt') /\ (foreign => foreign')
    BY <2>1 DEF SaveFails, ghost
  <2> QED BY <2>1, <2>2, <2>3, <2>4 DEF SyncedIsOnDisk, Watched, Idle
<1>3. CASE StepCopy
  <2>1. PICK n \in Names : Idle /\ SaveCopy(n)
    BY <1>3 DEF StepCopy, SaveCopy
  <2>2. UNCHANGED <<opened, pc, name, filetime, synced>>
    BY <2>1 DEF SaveCopy, flags, ghost
  <2>3. n # name => UNCHANGED <<diskText[name], diskTime[name]>>
    BY <2>1 DEF SaveCopy, WriteDisk, TypeOK
  <2>4. (n = name => foreign') /\ (foreign => foreign') /\ (spoilt => spoilt')
    BY <2>1 DEF SaveCopy, ghost
  <2> QED BY <2>1, <2>2, <2>3, <2>4 DEF SyncedIsOnDisk, Watched, Idle
<1>4. CASE StepReload
  BY <1>4
  DEF SyncedIsOnDisk, Watched, Idle, StepReload, LoadBytes, disk, undo,
      flags, ghost
<1>5. CASE StepOpen
  BY <1>5
  DEF SyncedIsOnDisk, Watched, StepOpen, Open, LoadBytes, disk, undo,
      flags, ghost
<1>6. CASE NewFile
  BY <1>6, DocumentAssumption
  DEF SyncedIsOnDisk, Watched, Shape, Blank, NewFile, disk, undo, flags,
      ghost
<1>7. CASE StepSave
  BY <1>7
  DEF SyncedIsOnDisk, Watched, TypeOK, StepSave, SaveBytes, WriteDisk,
      disk, undo, flags, ghost
<1>8. CASE LoadStat \/ SaveStat
  BY <1>8
  DEF SyncedIsOnDisk, Watched, Stamp, LoadStat, SaveStat, disk, undo,
      flags, ghost
<1>9. CASE StepDiscard \/ SaveStatAndClose \/ Crash
  BY <1>9
  DEF SyncedIsOnDisk, Watched, StepDiscard, Discard, SaveStatAndClose,
      Crash, Delete
<1>10. CASE StepForeign \/ StepDelete
  <2>1. ASSUME NEW n \in Names,
               \/ \E t \in Texts : ExternalWrite(n, t)
               \/ ExternalDelete(n)
        PROVE  SyncedIsOnDisk'
    <3>1. /\ UNCHANGED <<opened, pc, target, name, filetime, synced, spoilt>>
          /\ foreign' = (foreign \/ n = Watched)
      BY <2>1 DEF ExternalWrite, ExternalDelete
    <3>2. \A m \in Names : m # n => /\ diskText'[m] = diskText[m]
                                    /\ diskTime'[m] = diskTime[m]
      BY <2>1 DEF ExternalWrite, ExternalDelete, WriteDisk, TypeOK
    <3>3. Watched' = Watched
      BY <3>1 DEF Watched
    <3> QED BY <3>1, <3>2, <3>3 DEF SyncedIsOnDisk, Watched
  <2> QED BY <1>10, <2>1 DEF StepForeign, StepDelete
<1>11. CASE StepCreate
  BY <1>11
  DEF SyncedIsOnDisk, Watched, StepCreate, CreateFile
<1>12. CASE Tick
  BY <1>12
  DEF SyncedIsOnDisk, Watched, Tick, disk, undo, flags, ghost
<1>13. CASE UNCHANGED vars
  BY <1>13
  DEF SyncedIsOnDisk, Watched, vars, disk, undo, flags, ghost
<1> QED
  BY <1>1, <1>2, <1>3, <1>4, <1>5, <1>6, <1>7, <1>8, <1>9, <1>10, <1>11,
     <1>12, <1>13 DEF Step

\* Scintilla's save point, if it can be reached, is the saved text.
LEMMA SavePointStep ==
  ASSUME TypeOK, Shape, Step \/ UNCHANGED vars, SaveIsFrozen, SavePointIsSaved
  PROVE  SavePointIsSaved'
<1>1. CASE StepEdit \/ InsertFile
  <2>1. (\E t \in Texts : Append(t)) \/ UNCHANGED undo
    BY <1>1 DEF StepEdit, Edit, InsertFile
  <2>2. ASSUME NEW t \in Texts, Append(t), save' >= 0
        PROVE  save >= 0 /\ hist'[save'] = hist[save]
    BY <2>2 DEF Append, TypeOK
  <2>3. UNCHANGED <<opened, pc, torn, synced>>
    BY <1>1 DEF StepEdit, Edit, InsertFile, ghost
  <2> QED BY <2>1, <2>2, <2>3 DEF SavePointIsSaved, Idle, undo
<1>2. CASE StepTravel
  BY <1>2
  DEF SavePointIsSaved, Idle, StepTravel, Travel, disk, undo, flags, ghost
<1>3. CASE StepTorn
  BY <1>3
  DEF SavePointIsSaved, StepTorn, ReloadTorn
<1>4. CASE StepLock \/ StepStop \/ AutoSave
  BY <1>4
  DEF SavePointIsSaved, Idle, StepLock, SetReadOnly, StepStop,
      StopWatching, AutoSave, disk, undo, flags, ghost
<1>5. CASE StepFail \/ StepCopy
  BY <1>5
  DEF SavePointIsSaved, Idle, StepFail, SaveFails, StepCopy, SaveCopy,
      disk, undo, flags, ghost
<1>6. CASE StepForeign \/ StepDelete
  BY <1>6
  DEF SavePointIsSaved, Idle, StepForeign, ExternalWrite, StepDelete,
      ExternalDelete, disk, undo, flags, ghost
<1>7. CASE StepCreate \/ Tick
  BY <1>7
  DEF SavePointIsSaved, Idle, StepCreate, CreateFile, Tick, disk, undo,
      flags, ghost
<1>8. CASE UNCHANGED vars
  BY <1>8
  DEF SavePointIsSaved, Idle, vars, disk, undo, flags, ghost
<1>9. CASE NewFile
  BY <1>9, DocumentAssumption
  DEF SavePointIsSaved, Shape, Blank, NewFile, disk, undo, flags, ghost
<1>10. CASE LoadStat
  BY <1>10, DocumentAssumption
  DEF SavePointIsSaved, LoadStat, Refill
<1>11. CASE SaveStat
  BY <1>11
  DEF SavePointIsSaved, SaveIsFrozen, text, SaveStat
<1>12. CASE StepReload \/ StepSave \/ StepOpen \/ StepDiscard \/
        SaveStatAndClose \/ Crash
  BY <1>12
  DEF SavePointIsSaved, Idle, StepReload, StepSave, StepOpen, Open,
      LoadBytes, SaveBytes, StepDiscard, Discard, SaveStatAndClose, Crash,
      Delete
<1> QED
  BY <1>1, <1>2, <1>3, <1>4, <1>5, <1>6, <1>7, <1>8, <1>9, <1>10, <1>11,
     <1>12 DEF Step

\* The flag is cleared only at the save point, and set when it is left.
LEMMA CleanStep ==
  ASSUME TypeOK, Shape, Step \/ UNCHANGED vars, CleanIsAtSavePoint
  PROVE  CleanIsAtSavePoint'
<1>1. CASE StepEdit \/ InsertFile
  BY <1>1
  DEF CleanIsAtSavePoint, AtSavePoint, TypeOK, Idle, StepEdit, Edit,
      InsertFile, disk, undo, flags, ghost
<1>2. CASE StepTravel
  BY <1>2
  DEF CleanIsAtSavePoint, AtSavePoint, TypeOK, Idle, StepTravel, Travel,
      Notify, disk, undo, flags, ghost
<1>3. CASE StepTorn
  BY <1>3
  DEF CleanIsAtSavePoint, AtSavePoint, StepTorn, ReloadTorn
<1>4. CASE StepLock \/ StepStop \/ AutoSave
  BY <1>4
  DEF CleanIsAtSavePoint, AtSavePoint, Idle, StepLock, SetReadOnly,
      StepStop, StopWatching, AutoSave, disk, undo, flags, ghost
<1>5. CASE StepFail \/ StepCopy
  BY <1>5
  DEF CleanIsAtSavePoint, AtSavePoint, Idle, StepFail, SaveFails,
      StepCopy, SaveCopy, disk, undo, flags, ghost
<1>6. CASE StepForeign \/ StepDelete
  BY <1>6
  DEF CleanIsAtSavePoint, AtSavePoint, Idle, StepForeign, ExternalWrite,
      StepDelete, ExternalDelete, disk, undo, flags, ghost
<1>7. CASE StepCreate \/ Tick
  BY <1>7
  DEF CleanIsAtSavePoint, AtSavePoint, Idle, StepCreate, CreateFile, Tick,
      disk, undo, flags, ghost
<1>8. CASE UNCHANGED vars
  BY <1>8
  DEF CleanIsAtSavePoint, AtSavePoint, Idle, vars, disk, undo, flags,
      ghost
<1>9. CASE NewFile
  BY <1>9
  DEF CleanIsAtSavePoint, AtSavePoint, Shape, Blank, NewFile, disk, undo,
      flags, ghost
<1>10. CASE LoadStat
  BY <1>10
  DEF CleanIsAtSavePoint, AtSavePoint, LoadStat, Refill
<1>11. CASE SaveStat
  BY <1>11
  DEF CleanIsAtSavePoint, AtSavePoint, SaveStat
<1>12. CASE StepReload \/ StepSave \/ StepOpen \/ StepDiscard \/
        SaveStatAndClose \/ Crash
  BY <1>12
  DEF CleanIsAtSavePoint, AtSavePoint, Idle, StepReload, StepSave,
      StepOpen, Open, LoadBytes, SaveBytes, StepDiscard, Discard,
      SaveStatAndClose, Crash, Delete
<1> QED
  BY <1>1, <1>2, <1>3, <1>4, <1>5, <1>6, <1>7, <1>8, <1>9, <1>10, <1>11,
     <1>12 DEF Step

LockedOK == opened /\ readonly => ~dirty

\* A document is locked only while it is unmodified, and cannot be modified then.
LEMMA LockedStep ==
  ASSUME TypeOK, Shape, Step \/ UNCHANGED vars, LockedOK
  PROVE  LockedOK'
<1>1. CASE StepEdit \/ StepTravel \/ InsertFile
  BY <1>1
  DEF LockedOK, Idle, StepEdit, Edit, StepTravel, Travel, InsertFile
<1>2. CASE StepLock
  BY <1>2
  DEF LockedOK, StepLock, SetReadOnly, MayLock
<1>3. CASE StepOpen \/ NewFile
  BY <1>3
  DEF LockedOK, Shape, Blank, StepOpen, Open, LoadBytes, NewFile, flags
<1>4. CASE LoadStat \/ SaveStat
  BY <1>4
  DEF LockedOK, LoadStat, SaveStat
<1>5. CASE StepDiscard \/ SaveStatAndClose \/ Crash
  BY <1>5
  DEF LockedOK, StepDiscard, Discard, SaveStatAndClose, Crash, Delete
<1>6. CASE StepTorn \/ StepReload \/ StepSave
  BY <1>6
  DEF LockedOK, StepTorn, ReloadTorn, StepReload, LoadBytes, StepSave,
      SaveBytes, flags
<1>7. CASE StepStop \/ StepFail \/ StepCopy \/ AutoSave \/ StepForeign \/
        StepDelete \/ StepCreate \/ Tick \/ UNCHANGED vars
  BY <1>7
  DEF LockedOK, StepStop, StopWatching, StepFail, SaveFails, StepCopy,
      SaveCopy, AutoSave, StepForeign, ExternalWrite, StepDelete,
      ExternalDelete, StepCreate, CreateFile, Tick, vars, disk, undo, flags,
      ghost
<1> QED
  BY <1>1, <1>2, <1>3, <1>4, <1>5, <1>6, <1>7 DEF Step

\* An unmodified document holds the saved text: it is at the save point.
LEMMA CleanText ==
  ASSUME TypeOK, SavePointIsSaved, CleanIsAtSavePoint
  PROVE  CleanMeansSaved
BY DocumentAssumption
DEF TypeOK, SavePointIsSaved, CleanIsAtSavePoint, AtSavePoint,
    CleanMeansSaved, text

\* The backup of a modified document is removed or outdated only together with the
\* modification.
LEMMA BackupStep ==
  ASSUME TypeOK, Shape, Step \/ UNCHANGED vars, CleanMeansSaved, BackupIsCurrent
  PROVE  BackupIsCurrent'
<1>1. CASE StepEdit
  BY <1>1
  DEF BackupIsCurrent, text, StepEdit, Edit
<1>2. CASE InsertFile
  <2>1. CASE needBackup' = TRUE
    BY <2>1 DEF BackupIsCurrent
  <2>2. CASE UNCHANGED <<undo, needBackup>>
    <3>1. UNCHANGED <<opened, pc, name, hist, cur, needBackup, backup, synced, torn>>
      BY <1>2, <2>2 DEF InsertFile, undo, ghost
    <3>2. Idle /\ ~dirty /\ ~torn => text = synced
      BY DEF CleanMeansSaved
    <3> QED BY <1>2, <3>1, <3>2 DEF InsertFile, BackupIsCurrent, Idle, text
  <2> QED BY <1>2, <2>1, <2>2 DEF InsertFile
<1>3. CASE StepTravel
  BY <1>3
  DEF BackupIsCurrent, text, StepTravel, Travel, Notify
<1>4. CASE StepTorn
  BY <1>4
  DEF BackupIsCurrent, text, StepTorn, ReloadTorn
<1>5. CASE AutoSave
  BY <1>5
  DEF BackupIsCurrent, text, TypeOK, AutoSave, NeedsSaving, disk, undo,
      flags, ghost
<1>6. CASE LoadStat \/ SaveStat
  BY <1>6
  DEF BackupIsCurrent, text, LoadStat, SaveStat
<1>7. CASE NewFile
  BY <1>7
  DEF BackupIsCurrent, text, Shape, Blank, NewFile, flags
<1>8. CASE StepLock \/ StepStop
  BY <1>8
  DEF BackupIsCurrent, text, Idle, StepLock, SetReadOnly, StepStop,
      StopWatching, disk, undo, flags, ghost
<1>9. CASE StepFail \/ StepCopy
  BY <1>9
  DEF BackupIsCurrent, text, Idle, StepFail, SaveFails, StepCopy,
      SaveCopy, disk, undo, flags, ghost
<1>10. CASE StepForeign \/ StepDelete
  BY <1>10
  DEF BackupIsCurrent, text, Idle, StepForeign, ExternalWrite, StepDelete,
      ExternalDelete, disk, undo, flags, ghost
<1>11. CASE StepCreate \/ Tick
  BY <1>11
  DEF BackupIsCurrent, text, Idle, StepCreate, CreateFile, Tick, disk,
      undo, flags, ghost
<1>12. CASE UNCHANGED vars
  BY <1>12
  DEF BackupIsCurrent, text, Idle, vars, disk, undo, flags, ghost
<1>13. CASE StepReload \/ StepSave \/ StepOpen \/ StepDiscard \/
        SaveStatAndClose \/ Crash
  BY <1>13
  DEF BackupIsCurrent, text, Idle, StepReload, StepSave, StepOpen, Open,
      LoadBytes, SaveBytes, StepDiscard, Discard, SaveStatAndClose, Crash,
      Delete
<1> QED
  BY <1>1, <1>2, <1>3, <1>4, <1>5, <1>6, <1>7, <1>8, <1>9, <1>10, <1>11,
     <1>12, <1>13 DEF Step

\* A time stamp is at most what the clock shows when it is taken or made.
LEMMA TimesStep ==
  ASSUME TypeOK, Shape, Step \/ UNCHANGED vars, TimesArePast
  PROVE  TimesArePast'
<1>0. /\ filetime \in Int /\ since \in Int /\ clock \in Int /\ clock > 0
      /\ diskTime \in [Names -> Int]
  BY DocumentAssumption DEF TypeOK
<1>1. CASE LoadStat \/ SaveStat
  <2>1. target \in Names
    BY <1>1 DEF Shape, LoadStat, SaveStat
  <2>2. filetime' = diskTime[target] /\ since' = clock /\ UNCHANGED <<clock, diskTime>>
    BY <1>1 DEF LoadStat, SaveStat, Stamp, disk
  <2> QED BY <1>0, <2>1, <2>2 DEF TimesArePast
<1>2. CASE StepDiscard \/ SaveStatAndClose \/ Crash
  <2>1. filetime' = 0 /\ since' = 0 /\ UNCHANGED <<clock, diskTime>>
    BY <1>2 DEF StepDiscard, Discard, SaveStatAndClose, Crash, Delete, disk
  <2> QED BY <1>0, <2>1 DEF TimesArePast
<1>3. CASE StepFail \/ StepCopy \/ StepSave \/ StepForeign \/ StepDelete \/ StepCreate
  <2>1. UNCHANGED <<filetime, since, clock>>
    BY <1>3 DEF StepFail, SaveFails, StepCopy, SaveCopy, StepSave, SaveBytes,
       StepForeign, ExternalWrite, StepDelete, ExternalDelete, StepCreate, CreateFile,
       ghost
  <2>2. \E n \in Names, time \in {0, clock} : diskTime' = [diskTime EXCEPT ![n] = time]
    BY <1>3 DEF StepFail, SaveFails, StepCopy, SaveCopy, StepSave, SaveBytes,
       StepForeign, ExternalWrite, StepDelete, ExternalDelete, StepCreate, CreateFile,
       WriteDisk
  <2> QED BY <1>0, <2>1, <2>2 DEF TimesArePast
<1>4. CASE Tick
  <2>1. clock' = clock + 1 /\ UNCHANGED <<filetime, since, diskTime>>
    BY <1>4 DEF Tick, disk, ghost
  <2> QED BY <1>0, <2>1 DEF TimesArePast
<1>5. CASE NewFile \/ StepOpen \/ StepEdit \/ StepTravel \/ InsertFile \/ StepLock
           \/ StepReload \/ StepTorn \/ StepStop \/ AutoSave \/ UNCHANGED vars
  <2>1. UNCHANGED <<filetime, since, clock, diskTime>>
    BY <1>5 DEF NewFile, StepOpen, Open, LoadBytes, StepEdit, Edit, StepTravel, Travel,
       InsertFile, StepLock, SetReadOnly, StepReload, StepTorn, ReloadTorn, StepStop,
       StopWatching, AutoSave, vars, disk, ghost
  <2> QED BY <2>1 DEF TimesArePast
<1> QED BY <1>1, <1>2, <1>3, <1>4, <1>5 DEF Step

(***************************************************************************)
(* The theorems.                                                           *)
(***************************************************************************)

LEMMA InitInv == Init => IInv
<1> SUFFICES ASSUME Init PROVE IInv
  OBVIOUS
<1> USE DocumentAssumption
<1>1. UndoOK /\ FlagsOK /\ FileOK
  <2>1. UndoOK
    BY DEF Init, Blank, UndoOK
  <2>2. FlagsOK
    BY DEF Init, Blank, FlagsOK
  <2>3. FileOK
    BY DEF Init, Blank, FileOK, Slots
  <2> QED BY <2>1, <2>2, <2>3
<1>2. DiskOK
  BY DEF Init, DiskOK
<1>3. BackupOK
  BY DEF Init, BackupOK
<1>4. TypeOK
  BY <1>1, <1>2, <1>3, TypeParts
<1>5. TimesArePast
  BY DEF Init, Blank, TimesArePast
<1> QED
  BY <1>4, <1>5 DEF Init, Blank, IInv, Shape, SaveIsFrozen, SyncedIsOnDisk, Watched,
     SavePointIsSaved, CleanIsAtSavePoint, BackupIsCurrent, Idle

LEMMA NextInv == IInv /\ [Next]_vars => IInv'
<1> SUFFICES ASSUME IInv, [Next]_vars PROVE IInv'
  OBVIOUS
<1>1. Step \/ UNCHANGED vars
  BY StepCases DEF IInv
<1>2. TypeOK' /\ Shape'
  BY <1>1, TypeStep, ShapeStep DEF IInv
<1>3. SaveIsFrozen' /\ SyncedIsOnDisk'
  BY <1>1, FrozenStep, SyncedStep DEF IInv
<1>4. SavePointIsSaved' /\ CleanIsAtSavePoint'
  BY <1>1, SavePointStep, CleanStep DEF IInv
<1>5. LockedOK'
  BY <1>1, LockedStep DEF IInv, LockedOK
<1>6. BackupIsCurrent'
  BY <1>1, CleanText, BackupStep DEF IInv
<1>7. TimesArePast'
  BY <1>1, TimesStep DEF IInv
<1> QED
  BY <1>2, <1>3, <1>4, <1>5, <1>6, <1>7 DEF IInv, LockedOK

\* In every reachable state the flag, the save point, the text that was last
\* loaded or saved, the file and the backup are related as IInv says.
THEOREM Invariance == Spec => []IInv
BY InitInv, NextInv, PTL DEF Spec

\* The variables have their types: no load, save or close leaves one undefined.
THEOREM TypeCorrect == Spec => []TypeOK
<1>1. IInv => TypeOK
  BY DEF IInv
<1> QED BY <1>1, Invariance, PTL

\* A document that would be closed without a question holds what was loaded or
\* saved last, unless a reload failed half way.
THEOREM CleanMeansSavedHolds == Spec => []CleanMeansSaved
<1>1. IInv => CleanMeansSaved
  BY CleanText DEF IInv
<1> QED BY <1>1, Invariance, PTL

\* ... and is what its file contains, unless somebody else wrote the file.
THEOREM CleanIsOnDiskHolds == Spec => []CleanIsOnDisk
<1>1. IInv => CleanIsOnDisk
  BY CleanText
  DEF IInv, CleanMeansSaved, CleanIsOnDisk, SyncedIsOnDisk, Idle, Named, Watched
<1> QED BY <1>1, Invariance, PTL

\* When the timer has nothing to save, the backup or the file has the text.
THEOREM BackupIsCurrentHolds == Spec => []BackupIsCurrent
<1>1. IInv => BackupIsCurrent
  BY DEF IInv
<1> QED BY <1>1, Invariance, PTL

\* A locked document has no unsaved changes.
THEOREM LockedIsCleanHolds == Spec => []LockedIsClean
<1>1. IInv => LockedIsClean
  BY CleanText DEF IInv, LockedIsClean, CleanMeansSaved, Idle
<1> QED BY <1>1, Invariance, PTL

\* An external change is reported only when the file was written by somebody
\* else or by a failed save.
THEOREM NoFalseAlarmHolds == Spec => []NoFalseAlarm
<1>1. IInv => NoFalseAlarm
  BY DEF IInv, NoFalseAlarm, SyncedIsOnDisk, Idle, Named, Watched, Stale
<1> QED BY <1>1, Invariance, PTL

\* What is written to a file after its time stamp was taken is reported, however
\* loads, saves, failed saves and the clock come in between.
THEOREM ForeignIsNoticedHolds == Spec => []ForeignIsNoticed
<1>1. ASSUME IInv, Idle, Named, watch, diskText[name] # NoText, diskTime[name] > since
      PROVE  Stale = 1
  <2>1. /\ filetime <= since /\ filetime \in Int /\ since \in Int
        /\ diskTime[name] \in Int
    BY <1>1, DocumentAssumption DEF IInv, TimesArePast, TypeOK, Named
  <2>2. diskTime[name] # filetime
    BY <1>1, <2>1
  <2> QED BY <1>1, <2>2, Zenon DEF Stale
<1>2. IInv => ForeignIsNoticed
  BY <1>1 DEF ForeignIsNoticed
<1> QED BY <1>2, Invariance, PTL

\* Undo and redo reach the save point only where the saved text is restored.
THEOREM SavePointIsSavedHolds == Spec => []SavePointIsSaved
<1>1. IInv => SavePointIsSaved
  BY DEF IInv
<1> QED BY <1>1, Invariance, PTL

\* No reload is ever half done when reads and writes do not fail half way.
LEMMA NeverTorn == ASSUME ~IOFaults PROVE Spec => []~torn
<1>1. Init => ~torn
  BY DEF Init, Blank
<1>2. ~torn /\ IInv /\ [Next]_vars => ~torn'
  <2> SUFFICES ASSUME ~torn, IInv, [Next]_vars PROVE ~torn'
    OBVIOUS
  <2>1. Step \/ UNCHANGED vars
    BY StepCases DEF IInv
  <2>2. CASE StepTorn
    BY <2>2 DEF StepTorn, ReloadTorn
  <2>3. CASE StepDiscard \/ SaveStatAndClose \/ Crash
    BY <2>3 DEF StepDiscard, Discard, SaveStatAndClose, Crash, Delete
  <2>4. CASE NewFile \/ StepOpen \/ StepCreate \/ StepEdit \/ StepTravel
             \/ InsertFile \/ StepLock \/ StepReload \/ StepStop
    BY <2>4 DEF NewFile, StepOpen, Open, LoadBytes, StepCreate, CreateFile,
       StepEdit, Edit, StepTravel, Travel, InsertFile, StepLock, SetReadOnly,
       StepReload, StepStop, StopWatching, ghost
  <2>5. CASE StepSave \/ StepFail \/ StepCopy \/ LoadStat \/ SaveStat \/ AutoSave
             \/ StepForeign \/ StepDelete \/ Tick \/ UNCHANGED vars
    BY <2>5 DEF StepSave, SaveBytes, StepFail, SaveFails, StepCopy, SaveCopy,
       LoadStat, SaveStat, AutoSave, StepForeign, ExternalWrite, StepDelete,
       ExternalDelete, Tick, vars, ghost
  <2> QED BY <2>1, <2>2, <2>3, <2>4, <2>5 DEF Step
<1> QED BY <1>1, <1>2, Invariance, PTL DEF Spec

\* ... and then every edit leaves its document marked as modified.
THEOREM EditIsMarkedHolds == ASSUME ~IOFaults PROVE Spec => EditIsMarked
<1>1. IInv /\ ~torn /\ [Next]_vars => [(\E t \in Texts : Edit(t)) => dirty']_vars
  BY DEF IInv, CleanIsAtSavePoint, AtSavePoint, Edit
<1> QED BY <1>1, Invariance, NeverTorn, PTL DEF Spec, EditIsMarked

=============================================================================
