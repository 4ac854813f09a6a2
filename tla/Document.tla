------------------------------ MODULE Document ------------------------------
(***************************************************************************)
(* One tab of the editor: the text buffer of a SciDoc with Scintilla's     *)
(* undo history and save point, the flags SciDoc keeps about it, the files *)
(* on disk, the crash backups of BackupMgr, and other programs that write  *)
(* the same files.                                                         *)
(*                                                                         *)
(* A text is a value of Texts.  The undo history is the array of the texts *)
(* the buffer went through; how Scintilla groups several of them into one  *)
(* undo step is left open (Undo and Redo may cross any number of them).    *)
(* A load and a save are two steps, because the modification time of the   *)
(* file is read after its bytes have been read or written and another      *)
(* program may write in between.                                           *)
(***************************************************************************)
EXTENDS Integers

CONSTANTS
    Texts,      \* what a buffer, a file or a backup can contain
    Names,      \* file names
    NoName,     \* the name of an untitled document
    NoText,     \* "there is no such file"
    Empty,      \* the text of a new document or file
    MaxUndo,    \* bound: steps the undo history can hold
    MaxClock,   \* bound: ticks of the file system's clock
    IOFaults    \* may reading and writing files fail half way?

ASSUME DocumentAssumption ==
    /\ NoName \notin Names
    /\ NoText \notin Texts
    /\ Empty \in Texts
    /\ MaxUndo \in Nat
    /\ MaxClock \in Nat \ {0}
    /\ IOFaults \in BOOLEAN

Slots == Names \cup {NoName}    \* a backup is kept per name, or for "untitled"

VARIABLES
    opened,     \* is there a tab
    pc,         \* "idle", or between the bytes and the time stamp of a file
    target,     \* the file being loaded or saved while pc is not "idle"
    name,       \* SciDoc::_filename
    hist,       \* UndoHistory::actions: hist[i] is the text after i actions
    cur,        \* UndoHistory::currentAction
    last,       \* UndoHistory::maxAction
    save,       \* UndoHistory::savePoint, -1 when it cannot be reached
    dirty,      \* SciDoc::_dirty
    needBackup, \* SciDoc::need_backup
    watch,      \* SciDoc::check_stale
    readonly,   \* Scintilla's read-only flag
    filetime,   \* SciDoc::_filetime
    diskText,   \* the bytes of every file, NoText if it does not exist
    diskTime,   \* its modification time, 0 if it does not exist
    clock,      \* the file system's clock
    backup,     \* the files below backups.d
    synced,     \* history: the text last loaded from or saved to `name'
    torn,       \* history: a reload stopped half way since then
    since,      \* history: the clock when `filetime' was taken
    foreign,    \* history: `name' was written by something else since then
    spoilt      \* history: our own save of `name' failed since then

disk  == <<diskText, diskTime>>
undo  == <<hist, cur, last, save>>
flags == <<dirty, needBackup, watch, readonly>>
ghost == <<synced, torn, since, foreign, spoilt>>
vars  == <<opened, pc, target, name, undo, flags, filetime, disk, clock,
           backup, ghost>>

text == hist[cur]
Named == name \in Names
Idle == opened /\ pc = "idle"
AtSavePoint == save = cur

TypeOK ==
    /\ opened \in BOOLEAN
    /\ pc \in {"idle", "loaded", "opening", "written", "closing"}
    /\ target \in Slots
    /\ name \in Slots
    /\ hist \in [0..MaxUndo -> Texts]
    /\ cur \in 0..MaxUndo
    /\ last \in 0..MaxUndo
    /\ save \in -1..MaxUndo
    /\ dirty \in BOOLEAN
    /\ needBackup \in BOOLEAN
    /\ watch \in BOOLEAN
    /\ readonly \in BOOLEAN
    /\ filetime \in 0..MaxClock
    /\ diskText \in [Names -> Texts \cup {NoText}]
    /\ diskTime \in [Names -> 0..MaxClock]
    /\ clock \in 1..MaxClock
    /\ backup \in [Slots -> Texts \cup {NoText}]
    /\ synced \in Texts
    /\ torn \in BOOLEAN
    /\ since \in 0..MaxClock
    /\ foreign \in BOOLEAN
    /\ spoilt \in BOOLEAN

(***************************************************************************)
(* Scintilla: the buffer and its save point.                               *)
(***************************************************************************)

\* Mutated Append: a save point in the cut off future is kept.
AppendKeepsSavePoint(t) ==
    /\ cur < MaxUndo
    /\ hist' = [i \in 0..MaxUndo |-> IF i <= cur THEN hist[i] ELSE t]
    /\ cur' = cur + 1
    /\ last' = cur + 1
    /\ save' = save

\* AppendAction: what follows the current action is cut off, and a save point
\* that was there can no longer be reached.
Append(t) ==
    /\ cur < MaxUndo
    /\ hist' = [i \in 0..MaxUndo |-> IF i <= cur THEN hist[i] ELSE t]
    /\ cur' = cur + 1
    /\ last' = cur + 1
    /\ save' = IF cur < save THEN -1 ELSE save

\* Mutated Refill: the save point of the old history is kept.
RefillKeepsSavePoint(t) ==
    /\ hist' = [i \in 0..MaxUndo |-> t]
    /\ cur' = 0
    /\ last' = 0
    /\ save' = save

\* SCI_EMPTYUNDOBUFFER after the buffer was filled with t.
Refill(t) ==
    /\ hist' = [i \in 0..MaxUndo |-> t]
    /\ cur' = 0
    /\ last' = 0
    /\ save' = 0

\* BackupMgr::RemoveBackup of a document called n.
Unbacked(n) ==
    [s \in Slots |-> IF s \in {n, NoName} THEN NoText ELSE backup[s]]

\* Mutated Notify: the backup is removed whenever the save point is crossed.
NotifyRemoves(c) ==
    \/ save = c /\ dirty' = FALSE /\ needBackup' = FALSE /\ backup' = Unbacked(name)
    \/ /\ save # c /\ save = cur
       /\ dirty' = TRUE /\ needBackup' = FALSE /\ backup' = Unbacked(name)
    \/ save \notin {c, cur} /\ needBackup' = TRUE /\ UNCHANGED <<dirty, backup>>

\* TopWindow::onScintillaCmd after Undo or Redo moved the current action:
\* SCN_MODIFIED, then SCN_SAVEPOINTREACHED or SCN_SAVEPOINTLEFT if that changed.
Notify(c) ==
    \/ save = c /\ dirty' = FALSE /\ needBackup' = FALSE /\ backup' = Unbacked(name)
    \/ save # c /\ save = cur /\ dirty' = TRUE /\ needBackup' = TRUE /\ UNCHANGED backup
    \/ save \notin {c, cur} /\ needBackup' = TRUE /\ UNCHANGED <<dirty, backup>>

\* The fields of a SciDoc as its constructor and NewSci leave them; without a
\* tab they are in this state too.
Blank ==
    /\ pc = "idle"
    /\ target = NoName
    /\ name = NoName
    /\ hist = [i \in 0..MaxUndo |-> Empty]
    /\ cur = 0 /\ last = 0 /\ save = 0
    /\ dirty = FALSE /\ needBackup = FALSE /\ watch = TRUE /\ readonly = FALSE
    /\ filetime = 0
    /\ synced = Empty /\ since = 0
    /\ torn = FALSE /\ foreign = FALSE /\ spoilt = FALSE

\* SciDocUtils::DoneSci
Delete ==
    /\ opened' = FALSE
    /\ pc' = "idle"
    /\ target' = NoName
    /\ name' = NoName
    /\ Refill(Empty)
    /\ dirty' = FALSE /\ needBackup' = FALSE /\ watch' = TRUE /\ readonly' = FALSE
    /\ filetime' = 0
    /\ synced' = Empty /\ since' = 0
    /\ torn' = FALSE /\ foreign' = FALSE /\ spoilt' = FALSE

(***************************************************************************)
(* Editing.                                                                *)
(***************************************************************************)

Edit(t) ==
    /\ Idle
    /\ ~readonly
    /\ Append(t)
    /\ dirty' = (dirty \/ AtSavePoint)
    /\ needBackup' = TRUE
    /\ UNCHANGED <<opened, pc, target, name, watch, readonly, filetime, disk,
                   clock, backup, ghost>>

Travel(c) ==
    /\ Idle
    /\ ~readonly
    /\ cur' = c
    /\ Notify(c)
    /\ UNCHANGED <<opened, pc, target, name, hist, last, save, watch, readonly,
                   filetime, disk, clock, ghost>>

Undo == \E c \in 0..cur - 1 : Travel(c)
Redo == \E c \in cur + 1..last : Travel(c)

\* SciDoc::InsertFile: _dirty is set by the first block, even an empty one, and
\* stays set; the text then inserted notifies like typing.
InsertFile ==
    /\ Idle
    /\ ~readonly
    /\ dirty' = TRUE
    /\ \/ UNCHANGED <<undo, needBackup>>
       \/ needBackup' = TRUE /\ \E t \in Texts : Append(t)
    /\ UNCHANGED <<opened, pc, target, name, watch, readonly, filetime, disk,
                   clock, backup, ghost>>

\* TopWindowBase::SetReadOnly refuses to lock a modified document.
MayLock(rdonly) == ~(rdonly /\ dirty)

SetReadOnly(rdonly) ==
    /\ Idle
    /\ MayLock(rdonly)
    /\ readonly' = rdonly
    /\ UNCHANGED <<opened, pc, target, name, undo, dirty, needBackup, watch,
                   filetime, disk, clock, backup, ghost>>

(***************************************************************************)
(* Loading: DoLoadFromFile reads the bytes, then FXStat::modified.         *)
(***************************************************************************)

\* Mutated Stamp: the time stamp is not taken again.
StampKept(n) == filetime

\* FXStat::modified
Stamp(n) == diskTime[n]

\* The bytes of an existing file n; `then' tells what LoadStat has to do.
LoadBytes(n, then) ==
    /\ diskText[n] # NoText
    /\ pc' = then
    /\ target' = n
    /\ synced' = diskText[n]
    /\ foreign' = FALSE
    /\ spoilt' = FALSE
    /\ UNCHANGED <<name, undo, dirty, needBackup, watch, filetime, disk, clock,
                   torn, since>>

\* The rest of a successful load.  Notifications are ignored while _loading.
LoadStat ==
    /\ opened
    /\ pc \in {"loaded", "opening"}
    /\ pc' = "idle"
    /\ name' = target
    /\ filetime' = Stamp(target)
    /\ since' = clock
    /\ dirty' = FALSE
    /\ needBackup' = FALSE
    /\ watch' = TRUE
    /\ torn' = FALSE
    /\ Refill(synced)
    /\ target' = NoName
    /\ UNCHANGED <<opened, readonly, disk, clock, backup, synced, foreign, spoilt>>

\* A new tab in which n is being loaded.  Its slot for backups as "untitled"
\* is a new one: it is made of the process id and the widget id.
Open(n, rdonly) ==
    /\ ~opened
    /\ opened' = TRUE
    /\ LoadBytes(n, "opening")
    /\ readonly' = rdonly
    /\ backup' = [backup EXCEPT ![NoName] = NoText]

NewFile ==
    /\ ~opened
    /\ opened' = TRUE
    /\ backup' = [backup EXCEPT ![NoName] = NoText]
    /\ UNCHANGED <<pc, target, name, undo, flags, filetime, disk, clock, ghost>>

\* FileExistsOrConfirmCreate, answered with yes.
CreateFile(n) ==
    /\ ~opened
    /\ diskText[n] = NoText
    /\ diskText' = [diskText EXCEPT ![n] = Empty]
    /\ diskTime' = [diskTime EXCEPT ![n] = clock]
    /\ UNCHANGED <<opened, pc, target, name, undo, flags, filetime, clock,
                   backup, ghost>>

\* readBlock failed after SCI_CLEARALL: the buffer holds what had been read,
\* the undo history and the flags are those of before.
ReloadTorn ==
    /\ IOFaults
    /\ diskText[name] # NoText
    /\ \E t \in Texts : Append(t)
    /\ torn' = TRUE
    /\ UNCHANGED <<opened, pc, target, name, dirty, needBackup, readonly,
                   filetime, disk, clock, backup, synced, since, foreign, spoilt>>

\* TopWindowBase::AskReload, answered with yes.
Reload ==
    /\ Idle
    /\ Named
    /\ \/ LoadBytes(name, "loaded") /\ UNCHANGED <<opened, readonly, backup>>
       \/ ReloadTorn /\ UNCHANGED watch

(***************************************************************************)
(* Saving: SaveToFile truncates and writes, then FXStat::modified.         *)
(***************************************************************************)

\* Mutated WriteDisk: the bytes do not reach the file.
WriteDiskNothing(n, t) ==
    /\ diskTime' = [diskTime EXCEPT ![n] = clock]
    /\ UNCHANGED diskText

WriteDisk(n, t) ==
    /\ diskText' = [diskText EXCEPT ![n] = t]
    /\ diskTime' = [diskTime EXCEPT ![n] = clock]

SaveBytes(n, then) ==
    /\ WriteDisk(n, text)
    /\ pc' = then
    /\ target' = n
    /\ synced' = text
    /\ foreign' = FALSE
    /\ spoilt' = FALSE
    /\ UNCHANGED <<opened, name, undo, flags, filetime, clock, backup, torn, since>>

\* A write that failed: the file is cut short, nothing else has happened.
SaveFails(n) ==
    /\ IOFaults
    /\ \E t \in Texts : WriteDisk(n, t)
    /\ spoilt' = (spoilt \/ n = name)
    /\ UNCHANGED <<opened, pc, target, name, undo, flags, filetime, clock,
                   backup, synced, torn, since, foreign>>

\* The rest of a successful save: SCI_SETSAVEPOINT notifies SAVEPOINTREACHED.
SaveStat ==
    /\ opened
    /\ pc = "written"
    /\ pc' = "idle"
    /\ name' = target
    /\ target' = NoName
    /\ filetime' = Stamp(target)
    /\ since' = clock
    /\ save' = cur
    /\ dirty' = FALSE
    /\ needBackup' = FALSE
    /\ backup' = Unbacked(target)
    /\ watch' = TRUE
    /\ torn' = FALSE
    /\ UNCHANGED <<opened, hist, cur, last, readonly, disk, clock, synced,
                   foreign, spoilt>>

\* The same when TryClose asked for the save: the tab is closed after it.
SaveStatAndClose ==
    /\ opened
    /\ pc = "closing"
    /\ Delete
    /\ backup' = Unbacked(target)
    /\ UNCHANGED <<disk, clock>>

Save(n, then) == SaveBytes(n, then) \/ SaveFails(n)

SaveFile == Idle /\ Named /\ Save(name, "written")

SaveFileAs(n) == Idle /\ Save(n, "written")

\* "Save a copy": SaveToFile with as_itself false.
SaveCopy(n) ==
    /\ Idle
    /\ \E t \in IF IOFaults THEN Texts ELSE {text} : WriteDisk(n, t)
    /\ foreign' = (foreign \/ n = name)
    /\ UNCHANGED <<opened, pc, target, name, undo, flags, filetime, clock,
                   backup, synced, torn, since, spoilt>>

(***************************************************************************)
(* Watching for changes made by other programs.                            *)
(***************************************************************************)

\* Mutated Stale: only a file that became older is stale.
StaleOlder ==
    IF ~watch \/ ~Named THEN 0
    ELSE IF diskText[name] = NoText THEN 2
    ELSE IF diskTime[name] < filetime THEN 1
    ELSE 0

\* SciDoc::Stale: 0 up to date, 1 modified, 2 missing
Stale ==
    IF ~watch \/ ~Named THEN 0
    ELSE IF diskText[name] = NoText THEN 2
    ELSE IF diskTime[name] # filetime THEN 1
    ELSE 0

\* A question answered with no, or a reload that could not be done, stops the
\* watch until the next load or save.
StopWatching ==
    /\ watch' = FALSE
    /\ UNCHANGED <<opened, pc, target, name, undo, dirty, needBackup, readonly,
                   filetime, disk, clock, backup, ghost>>

CheckStale ==
    /\ Idle
    /\ \/ /\ Stale = 1
          /\ \/ LoadBytes(name, "loaded") /\ UNCHANGED <<opened, readonly, backup>>
             \/ ReloadTorn /\ watch' = FALSE
             \/ StopWatching
       \/ /\ Stale = 2
          /\ \/ Save(name, "written")
             \/ StopWatching

(***************************************************************************)
(* Crash backups.                                                          *)
(***************************************************************************)

\* Mutated NeedsSaving: only documents that have a file.
NeedsSavingNamed == needBackup /\ Named

\* AutoSaveCB
NeedsSaving == needBackup

\* SaveBackup.  A named document drops its backup as untitled
\* first; a failure leaves a partial file or none and will be retried.
AutoSave ==
    /\ Idle
    /\ NeedsSaving
    /\ LET kept == IF Named THEN [backup EXCEPT ![NoName] = NoText] ELSE backup
       IN  \/ needBackup' = FALSE /\ backup' = [kept EXCEPT ![name] = text]
           \/ /\ IOFaults
              /\ \E t \in Texts \cup {kept[name]} :
                    backup' = [kept EXCEPT ![name] = t]
              /\ UNCHANGED needBackup
    /\ UNCHANGED <<opened, pc, target, name, undo, dirty, watch, readonly,
                   filetime, disk, clock, ghost>>

(***************************************************************************)
(* Closing, crashing.                                                      *)
(***************************************************************************)

Discard ==
    /\ Delete
    /\ backup' = Unbacked(name)
    /\ UNCHANGED <<disk, clock>>

\* TryClose asks only when _dirty is set.
CloseUnasked == Idle /\ ~dirty /\ Discard

\* ... and is answered with no, or with yes.
CloseAsked ==
    /\ Idle
    /\ dirty
    /\ \/ Discard
       \/ Named /\ Save(name, "closing")
       \/ ~Named /\ \E n \in Names : Save(n, "closing")

Crash ==
    /\ opened
    /\ Delete
    /\ UNCHANGED <<disk, clock, backup>>

(***************************************************************************)
(* Other programs, and time.                                               *)
(***************************************************************************)

\* The file that `synced' belongs to.
Watched == IF pc = "idle" THEN name ELSE target

ExternalWrite(n, t) ==
    /\ WriteDisk(n, t)
    /\ foreign' = (foreign \/ n = Watched)
    /\ UNCHANGED <<opened, pc, target, name, undo, flags, filetime, clock,
                   backup, synced, torn, since, spoilt>>

ExternalDelete(n) ==
    /\ diskText[n] # NoText
    /\ diskText' = [diskText EXCEPT ![n] = NoText]
    /\ diskTime' = [diskTime EXCEPT ![n] = 0]
    /\ foreign' = (foreign \/ n = Watched)
    /\ UNCHANGED <<opened, pc, target, name, undo, flags, filetime, clock,
                   backup, synced, torn, since, spoilt>>

Tick ==
    /\ clock < MaxClock
    /\ clock' = clock + 1
    /\ UNCHANGED <<opened, pc, target, name, undo, flags, filetime, disk,
                   backup, ghost>>

Init ==
    /\ opened = FALSE
    /\ Blank
    /\ diskText \in [Names -> Texts \cup {NoText}]
    /\ diskTime = [n \in Names |-> IF diskText[n] = NoText THEN 0 ELSE 1]
    /\ clock = 1
    /\ backup = [s \in Slots |-> NoText]

User ==
    \/ NewFile
    \/ \E n \in Names, ro \in BOOLEAN : Open(n, ro)
    \/ \E n \in Names : CreateFile(n)
    \/ \E t \in Texts : Edit(t)
    \/ Undo
    \/ Redo
    \/ InsertFile
    \/ \E ro \in BOOLEAN : SetReadOnly(ro)
    \/ Reload
    \/ SaveFile
    \/ \E n \in Names : SaveFileAs(n)
    \/ \E n \in Names : SaveCopy(n)
    \/ CloseUnasked
    \/ CloseAsked

Timer == CheckStale \/ AutoSave

Environment ==
    \/ Crash
    \/ \E n \in Names, t \in Texts : ExternalWrite(n, t)
    \/ \E n \in Names : ExternalDelete(n)
    \/ Tick

Next == User \/ LoadStat \/ SaveStat \/ SaveStatAndClose \/ Timer \/ Environment

Spec == Init /\ [][Next]_vars

(***************************************************************************)
(* What is promised.                                                       *)
(***************************************************************************)

\* A document that is not marked as modified, and would be closed without a
\* question, holds the text that was last loaded or saved - unless a reload
\* stopped half way (DoLoadFromFile's early exit keeps the flag but not the text).
CleanMeansSaved == Idle /\ ~dirty /\ ~torn => text = synced

\* While nobody else wrote the file and no save of it failed, an unmodified
\* document is what its file contains: closing it loses nothing.
CleanIsOnDisk ==
    Idle /\ Named /\ ~dirty /\ ~torn /\ ~foreign /\ ~spoilt => diskText[name] = text

\* Once the autosave timer has nothing left to do, a crash loses nothing: the
\* modified text is the backup, under the name the document has now.
BackupIsCurrent ==
    Idle /\ dirty /\ ~needBackup /\ ~torn => text \in {synced, backup[name]}

\* A locked document has no unsaved changes, so no handler that skips read-only
\* documents (onFileSave) leaves any behind.
LockedIsClean == Idle /\ readonly => ~dirty /\ (torn \/ text = synced)

\* The user is told "was modified externally" only when the file was written by
\* something else, or by a save of this document that failed.
NoFalseAlarm == Idle /\ Stale = 1 => foreign \/ spoilt

\* The save point is where the saved text is: undo or redo clears the flag, and
\* removes the backup, only where that text is restored.
SavePointIsSaved == Idle /\ save >= 0 /\ ~torn => hist[save] = synced

\* The flag and Scintilla's save point agree, as onScintillaCmd, SaveToFile and
\* DoLoadFromFile together have to ensure: only then does the next change send
\* SCN_SAVEPOINTLEFT.
CleanIsAtSavePoint == Idle /\ ~dirty /\ ~torn => AtSavePoint

\* What ties the steps of the tab together; the properties above follow from it.
\* Without a tab everything is blank, and a load or save has a real file.
Shape ==
    /\ ~opened => Blank
    /\ pc # "idle" => target \in Names

\* Between the bytes and the time stamp of a save the buffer cannot change.
SaveIsFrozen == opened /\ pc \in {"written", "closing"} => text = synced

\* `synced' is in the file, and the recorded time is the file's, as long as
\* nobody else and no failed save changed it.
SyncedIsOnDisk ==
    opened /\ Watched \in Names /\ ~foreign /\ ~spoilt
        => /\ diskText[Watched] = synced
           /\ pc = "idle" => filetime = diskTime[name]

\* No file is from the future, nor was the one whose time is recorded.
TimesArePast ==
    /\ filetime <= since /\ since <= clock
    /\ \A n \in Names : diskTime[n] <= clock

\* The inductive invariant: every safety property of this module follows from
\* it, and it is preserved by every step on its own.
IInv ==
    /\ TypeOK
    /\ Shape
    /\ SaveIsFrozen
    /\ SyncedIsOnDisk
    /\ SavePointIsSaved
    /\ CleanIsAtSavePoint
    /\ opened /\ readonly => ~dirty
    /\ BackupIsCurrent
    /\ TimesArePast

\* Whatever happened to a document before, typing marks it as modified, so that
\* closing it asks about the unsaved changes.
EditIsMarked == [][(\E t \in Texts : Edit(t)) => dirty']_vars

\* While a file is watched, what was written to it after its time stamp was taken is
\* noticed, whoever wrote it, unless the clock has not moved since.
ForeignIsNoticed ==
    Idle /\ Named /\ watch /\ diskText[name] # NoText /\ diskTime[name] > since
    => Stale = 1

\* The timer saves backups as long as it runs, and load and save do not stop
\* between the bytes and the time stamp.
Fairness ==
    WF_vars(AutoSave) /\ WF_vars(LoadStat) /\ WF_vars(SaveStat)
                      /\ WF_vars(SaveStatAndClose)

FairSpec == Spec /\ Fairness

\* Whatever else happens to it, a document that needs a backup does not need it
\* for ever: the timer saves one, or the document is saved, reloaded or closed.
BackupHappens == needBackup ~> ~needBackup

=============================================================================
