------------------------------ MODULE Session -------------------------------
(***************************************************************************)
(* The tabs of the window: opening and closing files, closing all of them, *)
(* leaving the editor, and the session file that brings them back with -p. *)
(*                                                                         *)
(* Closing all tabs is a loop with a dialog for every modified document;   *)
(* while such a dialog is open, another process may send a file to open.   *)
(***************************************************************************)
EXTENDS Naturals, SequencesExt

CONSTANTS
    Files,          \* names of files
    NoName,         \* the name of an untitled document
    MaxFiles,       \* the preference of that name
    MaxData         \* bound: entries of session_data

ASSUME SessionAssumption ==
    /\ NoName \notin Files
    /\ MaxFiles \in 1 .. 999
    /\ MaxData \in Nat

VARIABLES
    mode,       \* "idle", or in the loop of CloseAll: "closing", "leaving"; "off"
    tabs,       \* the documents, in the order of their tabs
    active,     \* the index of the active tab, 0 if there is none
    data,       \* TopWindowBase::session_data, an entry per document
    focused,    \* LastFocused in TopWindowBase::close
    confirmed,  \* TopWindowBase::close_all_confirmed
    file,       \* the session file
    closed,     \* history: the named documents closed while leaving
    written,    \* history: was the session file written, if it had to be?
    failed,     \* history: did a confirmed attempt to leave end in the hook?
    unasked     \* history: is the editor leaving several tabs, unasked?

vars == <<mode, tabs, active, data, focused, confirmed, file, closed, written,
          failed, unasked>>
history == <<closed, written, failed, unasked>>

Docs == [name : Files \cup {NoName}, dirty : BOOLEAN, ro : BOOLEAN]
Entries == [name : Files, ro : BOOLEAN]
Blank == [name |-> NoName, dirty |-> FALSE, ro |-> FALSE]

TypeOK ==
    /\ mode \in {"idle", "closing", "leaving", "off"}
    /\ tabs \in Seq(Docs) /\ Len(tabs) \leq MaxFiles
    /\ active \in 0 .. Len(tabs)
    /\ data \in Seq(Entries)
    /\ focused \in Files \cup {NoName}
    /\ {confirmed, written, failed, unasked} \subseteq BOOLEAN
    /\ file \in [docs : Seq(Entries), last : Files \cup {NoName}]
    /\ closed \in Seq(Entries)

Init ==
    /\ mode = "idle"
    /\ tabs = <<Blank>>
    /\ active = 1
    /\ data = <<>>
    /\ focused = NoName
    /\ confirmed = FALSE
    /\ file = [docs |-> <<>>, last |-> NoName]
    /\ closed = <<>>
    /\ written = FALSE
    /\ failed = FALSE
    /\ unasked = FALSE

\* The window as a value, for the steps that open several files.
Window == [tabs |-> tabs, active |-> active]
ShowWindow(w) == tabs' = w.tabs /\ active' = w.active

(***************************************************************************)
(* Opening.                                                                *)
(***************************************************************************)

\* IsFileOpen: the first tab with that name.
OpenAt(w, name) == {i \in DOMAIN w.tabs : w.tabs[i].name = name}

\* "If the only thing we had open prior to this file was a single, empty,
\* untitled, unmodified document, then close it"
WithoutBlank(w) ==
    IF Len(w.tabs) = 2 /\ w.tabs[1] = Blank /\ w.tabs[2].name # NoName
    THEN [tabs |-> <<w.tabs[2]>>, active |-> 1]
    ELSE w

\* Mutated Opened: the limit is exceeded by one.
OpenedBeyond(w, name, ro) ==
    IF Len(w.tabs) > MaxFiles THEN w
    ELSE IF name # NoName /\ OpenAt(w, name) # {}
         THEN [w EXCEPT !.active = CHOOSE i \in OpenAt(w, name) :
                                       \A j \in OpenAt(w, name) : i \leq j]
    ELSE WithoutBlank([tabs |-> Append(w.tabs, [name |-> name, dirty |-> FALSE, ro |-> ro]),
                       active |-> Len(w.tabs) + 1])

\* TopWindowBase::OpenFile; the limit comes first, so that with all tabs in use
\* a file that is open is not even activated.
Opened(w, name, ro) ==
    IF Len(w.tabs) >= MaxFiles THEN w
    ELSE IF name # NoName /\ OpenAt(w, name) # {}
         THEN [w EXCEPT !.active = CHOOSE i \in OpenAt(w, name) :
                                       \A j \in OpenAt(w, name) : i \leq j]
    ELSE WithoutBlank([tabs |-> Append(w.tabs, [name |-> name, dirty |-> FALSE, ro |-> ro]),
                       active |-> Len(w.tabs) + 1])

NewFile(w) == Opened(w, NoName, FALSE)

\* By the user, by another process, or by a hook.
Open(name, ro) ==
    /\ mode # "off"
    /\ name = NoName => ~ro
    /\ mode = "idle" \/ Len(data) + Len(tabs) < MaxData
    /\ ShowWindow(Opened(Window, name, ro))
    /\ UNCHANGED <<mode, data, focused, confirmed, file, history>>

(***************************************************************************)
(* Working on the active document.                                         *)
(***************************************************************************)

Idle == mode = "idle" /\ active # 0

Become(doc) ==
    /\ Idle
    /\ tabs' = [tabs EXCEPT ![active] = doc]
    /\ UNCHANGED <<mode, active, data, focused, confirmed, file, history>>

\* Typing, or undoing it.
Edit == Idle /\ ~tabs[active].ro /\ Become([tabs[active] EXCEPT !.dirty = ~@])

\* Saving an untitled document asks for a name, which may be that of another tab.
Saved(doc) ==
    IF doc.name # NoName THEN {[doc EXCEPT !.dirty = FALSE]}
    ELSE {[doc EXCEPT !.dirty = FALSE, !.name = n] : n \in Files}

Save == Idle /\ ~tabs[active].ro /\ \E doc \in Saved(tabs[active]) : Become(doc)

SaveAs(name) == Idle /\ Become([tabs[active] EXCEPT !.dirty = FALSE, !.name = name])

SetReadOnly ==
    /\ Idle
    /\ tabs[active].dirty => tabs[active].ro
    /\ Become([tabs[active] EXCEPT !.ro = ~@])

Activate(i) ==
    /\ mode = "idle"
    /\ i \in DOMAIN tabs
    /\ active' = i
    /\ UNCHANGED <<mode, tabs, data, focused, confirmed, file, history>>

(***************************************************************************)
(* Closing one document.                                                   *)
(***************************************************************************)

\* TryClose: as what a document may be closed - a modified one after "Yes", or
\* with its changes lost after "No".
Closable(doc) == IF doc.dirty THEN Saved(doc) \cup {doc} ELSE {doc}

\* "Cancel", or saving did not work.
Refused(doc) == doc.dirty

\* CloseFile(false, ...) of the active tab, which TryClose allows when it is not
\* modified or after a question; the last tab is replaced.
Close ==
    /\ Idle
    /\ IF Len(tabs) = 1
       THEN LET w == NewFile(Window)
            IN  /\ tabs' = Tail(w.tabs)
                /\ active' = Len(w.tabs) - 1
       ELSE /\ tabs' = RemoveAt(tabs, active)
            /\ active' = IF active < Len(tabs) THEN active ELSE active - 1
    /\ UNCHANGED <<mode, data, focused, confirmed, file, history>>

(***************************************************************************)
(* Closing all documents.                                                  *)
(***************************************************************************)

CloseAll ==
    /\ mode = "idle"
    /\ tabs # <<>>
    /\ Len(data) + Len(tabs) \leq MaxData
    /\ mode' = "closing"
    /\ active' = 1
    /\ UNCHANGED <<tabs, data, focused, confirmed, file, history>>

Entry(doc) == IF doc.name = NoName THEN <<>> ELSE <<[name |-> doc.name, ro |-> doc.ro]>>

\* A pass of the loop: CloseFile(true, true) of the first tab.
CloseNext ==
    /\ mode \in {"closing", "leaving"}
    /\ tabs # <<>>
    /\ \E doc \in Closable(tabs[1]) :
           /\ data' = data \o Entry(doc)
           /\ closed' = IF mode = "leaving" THEN closed \o Entry(doc) ELSE closed
    /\ tabs' = Tail(tabs)
    /\ active' = IF Len(tabs) = 1 THEN 0 ELSE 1
    /\ UNCHANGED <<mode, focused, confirmed, file, written, failed, unasked>>

\* Mutated CloseStops: the confirmation is kept.
CloseStopsConfirmed ==
    /\ mode \in {"closing", "leaving"}
    /\ tabs # <<>>
    /\ Refused(tabs[1])
    /\ mode' = "idle"
    /\ IF mode = "closing"
       THEN ShowWindow(NewFile(Window))
       ELSE UNCHANGED <<tabs, active>>
    /\ focused' = NoName
    /\ closed' = <<>>
    /\ failed' = (mode = "closing" /\ failed)
    /\ unasked' = FALSE
    /\ UNCHANGED <<data, confirmed, file, written>>

\* The loop stops at a document that stays: not_confirmed() when leaving, and
\* a new document - also now - when only closing.
CloseStops ==
    /\ mode \in {"closing", "leaving"}
    /\ tabs # <<>>
    /\ Refused(tabs[1])
    /\ mode' = "idle"
    /\ IF mode = "closing"
       THEN ShowWindow(NewFile(Window)) /\ UNCHANGED confirmed
       ELSE confirmed' = FALSE /\ UNCHANGED <<tabs, active>>
    /\ focused' = NoName
    /\ closed' = <<>>
    /\ failed' = (mode = "closing" /\ failed)
    /\ unasked' = FALSE
    /\ UNCHANGED <<data, file, written>>

\* Mutated CloseAllEnds: no new document.
CloseAllEndsEmpty ==
    /\ mode = "closing"
    /\ tabs = <<>>
    /\ mode' = "idle"
    /\ UNCHANGED <<tabs, active, data, focused, confirmed, file, history>>

CloseAllEnds ==
    /\ mode = "closing"
    /\ tabs = <<>>
    /\ mode' = "idle"
    /\ ShowWindow(NewFile(Window))
    /\ UNCHANGED <<data, focused, confirmed, file, history>>

(***************************************************************************)
(* Leaving: TopWindowBase::close.                                          *)
(***************************************************************************)

\* PromptCloseMultiExit is on.
MustAsk == Len(tabs) > 1 /\ ~confirmed

\* The user is asked, and does not want to.
LeaveNot ==
    /\ Idle
    /\ MustAsk
    /\ confirmed' = FALSE
    /\ UNCHANGED <<mode, tabs, active, data, focused, file, history>>

\* The shutdown hook fails: close() returns, close_all_confirmed stays.
LeaveFails ==
    /\ Idle
    /\ data' = <<>>
    /\ confirmed' = (confirmed \/ MustAsk)
    /\ failed' = confirmed'
    /\ UNCHANGED <<mode, tabs, active, focused, file, closed, written, unasked>>

\* Mutated Leave: session_data is not cleared.
LeaveAppends ==
    /\ Idle
    /\ Len(tabs) \leq MaxData
    /\ mode' = "leaving"
    /\ active' = 1
    /\ focused' = tabs[active].name
    /\ confirmed' = (confirmed \/ MustAsk)
    /\ closed' = <<>>
    /\ unasked' = (Len(tabs) > 1 /\ ~MustAsk)
    /\ UNCHANGED <<tabs, data, file, written, failed>>

Leave ==
    /\ Idle
    /\ Len(tabs) \leq MaxData
    /\ mode' = "leaving"
    /\ data' = <<>>
    /\ active' = 1
    /\ focused' = tabs[active].name
    /\ confirmed' = (confirmed \/ MustAsk)
    /\ closed' = <<>>
    /\ unasked' = (Len(tabs) > 1 /\ ~MustAsk)
    /\ UNCHANGED <<tabs, file, written, failed>>

\* The session file is written, unless no document had a name; writing may fail
\* after the old content is gone.
WriteSession ==
    \/ data = <<>> /\ written' = TRUE /\ UNCHANGED file
    \/ data # <<>> /\ written' = TRUE /\ file' = [docs |-> data, last |-> focused]
    \/ data # <<>> /\ written' = FALSE /\ file' = [docs |-> <<>>, last |-> NoName]

Gone ==
    /\ mode = "leaving"
    /\ tabs = <<>>
    /\ WriteSession
    /\ mode' = "off"
    /\ data' = <<>>
    /\ confirmed' = FALSE
    /\ failed' = FALSE
    /\ unasked' = FALSE
    /\ UNCHANGED <<tabs, active, focused, closed>>

(***************************************************************************)
(* Starting again.                                                         *)
(***************************************************************************)

OpenEntry(w, e) == Opened(w, e.name, e.ro)

\* ParseCommands of the session file: its documents, then the name of the one
\* in focus, which is open by then and only becomes active.
Restored ==
    LET w == FoldLeft(OpenEntry, [tabs |-> <<>>, active |-> 0], file.docs)
    IN  IF file.last = NoName THEN w ELSE Opened(w, file.last, Last(file.docs).ro)

Begin(w) ==
    /\ mode = "off"
    /\ mode' = "idle"
    /\ ShowWindow(IF w.tabs = <<>> THEN NewFile(w) ELSE w)
    /\ focused' = NoName
    /\ closed' = <<>>
    /\ written' = FALSE
    /\ UNCHANGED <<data, confirmed, file, failed, unasked>>

Start == Begin([tabs |-> <<>>, active |-> 0])
Restore == Begin(Restored)

Next ==
    \/ \E name \in Files \cup {NoName}, ro \in BOOLEAN : Open(name, ro)
    \/ Edit \/ Save \/ SetReadOnly \/ Close
    \/ \E name \in Files : SaveAs(name)
    \/ \E i \in DOMAIN tabs : Activate(i)
    \/ CloseAll \/ CloseNext \/ CloseStops \/ CloseAllEnds
    \/ LeaveNot \/ LeaveFails \/ Leave \/ Gone
    \/ Start \/ Restore

Spec == Init /\ [][Next]_vars

(***************************************************************************)
(* Properties.                                                             *)
(***************************************************************************)

\* The limit for open files holds whatever opens them, and every handler works on
\* the active document without looking whether there is one.  With a limit of one
\* file the last document cannot be replaced.
HasDocument ==
    /\ Len(tabs) \leq MaxFiles
    /\ MaxFiles > 1 /\ mode = "idle" => active # 0

\* The editor does not leave with several tabs unless the user agreed to this.  An
\* answer is forgotten whenever leaving does not succeed - after "Cancel" at any
\* document, and after a failed save - except when the hook ended it.
AskedUnlessFailed == unasked => failed

Names(s) == {s[i].name : i \in DOMAIN s}

\* Exactly the documents that were closed when the editor left come back, each
\* once and as locked as it was, whatever was opened, saved under a new name or
\* cancelled on the way; and the one that had the focus has it again.  (With all
\* tabs in use it has not: Opened does not activate it then.)
GivesBack ==
    /\ Names(tabs') = Names(closed)
    /\ \A i, j \in DOMAIN tabs' : tabs'[i].name = tabs'[j].name => i = j
    /\ \A i \in DOMAIN tabs' : [name |-> tabs'[i].name, ro |-> tabs'[i].ro] \in ToSet(closed)
    /\ focused \in Names(closed) /\ Len(closed) < MaxFiles
         => tabs'[active'].name = focused

RestoreGivesBack ==
    [][Restore /\ written /\ closed # <<>> /\ Len(closed) \leq MaxFiles
         => GivesBack]_vars
=============================================================================
