------------------------------ MODULE Recorder ------------------------------
(***************************************************************************)
(* The macro recorder.  Scintilla sends each command of a document whose   *)
(* recordingMacro is on; MacroRecorder::record compresses them, translate  *)
(* makes Lua calls of them, and playing runs these in the active document. *)
(*                                                                         *)
(* The window remembers which document is recorded, Scintilla remembers in *)
(* each document whether it is.  Starting and stopping tell the document   *)
(* that is active then.                                                    *)
(***************************************************************************)
EXTENDS Naturals, Sequences, SequencesExt

CONSTANTS
    Tab,        \* documents that may be open
    None,       \* no document
    MaxLen,     \* bound: length of a text
    MaxList,    \* bound: commands in the list
    MaxSteps    \* bound: steps of a behaviour

ASSUME RecorderAssumption ==
    /\ Tab # {}
    /\ None \notin Tab /\ None \notin [doc : Tab, recording : Tab \cup {None}]
    /\ {MaxLen, MaxList, MaxSteps} \subseteq Nat /\ MaxLen > 0

VARIABLES
    steps,      \* how many there were
    book,       \* TopWindowBase::tabbook, the open documents in the order of their tabs
    active,     \* the document of the active tab
    docs,       \* for each document, its text and selection
    clip,       \* the clipboard
    recording,  \* TopWindowBase::recording
    hasRecorder,\* TopWindowBase::recorder is not null
    list,       \* MacroRecorder::list, oldest first
    flag,       \* Editor::recordingMacro of each document
    indenting,  \* CharAdded lets events run: its document and its recording
    begun,      \* history: the recorded document and the clipboard at the start
    disturbed,  \* history: what was shown is not only what was recorded
    pasted,     \* history: a paste was counted
    misaimed    \* history: documents that were not told of the end

window == <<book, active>>
history == <<begun, disturbed, pasted, misaimed>>
vars == <<steps, book, active, docs, clip, recording, hasRecorder, list, flag, indenting,
          begun, disturbed, pasted, misaimed>>

(***************************************************************************)
(* Commands.                                                               *)
(***************************************************************************)

Lesser(i, j) == IF i < j THEN i ELSE j
Greater(i, j) == IF i < j THEN j ELSE i

SelStart(d) == Lesser(d.anchor, d.caret)
SelEnd(d) == Greater(d.anchor, d.caret)
Selected(d) == SubSeq(d.text, SelStart(d) + 1, SelEnd(d))

At(d, pos) == [d EXCEPT !.anchor = pos, !.caret = pos]

Replace(d, start, end, s) ==
    At([d EXCEPT !.text = SubSeq(@, 1, start) \o s \o SubSeq(@, end + 1, Len(@)),
                 !.dirty = @ \/ start # end \/ s # <<>>], start + Len(s))

ClearSelection(d) == Replace(d, SelStart(d), SelEnd(d), <<>>)

Commands == {"CUT", "COPY", "HOME", "CHARLEFT", "CHARLEFTEXTEND", "DELETEBACK", "PASTE",
             "REPLACESEL", "GOTOPOS", "GOTOLINE"}

\* What a command does to e, a document and the clipboard.
Perform(e, msg, s, pos) ==
    LET d == e.doc
        to(x) == [e EXCEPT !.doc = x]
    IN  CASE msg = "COPY" -> [e EXCEPT !.clip = Selected(d)]
          [] msg = "CUT" -> [doc |-> ClearSelection(d), clip |-> Selected(d)]
          [] msg = "PASTE" -> to(Replace(d, SelStart(d), SelEnd(d), e.clip))
          [] msg = "REPLACESEL" -> to(Replace(d, SelStart(d), SelEnd(d), s))
          [] msg = "HOME" -> to(At(d, 0))
          [] msg = "CHARLEFT" ->
                to(At(d, IF d.anchor = d.caret THEN Greater(d.caret, 1) - 1 ELSE SelStart(d)))
          [] msg = "CHARLEFTEXTEND" -> to([d EXCEPT !.caret = Greater(@, 1) - 1])
          [] msg = "DELETEBACK" ->
                to(IF d.anchor # d.caret THEN ClearSelection(d)
                   ELSE Replace(d, Greater(d.caret, 1) - 1, d.caret, <<>>))
          [] msg \in {"GOTOPOS", "GOTOLINE"} -> to(At(d, Lesser(pos, Len(d.text))))

\* SciDocUtils::Cut and Copy, and cut and copy of the Lua library, look for a selection.
Sent(e, msg) == msg \in {"CUT", "COPY"} => e.doc.anchor # e.doc.caret

(***************************************************************************)
(* Recording, and translating.                                             *)
(***************************************************************************)

Once == {"CUT", "COPY", "HOME"}
Counted == {"PASTE", "CHARLEFT", "CHARLEFTEXTEND", "DELETEBACK"}
Absolute == {"GOTOPOS", "GOTOLINE"}

\* Mutated Recorded: a count that does not look at what came before.
RecordedAnyCount(l, msg, s, pos) ==
    IF msg \in Counted /\ l # <<>> /\ Last(l).msg \in Counted
    THEN [l EXCEPT ![Len(l)].n = @ + 1]
    ELSE Append(l, [msg |-> msg, n |-> 0, s |-> s, pos |-> pos])

Recorded(l, msg, s, pos) ==
    LET new == Append(l, [msg |-> msg, n |-> 0, s |-> s, pos |-> pos])
    IN  IF l = <<>> \/ Last(l).msg # msg THEN new
        ELSE CASE msg \in Once -> l
               [] msg \in Absolute -> IF Last(l).pos = pos THEN l ELSE new
               [] msg \in Counted -> [l EXCEPT ![Len(l)].n = @ + 1]
               [] msg = "REPLACESEL" -> [l EXCEPT ![Len(l)].s = @ \o s]

\* How often the Lua call that is made of a message sends it; paste takes no count.
Times(m) == IF m.msg = "PASTE" THEN 1 ELSE m.n + 1

Sends(m) == [i \in 1 .. Times(m) |-> m]

\* Where a caret call leads: GoToCoords stops before the end of the last line.
GoToCoords(d, pos) == IF pos >= Len(d.text) THEN Greater(Len(d.text), 1) - 1 ELSE pos

Call(e, m) ==
    IF ~Sent(e, m.msg) THEN e
    ELSE Perform(e, m.msg, m.s, IF m.msg = "GOTOLINE" THEN GoToCoords(e.doc, m.pos) ELSE m.pos)

\* The Lua call that is made of a message.
Calls(e, m) == FoldLeft(Call, e, Sends(m))

Played(e, l) == FoldLeft(Calls, e, l)

\* The messages that playing sends by way of a document whose recordingMacro is on.
Hear(a, m) ==
    [now |-> Call(a.now, m),
     list |-> IF ~Sent(a.now, m.msg) THEN a.list
              ELSE IF m.msg = "GOTOLINE" THEN Recorded(a.list, "GOTOPOS", <<>>, GoToCoords(a.now.doc, m.pos))
              ELSE Recorded(a.list, m.msg, m.s, m.pos)]

HearAll(a, m) == FoldLeft(Hear, a, Sends(m))

RecordedAgain(l, e) == FoldLeft(HearAll, [now |-> e, list |-> l], l).list

\* Bound: what is counted and inserted stays short.
SmallList(l) ==
    /\ Len(l) <= MaxList
    /\ \A i \in 1 .. Len(l) : l[i].n < MaxLen /\ Len(l[i].s) <= MaxLen

(***************************************************************************)
(* The window.                                                             *)
(***************************************************************************)

Untitled == [named |-> FALSE, dirty |-> FALSE, text |-> <<>>, anchor |-> 0, caret |-> 0]

\* A file has a line before the text, so that what is typed is not in its first line.
File == [Untitled EXCEPT !.named = TRUE, !.text = <<"a">>]

Nothing == [doc |-> Untitled, clip |-> <<>>]

Now == [doc |-> docs[active], clip |-> clip]

Init ==
    \E t \in Tab :
        /\ steps = 0
        /\ book = <<t>>
        /\ active = t
        /\ docs = [u \in Tab |-> Untitled]
        /\ clip = <<>>
        /\ recording = None
        /\ hasRecorder = FALSE
        /\ list = <<>>
        /\ flag = [u \in Tab |-> FALSE]
        /\ indenting = None
        /\ begun = Nothing
        /\ disturbed = FALSE
        /\ pasted = FALSE
        /\ misaimed = {}

\* What a command in the active document is to the recording.
Noted(msg) ==
    /\ disturbed' = \/ disturbed
                    \/ /\ recording # None
                       /\ \/ indenting # None
                          \/ active # recording /\ (flag[active] \/ clip' # clip)
    /\ pasted' = \/ pasted
                 \/ /\ recording # None /\ flag[active] /\ msg = "PASTE"
                    /\ list # <<>> /\ Last(list).msg = "PASTE"
    /\ UNCHANGED <<begun, misaimed>>

Listened(msg, s, pos) == IF flag[active] THEN Recorded(list, msg, s, pos) ELSE list

\* A key or a menu command sends one command to Scintilla.
Send(msg, s, pos) ==
    LET e == Perform(Now, msg, s, pos)
    IN  /\ Sent(Now, msg)
        /\ Len(e.doc.text) <= MaxLen
        /\ docs' = [docs EXCEPT ![active] = e.doc]
        /\ clip' = e.clip
        /\ list' = Listened(msg, s, pos)
        /\ SmallList(list')
        /\ Noted(msg)
        /\ UNCHANGED <<window, recording, hasRecorder, flag, indenting>>

Key(msg) == msg \in (Once \cup Counted) /\ (msg = "PASTE" => clip # <<>>) /\ Send(msg, <<>>, 0)

Type == Send("REPLACESEL", <<"a">>, 0)

\* The dialog goes to a column as a caret call does; TopWindow::onGoto records it once more.
Goto(col) ==
    LET pos == GoToCoords(docs[active], col)
        heard == Listened("GOTOPOS", <<>>, pos)
    IN  /\ docs[active].text # <<>>
        /\ docs' = [docs EXCEPT ![active] = At(@, pos)]
        /\ list' = IF recording = active THEN Recorded(heard, "GOTOLINE", <<>>, pos) ELSE heard
        /\ SmallList(list')
        /\ UNCHANGED <<window, clip, recording, hasRecorder, flag, indenting>>
        /\ Noted("GOTOLINE")

\* The mouse is not recorded; bound: it selects from the start.
Click(anchor, caret) ==
    /\ anchor <= Len(docs[active].text) /\ caret <= Len(docs[active].text)
    /\ docs' = [docs EXCEPT ![active].anchor = anchor, ![active].caret = caret]
    /\ disturbed' = (disturbed \/ active = recording)
    /\ UNCHANGED <<window, clip, recording, hasRecorder, list, flag, indenting, begun, pasted, misaimed>>

Switch(t) ==
    /\ t \in ToSet(book) \ {active}
    /\ active' = t
    /\ UNCHANGED <<book, docs, clip, recording, hasRecorder, list, flag, indenting, history>>

(***************************************************************************)
(* A closing brace below the first line: CharAdded turns the recording off *)
(* while it indents the line, and lets the events that wait run meanwhile. *)
(* Scintilla records the brace when CharAdded has returned.                *)
(***************************************************************************)

Brace == <<"}">>

IndentBegin ==
    LET e == Perform(Now, "REPLACESEL", Brace, 0)
    IN  /\ docs[active].named /\ indenting = None
        /\ Len(e.doc.text) <= MaxLen
        /\ docs' = [docs EXCEPT ![active] = e.doc]
        /\ flag' = [t \in Tab |-> flag[t] /\ t # recording]
        /\ indenting' = [doc |-> active, recording |-> recording]
        /\ UNCHANGED <<window, clip, recording, hasRecorder, list, history>>

\* Mutated IndentEnd: only the document that is indented is recorded again.
IndentEndHere ==
    LET i == indenting
    IN  /\ i # None
        /\ flag' = [t \in Tab |-> flag[t] \/ (t = i.recording /\ t = i.doc)]
        /\ list' = IF flag'[i.doc] THEN Recorded(list, "REPLACESEL", Brace, 0) ELSE list
        /\ indenting' = None
        /\ disturbed' = (disturbed \/ (recording # None /\ i.doc # recording /\ flag'[i.doc]))
        /\ UNCHANGED <<window, docs, clip, recording, hasRecorder, begun, pasted, misaimed>>

IndentEnd ==
    LET i == indenting
    IN  /\ i # None
        /\ flag' = [t \in Tab |-> flag[t] \/ t = i.recording]
        /\ list' = IF flag'[i.doc] THEN Recorded(list, "REPLACESEL", Brace, 0) ELSE list
        /\ indenting' = None
        /\ disturbed' = (disturbed \/ (recording # None /\ i.doc # recording /\ flag'[i.doc]))
        /\ UNCHANGED <<window, docs, clip, recording, hasRecorder, begun, pasted, misaimed>>

(***************************************************************************)
(* Starting, stopping and playing.                                         *)
(***************************************************************************)

\* Documents that go on recording when it ends, or is begun, with control active.
Misaimed(control) ==
    LET late == IF indenting = None THEN {} ELSE {indenting.recording}
    IN  (((misaimed \cup {recording}) \ {control}) \cup late) \ {None}

\* Mutated EnableRecorder: it only starts.
EnableRecorderStarts(control, on) ==
    flag' = [flag EXCEPT ![control] = @ \/ on]

EnableRecorder(control, on) ==
    flag' = [flag EXCEPT ![control] = on]

StopRecorder(control) ==
    /\ recording # None
    /\ recording' = None
    /\ EnableRecorder(control, FALSE)
    /\ UNCHANGED <<hasRecorder, list>>

StartRecorder(control) ==
    /\ recording = None
    /\ hasRecorder' = TRUE
    /\ list' = <<>>
    /\ recording' = control
    /\ EnableRecorder(control, TRUE)

ToggleRecorder ==
    /\ StopRecorder(active) \/ StartRecorder(active)
    /\ begun' = IF recording = None THEN Now ELSE Nothing
    /\ disturbed' = (recording = None /\ indenting # None)
    /\ pasted' = FALSE
    /\ misaimed' = Misaimed(active)
    /\ UNCHANGED <<window, docs, clip, indenting>>

\* onMacroPlayback; bound: not while a line is indented.
Playback ==
    LET e == Played(Now, list)
    IN  /\ hasRecorder /\ recording = None /\ indenting = None
        /\ Len(e.doc.text) <= MaxLen /\ Len(e.clip) <= MaxLen
        /\ docs' = [docs EXCEPT ![active] = e.doc]
        /\ clip' = e.clip
        /\ list' = IF flag[active] THEN RecordedAgain(list, Now) ELSE list
        /\ SmallList(list')
        /\ UNCHANGED <<window, recording, hasRecorder, flag, indenting, history>>

(***************************************************************************)
(* Opening and closing; bound: not while a line is indented.               *)
(***************************************************************************)

\* Mutated DoneSci: the window is not told of the end.
DoneSciSilent(t, control) ==
    /\ flag' = [flag EXCEPT ![t] = FALSE]
    /\ misaimed' = misaimed \ {t}
    /\ UNCHANGED <<recording, hasRecorder, list>>

\* A recording of t is stopped, with control active, and t is deleted.
DoneSci(t, control) ==
    /\ flag' = [u \in Tab |-> flag[u] /\ u # t /\ (u = control => recording # t)]
    /\ recording' = IF recording = t THEN None ELSE recording
    /\ misaimed' = misaimed \ ({t} \cup (IF recording = t THEN {control} ELSE {}))
    /\ UNCHANGED <<hasRecorder, list>>

Closed(t, d) == [d EXCEPT ![t] = Untitled]

OpenFile(t, named) ==
    LET first == Head(book)
        opened == [docs EXCEPT ![t] = IF named THEN File ELSE Untitled]
        replaced == named /\ Len(book) = 1 /\ docs[first] = Untitled
    IN  /\ t \notin ToSet(book) /\ indenting = None
        /\ active' = t
        /\ IF replaced
           THEN book' = <<t>> /\ docs' = Closed(first, opened) /\ DoneSci(first, first)
           ELSE /\ book' = Append(book, t) /\ docs' = opened
                /\ UNCHANGED <<recording, hasRecorder, list, flag, misaimed>>
        /\ UNCHANGED <<clip, indenting, begun, disturbed, pasted>>

\* The last document is replaced before it is closed.
CloseLast(t) ==
    /\ Len(book) = 1 /\ t \notin ToSet(book) /\ indenting = None
    /\ book' = <<t>> /\ active' = t
    /\ docs' = Closed(active, docs)
    /\ DoneSci(active, t)
    /\ UNCHANGED <<clip, indenting, begun, disturbed, pasted>>

CloseFile ==
    LET i == CHOOSE k \in 1 .. Len(book) : book[k] = active
        rest == RemoveAt(book, i)
    IN  /\ Len(book) > 1 /\ indenting = None
        /\ book' = rest
        /\ active' = rest[Lesser(i, Len(rest))]
        /\ docs' = Closed(active, docs)
        /\ DoneSci(active, active)
        /\ UNCHANGED <<clip, indenting, begun, disturbed, pasted>>

Step ==
    \/ \E msg \in Once \cup Counted : Key(msg)
    \/ Type
    \/ \E col \in 0 .. MaxLen : Goto(col)
    \/ \E caret \in 0 .. MaxLen : Click(0, caret)
    \/ \E t \in Tab : Switch(t) \/ CloseLast(t)
    \/ \E t \in Tab, named \in BOOLEAN : OpenFile(t, named)
    \/ IndentBegin \/ IndentEnd
    \/ ToggleRecorder \/ Playback \/ CloseFile

Next == steps < MaxSteps /\ steps' = steps + 1 /\ Step

Spec == Init /\ [][Next]_vars

(***************************************************************************)
(* Properties.                                                             *)
(***************************************************************************)

TextType == UNION {[1 .. n -> {"a", "}"}] : n \in 0 .. MaxLen}

DocType(d) ==
    /\ d.named \in BOOLEAN /\ d.dirty \in BOOLEAN
    /\ d.text \in TextType
    /\ {d.anchor, d.caret} \subseteq 0 .. Len(d.text)

MessageType(m) ==
    /\ m.msg \in Commands
    /\ m.n \in Nat /\ (m.n > 0 => m.msg \in Counted)
    /\ (m.s # <<>>) <=> (m.msg = "REPLACESEL")
    /\ m.pos \in 0 .. MaxLen

\* Only commands that can be counted are, and the selection is in the text.
TypeOK ==
    /\ active \in ToSet(book) /\ ToSet(book) \subseteq Tab
    /\ \A t \in Tab : DocType(docs[t])
    /\ clip \in TextType
    /\ recording \in Tab \cup {None}
    /\ hasRecorder \in BOOLEAN
    /\ \A i \in 1 .. Len(list) : MessageType(list[i])
    /\ flag \in [Tab -> BOOLEAN]
    /\ misaimed \subseteq Tab
    /\ indenting # None => indenting.doc \in Tab /\ indenting.recording \in Tab \cup {None}

\* Playing the list where and when the recording began would give what the
\* recorded document and the clipboard are now (MacroRecorder::record, translate).
PlayGivesSame ==
    recording # None /\ indenting = None /\ ~disturbed =>
        Played(begun, list) = [doc |-> docs[recording], clip |-> clip]

\* The same, of lists and texts that have their types, unless two pastes came one
\* after the other: they are counted, and the count is lost when the list is
\* translated.
ReplayGivesSame ==
    /\ TypeOK
    /\ ~pasted => PlayGivesSame

\* The document that the window believes is recorded is open, and sends what is
\* done in it, except while a line is indented (ToggleRecorder, DoneSci, CharAdded).
RecordingIsHeard ==
    /\ recording # None => recording \in ToSet(book)
    /\ recording # None /\ indenting = None => flag[recording]

\* A document that sends its commands is the recorded one, or one that was not
\* active when its recording ended, or whose line was being indented then.
StrayWasMisaimed ==
    \A t \in Tab : flag[t] => t = recording \/ t \in misaimed

=============================================================================
