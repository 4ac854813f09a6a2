---------------------------- MODULE CellBuffer -----------------------------
(***************************************************************************)
(* The text of a document in Scintilla and its undo history, as Document   *)
(* and CellBuffer change them together; and what the editor does with      *)
(* groups of actions: macros (fx.batch), converting line ends, inserting a *)
(* file, loading.  The index of the lines is in LineVector: every change   *)
(* of the text here, by an edit, an undo or a redo, is an insertion or a   *)
(* deletion there.                                                         *)
(***************************************************************************)
EXTENDS LineEnds, UndoHistory, FiniteSetsExt

CONSTANTS
    Texts,      \* what files hold
    Strings,    \* what is inserted at once
    Letter,     \* a character that ends no line
    Lengths,    \* bound: how much is deleted at once
    Eols,       \* line ends that texts are converted to
    MaxLen,     \* bound: length of the text
    MaxActs,    \* bound: length of the array of actions
    MaxBatch,   \* SetUserUndoLevel's limit (16 in the code)
    MaxLeaks    \* bound: failed InsertFiles

ASSUME CellBufferAssumption ==
    /\ Letter \notin {CR, LF}
    /\ Texts \cup Strings \subseteq Seq({CR, LF, Letter})
    /\ Lengths \subseteq Nat \ {0}
    /\ Eols \subseteq EolModes
    /\ {MaxLen, MaxActs, MaxBatch, MaxLeaks} \subseteq Nat

VARIABLES
    buf,        \* CellBuffer: text (substance) and uh; and, as history, `group':
                \*   the last explicit group, [from, to] in uh.acts, `to' Opened
                \*   while it is open, `from' None if there is none
    dirty,      \* SciDoc::_dirty
    batch,      \* SciDoc::user_undo_level
    leaks,      \* history: groups that a failed InsertFile left open
    base,       \* history: the text when the history was empty
    torn        \* history: a reload has failed halfway

vars == <<buf, dirty, batch, leaks, base, torn>>

None == -1
Opened == -2
NoGroup == [from |-> None, to |-> None]

(***************************************************************************)
(* The buffer, with undo.                                                  *)
(***************************************************************************)

\* The action is appended; what was undone is cut off.
Recorded(b, at, pos, data) ==
    [b EXCEPT !.uh = AppendAction(@, at, pos, data),
              !.group = IF b.uh.cur < @.to THEN NoGroup ELSE @]

InsertString(b, pos, s) ==
    IF s = <<>> THEN b
    ELSE Recorded([b EXCEPT !.text = Inserted(@, pos, s)], "insert", pos, s)

DeleteChars(b, pos, len) ==
    IF len = 0 THEN b
    ELSE Recorded([b EXCEPT !.text = Deleted(@, pos, len)],
                  "remove", pos, SubSeq(b.text, pos + 1, pos + len))

PerformUndoStep(t, a) ==
    IF a.at = "insert" THEN Deleted(t, a.pos, Len(a.data)) ELSE Inserted(t, a.pos, a.data)

PerformRedoStep(t, a) ==
    IF a.at = "insert" THEN Inserted(t, a.pos, a.data) ELSE Deleted(t, a.pos, Len(a.data))

\* Undo and Redo inside an open group: what follows joins another one.
Travelled(group) == IF group.to = Opened THEN NoGroup ELSE group

\* Mutated UndoGroup: the actions of a group are undone first to last.
UndoGroupForwards(b) ==
    LET to == UndoTo(b.uh)
    IN  [b EXCEPT !.text = FoldLeft(PerformUndoStep, @, Steps(b.uh, to, b.uh.cur)),
                  !.uh.cur = to, !.group = Travelled(@)]

UndoGroup(b) ==
    LET to == UndoTo(b.uh)
    IN  [b EXCEPT !.text = FoldRight(LAMBDA a, t : PerformUndoStep(t, a),
                                     Steps(b.uh, to, b.uh.cur), @),
                  !.uh.cur = to, !.group = Travelled(@)]

RedoGroup(b) ==
    LET to == RedoTo(b.uh)
    IN  [b EXCEPT !.text = FoldLeft(PerformRedoStep, @, Steps(b.uh, b.uh.cur, to)),
                  !.uh.cur = to, !.group = Travelled(@)]

Begin(b) ==
    [b EXCEPT !.uh = BeginUndoAction(@),
              !.group = IF b.uh.depth = 0 THEN [from |-> b.uh.cur, to |-> Opened] ELSE @]

End(b) ==
    [b EXCEPT !.uh = EndUndoAction(@),
              !.group.to = IF b.uh.depth = 1 /\ @ = Opened THEN b.uh.cur ELSE @]

(***************************************************************************)
(* Line ends.                                                              *)
(***************************************************************************)

\* Mutated ConvertEnd: a "\r\n" loses its "\r" whatever is wanted.
ConvertEndToLF(b, p, end, eol) ==
    IF end = eol THEN b
    ELSE IF end = CRLF THEN DeleteChars(b, p, 1)
    ELSE IF eol = CRLF THEN IF end = <<CR>> THEN InsertString(b, p + 1, <<LF>>)
                            ELSE InsertString(b, p, <<CR>>)
    ELSE DeleteChars(InsertString(b, p, eol), p + 1, 1)

ConvertEnd(b, p, end, eol) ==
    IF end = eol THEN b
    ELSE IF end = CRLF THEN DeleteChars(b, IF eol = <<CR>> THEN p + 1 ELSE p, 1)
    ELSE IF eol = CRLF THEN IF end = <<CR>> THEN InsertString(b, p + 1, <<LF>>)
                            ELSE InsertString(b, p, <<CR>>)
    ELSE DeleteChars(InsertString(b, p, eol), p + 1, 1)

\* The line end at p in t, if there is one; earlier ends have moved it.
Convert(b, t, p, eol) ==
    IF p \in LineEnds(t)
    THEN ConvertEnd(b, p + Len(b.text) - Len(t), EndAt(t, p), eol)
    ELSE b

\* Document::ConvertLineEnds
ConvertLineEnds(b, eol) ==
    End(FoldLeft(LAMBDA acc, p : Convert(acc, b.text, p, eol),
                 Begin(b), [i \in DOMAIN b.text |-> i - 1]))

\* SciDoc::SetEolModeFromContent; without any line end the setting is kept.
EolModesFor(t) ==
    LET nCR == Len(SelectSeq(t, LAMBDA c : c = CR))
        nLF == Len(SelectSeq(t, LAMBDA c : c = LF))
    IN  IF nCR = 0 THEN IF nLF > 0 THEN {<<LF>>} ELSE Eols
        ELSE IF nLF = 0 THEN {<<CR>>}
        ELSE IF nCR < nLF /\ nLF \div 2 > nCR THEN {<<LF>>} ELSE {CRLF}

(***************************************************************************)
(* What the editor does.                                                   *)
(***************************************************************************)

\* SCN_SAVEPOINTLEFT with the first of the changes that lead to b.
Left(b) == IsSavePoint(buf.uh) /\ b.uh.cur # buf.uh.cur

Change(b) ==
    /\ buf' = b
    /\ dirty' = (dirty \/ Left(b))
    /\ UNCHANGED <<batch, leaks, base, torn>>

Type == \E pos \in 0 .. Len(buf.text), s \in Strings : Change(InsertString(buf, pos, s))

\* How much of the text can be selected from pos on.
Selections(pos) == {len \in Lengths : pos + len <= Len(buf.text)}

Erase == \E pos \in 0 .. Len(buf.text) - 1 :
            \E len \in Selections(pos) : Change(DeleteChars(buf, pos, len))

ConvertEols == \E eol \in Eols : Change(ConvertLineEnds(buf, eol))

\* Document::Undo and Redo notify when the save point was left or reached.
Travel(b) ==
    /\ buf' = b
    /\ dirty' = IF IsSavePoint(buf.uh) = IsSavePoint(b.uh) THEN dirty ELSE ~IsSavePoint(b.uh)
    /\ UNCHANGED <<batch, leaks, base, torn>>

Undo == CanUndo(buf.uh) /\ Travel(UndoGroup(buf))
Redo == CanRedo(buf.uh) /\ Travel(RedoGroup(buf))

\* SaveToFile ends with SCI_SETSAVEPOINT, which always notifies.
Save ==
    /\ buf' = [buf EXCEPT !.uh = SetSavePoint(@)]
    /\ dirty' = FALSE
    /\ torn' = FALSE
    /\ UNCHANGED <<batch, leaks, base>>

(***************************************************************************)
(* SciDoc::SetUserUndoLevel: fx.batch, and its reset when a macro is over. *)
(***************************************************************************)

PushUndoLevel ==
    /\ batch < MaxBatch
    /\ batch' = batch + 1
    /\ buf' = Begin(buf)
    /\ UNCHANGED <<dirty, leaks, base, torn>>

PopUndoLevels(n) ==
    /\ batch' = batch - n
    /\ buf' = FoldLeft(LAMBDA b, i : End(b), buf, [i \in 1 .. n |-> i])
    /\ UNCHANGED <<dirty, leaks, base, torn>>

PopUndoLevel == batch > 0 /\ PopUndoLevels(1)
ResetUndoLevel == batch > 0 /\ PopUndoLevels(batch)

(***************************************************************************)
(* Files.                                                                  *)
(***************************************************************************)

Leak == leaks < MaxLeaks /\ leaks' = leaks + 1

\* SciDoc::DoLoadFromFile, inserting: the selection is replaced.  When reading
\* fails, before or after a block, the group is not closed.
InsertFile ==
    \E pos \in 0 .. Len(buf.text), s \in Texts, eol \in Eols :
    \E len \in {0} \cup Selections(pos) :
        LET begun == Begin(buf)
            put == InsertString(DeleteChars(begun, pos, len), pos, s)
        IN  /\ \/ buf' = End(ConvertLineEnds(put, eol)) /\ dirty' = TRUE /\ UNCHANGED leaks
               \/ buf' = put /\ dirty' = TRUE /\ Leak
               \/ buf' = begun /\ UNCHANGED dirty /\ Leak
            /\ UNCHANGED <<batch, base, torn>>

\* SCI_CLEARALL
Cleared(b) == End(DeleteChars(Begin(b), 0, Len(b.text)))

\* Mutated Filled: the number of open groups is forgotten with the actions.
FilledClosed(t, eol) ==
    LET b == ConvertLineEnds(InsertString(Cleared(buf), 0, t), eol)
    IN  [b EXCEPT !.uh = NewHistory, !.group = NoGroup]

\* The buffer once a file was read into it, as SCI_EMPTYUNDOBUFFER leaves it.
Filled(t, eol) ==
    LET b == ConvertLineEnds(InsertString(Cleared(buf), 0, t), eol)
    IN  [b EXCEPT !.uh = DeleteUndoHistory(@), !.group = NoGroup]

\* DoLoadFromFile, not inserting; notifications are ignored while _loading.
Load ==
    \E t \in Texts : \E eol \in EolModesFor(t) :
        LET b == Filled(t, eol)
        IN  /\ buf' = b
            /\ base' = b.text
            /\ torn' = FALSE
            /\ dirty' = FALSE
            /\ UNCHANGED <<batch, leaks>>

\* Reading fails: what had been read stays.
LoadTorn ==
    \E t \in Texts \cup {<<>>} :
        /\ buf' = InsertString(Cleared(buf), 0, t)
        /\ torn' = TRUE
        /\ UNCHANGED <<dirty, batch, leaks, base>>

\* A new document.
Init ==
    /\ buf = [text |-> <<>>, uh |-> NewHistory, group |-> NoGroup]
    /\ dirty = FALSE
    /\ batch = 0
    /\ leaks = 0
    /\ base = <<>>
    /\ torn = FALSE

Bounded == Len(buf.text) <= MaxLen /\ Len(buf.uh.acts) <= MaxActs

Next ==
    /\ \/ Type \/ Erase \/ ConvertEols \/ Undo \/ Redo \/ Save
       \/ PushUndoLevel \/ PopUndoLevel \/ ResetUndoLevel
       \/ InsertFile \/ Load \/ LoadTorn
    /\ Bounded'

Spec == Init /\ [][Next]_vars

(***************************************************************************)
(* Properties.                                                             *)
(***************************************************************************)

Places(u) == {i \in 0 .. LastPlace(u) : u.acts[i + 1].at = "start"}

\* Types, and: what the history records could have happened, place by place.
TypeOK ==
    /\ buf.text \in Seq({CR, LF, Letter})
    /\ dirty \in BOOLEAN
    /\ batch \in 0 .. MaxBatch
    /\ leaks \in 0 .. MaxLeaks
    /\ torn \in BOOLEAN
    /\ base \in Seq({CR, LF, Letter})
    /\ buf.uh.cur \in Places(buf.uh)
    /\ buf.uh.save \in -1 .. LastPlace(buf.uh)

\* A document that is not called modified is where undo and redo find the text
\* that was saved or loaded, unless a reload failed halfway.
CleanIsSaved == ~dirty /\ ~torn => IsSavePoint(buf.uh)

\* An explicit group is undone at once, and with it nothing that was done before
\* it or after: as long as the script did not undo in the middle of it.
GroupIsOneStep ==
    LET g == buf.group
        end == IF g.to = Opened THEN buf.uh.cur ELSE g.to
        Start(i) == buf.uh.acts[i + 1].at = "start"
    IN  g.from # None => {i \in g.from .. end : Start(i)} = {g.from, end}

\* Every variable has its type, and EndUndoAction, which asserts that a group is open,
\* is right: the groups that are open are those of fx.batch, and one for every file
\* whose insertion failed.
GroupsMatch == TypeOK /\ buf.uh.depth = batch + leaks

\* Wherever the document is converted, only line ends of the one kind are left, as
\* many as there were.
ConvertedEols ==
    \A eol \in EolModes :
        LET t == ConvertLineEnds(buf, eol).text
        IN  /\ \A p \in LineEnds(t) : EndAt(t, p) = eol
            /\ Cardinality(LineEnds(t)) = Cardinality(LineEnds(buf.text))

\* The abstract history: the texts that replaying the actions gives.
TextsOf(u, first) ==
    LET T[i \in 0 .. LastPlace(u)] ==
            IF i = 0 THEN first
            ELSE LET a == u.acts[i]
                 IN  IF a.at = "start" THEN T[i - 1] ELSE PerformRedoStep(T[i - 1], a)
    IN  T

PlaceOf(u, i) == Cardinality({j \in Places(u) : j <= i})
PlaceAt(u, k) == CHOOSE i \in Places(u) : PlaceOf(u, i) = k

HistOf(u, first) ==
    LET T == TextsOf(u, first)
    IN  [k \in 1 .. Cardinality(Places(u)) |-> T[PlaceAt(u, k)]]

SavedOf(u) == IF u.save \in Places(u) THEN PlaceOf(u, u.save) ELSE 0

Abstract ==
    INSTANCE History WITH
        text <- buf.text,
        hist <- HistOf(buf.uh, base),
        cur <- PlaceOf(buf.uh, buf.uh.cur),
        saved <- SavedOf(buf.uh)

\* Edits, undo, redo and saving behave as on a list of texts: an undo gives the
\* text before the step, a redo the text after it, and only being where it was
\* saved counts as unmodified.
IsHistory == Abstract!Spec

=============================================================================
