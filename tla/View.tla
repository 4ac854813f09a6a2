-------------------------------- MODULE View --------------------------------
(***************************************************************************)
(* What Scintilla keeps beside the text of a document and has to move      *)
(* with it: the lines and a marker on one of them, the indicators, and     *)
(* what of the lines is folded or wrapped.  Document::NotifyModified tells *)
(* the decorations, Editor::NotifyModified the contraction state.          *)
(*                                                                         *)
(* Undo and redo change the text by the same insertions and deletions.     *)
(***************************************************************************)
EXTENDS LineVector, Decorations, Contraction

CONSTANTS
    Strings,    \* what is inserted, for each of the uses
    MaxLen,     \* bound: length of the text, for each of the uses
    MaxSteps,   \* bound: steps of a behaviour, for each of the uses
    Indicators, \* numbers of indicators
    MaxHeight   \* bound: rows of a line

\* Bound: a behaviour uses one of these besides the text.
Uses == {"marker", "indicators", "folds"}

ASSUME ViewAssumption ==
    /\ \A u \in Uses :
          /\ Strings[u] \subseteq Seq({CR, LF, "a"}) \ {<<>>}
          /\ MaxLen[u] \in Nat /\ MaxSteps[u] \in Nat
    /\ 0 \in Indicators
    /\ MaxHeight \in Nat \ {0}

VARIABLES
    use,
    steps,      \* how many there were
    text,
    lines,      \* Document::cb.lv
    deco,       \* Document::decorations
    cs,         \* Editor::cs
    shades,     \* history: the value of each indicator, for each character
    folds,      \* history: what was set for each line
    tagged      \* history: the marked line was also collapsed, and both are left

vars == <<use, steps, text, lines, deco, cs, shades, folds, tagged>>

Unfolded == [visible |-> TRUE, expanded |-> TRUE, height |-> 1]

Init ==
    /\ use \in Uses
    /\ steps = 0
    /\ text = <<>>
    /\ lines = EmptyLines
    /\ deco = NoDecorations
    /\ cs = Plain(1)
    /\ shades = [i \in Indicators |-> <<>>]
    /\ folds = <<Unfolded>>
    /\ tagged = FALSE

(***************************************************************************)
(* Editing.                                                                *)
(***************************************************************************)

\* Where Editor::NotifyModified puts or removes lines.
LineOfChange(l, pos) ==
    LET line == LineFromPosition(l, pos)
    IN  IF pos > PositionFromPartition(l.starts, line) THEN line + 1 ELSE line

\* Mutated Contracted: without looking where in its line the change is.
ContractedAt(c, before, after, pos) ==
    LET added == Lines(after) - Lines(before)
        at == LineFromPosition(after, pos)
    IN  IF added > 0 THEN InsertFoldLines(c, at, added) ELSE DeleteFoldLines(c, at, -added)

Contracted(c, before, after, pos) ==
    LET added == Lines(after) - Lines(before)
        at == LineOfChange(after, pos)
    IN  IF added > 0 THEN InsertFoldLines(c, at, added) ELSE DeleteFoldLines(c, at, -added)

\* The same for the history.
Folded(f, before, after, pos) ==
    LET added == Lines(after) - Lines(before)
        at == LineOfChange(after, pos)
    IN  SubSeq(f, 1, at) \o [k \in 1 .. added |-> Unfolded]
            \o SubSeq(f, at + 1 + Max({0, -added}), Len(f))

\* Characters that are inserted between two of an indicator get the value of the
\* one before; at either end of the document, or before a character without it, 0.
ShadeOfNew(shade, pos) ==
    IF pos \in 1 .. Len(shade) - 1 /\ shade[pos + 1] # 0 THEN shade[pos] ELSE 0

InsertString(pos, s) ==
    LET after == BasicInsertString(lines, text, pos, s)
    IN  /\ text' = Inserted(text, pos, s)
        /\ lines' = after
        /\ deco' = DecorationsInsert(deco, pos, Len(s))
        /\ cs' = Contracted(cs, lines, after, pos)
        /\ shades' = [i \in Indicators |->
               Inserted(shades[i], pos, [k \in 1 .. Len(s) |-> ShadeOfNew(shades[i], pos)])]
        /\ folds' = Folded(folds, lines, after, pos)
        /\ UNCHANGED <<use, tagged>>

Type ==
    \E pos \in 0 .. Len(text), s \in Strings[use] :
        Len(text) + Len(s) <= MaxLen[use] /\ InsertString(pos, s)

\* The start of the marked line is not among what goes, nor right behind it.
MarkedLineStays(pos, len) ==
    PositionFromPartition(lines.starts, lines.marker) \notin pos .. pos + len

DeleteChars(pos, len) ==
    LET after == BasicDeleteChars(lines, text, pos, len)
    IN  /\ text' = Deleted(text, pos, len)
        /\ lines' = after
        /\ deco' = DecorationsDelete(deco, pos, len)
        /\ cs' = Contracted(cs, lines, after, pos)
        /\ shades' = [i \in Indicators |-> Deleted(shades[i], pos, len)]
        /\ folds' = Folded(folds, lines, after, pos)
        /\ tagged' = (tagged /\ MarkedLineStays(pos, len))
        /\ UNCHANGED use

Erase ==
    \E pos \in 0 .. Len(text) - 1 : \E len \in 1 .. Len(text) - pos : DeleteChars(pos, len)

\* SCI_CLEARALL; Editor::ClearAll
ClearAll ==
    /\ text' = <<>>
    /\ lines' = IF text = <<>> THEN lines ELSE EmptyLines
    /\ deco' = IF text = <<>> THEN deco ELSE DecorationsDelete(deco, 0, Len(text))
    /\ cs' = Plain(1)
    /\ shades' = [i \in Indicators |-> <<>>]
    /\ folds' = <<Unfolded>>
    /\ tagged' = FALSE
    /\ UNCHANGED use

(***************************************************************************)
(* Markers.                                                                *)
(***************************************************************************)

AddMarker ==
    /\ use # "indicators"
    /\ lines.marker = NoMarker
    /\ \E line \in 0 .. Lines(lines) - 1 : lines' = [lines EXCEPT !.marker = line]
    /\ UNCHANGED <<use, text, deco, cs, shades, folds, tagged>>

(***************************************************************************)
(* Indicators.                                                             *)
(***************************************************************************)

SelectIndicator ==
    /\ use = "indicators"
    /\ \E i \in Indicators : deco' = SetCurrentIndicator(deco, i)
    /\ UNCHANGED <<use, text, lines, cs, shades, folds, tagged>>

\* SCI_INDICATORFILLRANGE and SCI_INDICATORCLEARRANGE
IndicatorRange ==
    /\ use = "indicators"
    /\ \E pos \in 0 .. Len(text) - 1 : \E len \in 1 .. Len(text) - pos, value \in {0, 1, 2} :
          /\ deco' = DecorationFillRange(deco, pos, value, len)
          /\ shades' = [shades EXCEPT ![deco.indicator] =
                 [k \in DOMAIN @ |-> IF k \in pos + 1 .. pos + len THEN value ELSE @[k]]]
    /\ UNCHANGED <<use, text, lines, cs, folds, tagged>>

(***************************************************************************)
(* Folding and wrapping.                                                   *)
(***************************************************************************)

\* SCI_SHOWLINES and SCI_HIDELINES; the first line cannot be hidden.
ShowLines(shown) ==
    /\ use = "folds"
    /\ \E first \in (IF shown THEN 0 ELSE 1) .. Lines(lines) - 1 :
       \E last \in first .. Lines(lines) - 1 :
          /\ cs' = SetVisible(cs, first, last, shown)
          /\ folds' = [k \in DOMAIN folds |->
                 IF k - 1 \in first .. last THEN [folds[k] EXCEPT !.visible = shown]
                 ELSE folds[k]]
    /\ UNCHANGED <<use, text, lines, deco, shades, tagged>>

SetFoldExpanded ==
    /\ use = "folds"
    /\ \E line \in 0 .. Lines(lines) - 1, expanded \in BOOLEAN :
          /\ cs' = SetExpanded(cs, line, expanded)
          /\ folds' = [folds EXCEPT ![line + 1].expanded = expanded]
          /\ tagged' = IF line # lines.marker THEN tagged ELSE ~expanded
    /\ UNCHANGED <<use, text, lines, deco, shades>>

\* WrapOneLine, or an annotation.
SetLineHeight ==
    /\ use = "folds"
    /\ \E line \in 0 .. Lines(lines) - 1, height \in 1 .. MaxHeight :
          /\ cs' = SetHeight(cs, line, height)
          /\ folds' = [folds EXCEPT ![line + 1].height = height]
    /\ UNCHANGED <<use, text, lines, deco, shades, tagged>>

\* The contraction state in ClearDocumentStyle
ShowAll ==
    /\ use = "folds"
    /\ cs' = Plain(LinesInDoc(cs))
    /\ folds' = [k \in DOMAIN folds |-> Unfolded]
    /\ tagged' = FALSE
    /\ UNCHANGED <<use, text, lines, deco, shades>>

Step ==
    \/ Type \/ Erase \/ ClearAll
    \/ AddMarker
    \/ SelectIndicator \/ IndicatorRange
    \/ ShowLines(TRUE) \/ ShowLines(FALSE) \/ SetFoldExpanded \/ SetLineHeight \/ ShowAll

Next == steps < MaxSteps[use] /\ steps' = steps + 1 /\ Step

Spec == Init /\ [][Next]_vars

(***************************************************************************)
(* Properties.                                                             *)
(***************************************************************************)

\* The text is built of the characters; each part is where its kind is used.
TypeOK ==
    /\ use \in Uses
    /\ steps \in 0 .. MaxSteps[use]
    /\ text \in Seq({CR, LF, "a"})
    /\ Len(text) <= MaxLen[use]
    /\ lines.marker \in {NoMarker} \cup 0 .. Lines(lines) - 1
    /\ deco.length = Len(text)
    /\ DOMAIN deco.list \subseteq Indicators
    /\ Len(folds) = Lines(lines)

\* Every variable has its type, and after any sequence of edits the index holds the
\* lines that the text has, whatever pairs of "\r" and "\n" the edits split or joined.
LinesFollowText == TypeOK /\ AreLineStarts(Starts(lines.starts), text)

\* A marker stays with the text its line began with, whatever is done next: an
\* insertion there pushes it on, and when the line break before it goes it
\* belongs to the line before.
MarkerFollowsText ==
    LET at == PositionFromPartition(lines.starts, lines.marker)
    IN  lines.marker # NoMarker =>
          /\ \A pos \in 0 .. Len(text), s \in Strings[use] :
                BasicInsertString(lines, text, pos, s).marker =
                    LineOf(Inserted(text, pos, s), IF at >= pos THEN at + Len(s) ELSE at)
          /\ \A pos \in 0 .. Len(text) - 1 : \A len \in 1 .. Len(text) - pos :
                len < Len(text) =>
                  BasicDeleteChars(lines, text, pos, len).marker =
                    LineOf(Deleted(text, pos, len),
                           IF at <= pos THEN at ELSE Max({pos, at - len}))

\* Every character keeps its indicators through insertions and deletions, and the
\* runs that hold them stay as few as they can be.
IndicatorsFollowText ==
    \A i \in Indicators :
        /\ [k \in 1 .. Len(text) |-> IndicatorAt(deco, i, k - 1)] = shades[i]
        /\ i \in DOMAIN deco.list =>
              RunsCheck(deco.list[i]) /\ RunsLength(deco.list[i]) = Len(text)

\* Indicators that are nowhere take no memory, and the one that is filled next is
\* never one that was deleted.
CurrentIsAlive ==
    /\ deco.current # Null => deco.current \in DOMAIN deco.list /\ deco.current = deco.indicator
    /\ \A i \in DOMAIN deco.list : ~IsEmptyDecoration(deco.list[i])

\* What was folded, collapsed or wrapped is so still, when lines come and go.
FoldsFollowLines ==
    /\ LinesInDoc(cs) = Lines(lines)
    /\ \A line \in 0 .. Lines(lines) - 1 :
          folds[line + 1] = [visible |-> GetVisible(cs, line), expanded |-> GetExpanded(cs, line),
                             height |-> GetHeight(cs, line)]

\* The rows on the screen are those of the visible lines, in order, whatever was
\* edited, folded and wrapped.  Row 0 is always taken to be line 0: that cannot be
\* hidden, but a hidden line becomes line 0 when those before it are deleted.
RowsMatchLines == HasItsRows(cs) /\ ShowsVisible(cs, 1 .. LinesDisplayed(cs) - 1)

\* A marked line that is collapsed is collapsed as long as it is there, although
\* the marker and the fold are moved by two pieces of code.
FoldKeepsItsMarker == tagged => ~GetExpanded(cs, lines.marker)

=============================================================================
