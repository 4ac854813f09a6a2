----------------------------- MODULE Contraction ----------------------------
(***************************************************************************)
(* Scintilla's ContractionState: which lines are shown, which fold headers *)
(* are expanded, how many display lines each line takes (wrapping,         *)
(* annotations), and where each line is displayed.  While nothing is       *)
(* folded or wrapped only the number of lines is kept (OneToOne).          *)
(***************************************************************************)
EXTENDS RunStyles

OneToOne(c) == c.data = FALSE

\* ShowAll, or Clear for one line.
Plain(lines) ==
    [data |-> FALSE, linesInDocument |-> lines, visible |-> NewRunStyles,
     expanded |-> NewRunStyles, heights |-> NewRunStyles, displayLines |-> EmptyPartitioning]

LinesInDoc(c) == IF OneToOne(c) THEN c.linesInDocument ELSE Partitions(c.displayLines) - 1

DisplayFromDoc(c, line) ==
    IF OneToOne(c) THEN Min({line, c.linesInDocument})
    ELSE PositionFromPartition(c.displayLines, Min({line, Partitions(c.displayLines)}))

LinesDisplayed(c) == DisplayFromDoc(c, LinesInDoc(c))

DocFromDisplay(c, row) ==
    IF OneToOne(c) THEN row
    ELSE IF row <= 0 THEN 0
    ELSE PartitionFromPosition(c.displayLines, Min({row, LinesDisplayed(c)}))

GetVisible(c, line) ==
    OneToOne(c) \/ line >= RunsLength(c.visible) \/ ValueAt(c.visible, line) = 1
GetExpanded(c, line) == OneToOne(c) \/ ValueAt(c.expanded, line) = 1
GetHeight(c, line) == IF OneToOne(c) THEN 1 ELSE ValueAt(c.heights, line)

SetValueAt(r, line, value) == FillRange(r, line, value, 1)

WithSpace(r, line) == SetValueAt(InsertSpace(r, line, 1), line, 1)

InsertFoldLine(c, line) ==
    IF OneToOne(c) THEN [c EXCEPT !.linesInDocument = @ + 1]
    ELSE [c EXCEPT !.visible = WithSpace(@, line),
                   !.expanded = WithSpace(@, line),
                   !.heights = WithSpace(@, line),
                   !.displayLines =
                       InsertText(InsertPartition(@, line, DisplayFromDoc(c, line)), line, 1)]

InsertFoldLines(c, line, n) ==
    FoldLeft(LAMBDA acc, i : InsertFoldLine(acc, line + i - 1), c, [i \in 1 .. n |-> i])

EnsureData(c) ==
    IF OneToOne(c)
    THEN InsertFoldLines([Plain(1) EXCEPT !.data = TRUE], 0, c.linesInDocument)
    ELSE c

\* Mutated DeleteFoldLine: a hidden line is taken to be displayed.
DeleteFoldLineShown(c, line) ==
    IF OneToOne(c) THEN [c EXCEPT !.linesInDocument = @ - 1]
    ELSE [c EXCEPT !.visible = DeleteRange(@, line, 1),
                   !.expanded = DeleteRange(@, line, 1),
                   !.heights = DeleteRange(@, line, 1),
                   !.displayLines =
                       RemovePartition(InsertText(@, line, -ValueAt(c.heights, line)), line)]

DeleteFoldLine(c, line) ==
    IF OneToOne(c) THEN [c EXCEPT !.linesInDocument = @ - 1]
    ELSE [c EXCEPT !.visible = DeleteRange(@, line, 1),
                   !.expanded = DeleteRange(@, line, 1),
                   !.heights = DeleteRange(@, line, 1),
                   !.displayLines =
                       RemovePartition(IF GetVisible(c, line)
                                       THEN InsertText(@, line, -ValueAt(c.heights, line))
                                       ELSE @, line)]

DeleteFoldLines(c, line, n) ==
    FoldLeft(LAMBDA acc, i : DeleteFoldLine(acc, line), c, [i \in 1 .. n |-> i])

ShowLine(c, line, shown) ==
    IF GetVisible(c, line) = shown THEN c
    ELSE [c EXCEPT !.visible = SetValueAt(@, line, IF shown THEN 1 ELSE 0),
                   !.displayLines = InsertText(@, line, IF shown THEN ValueAt(c.heights, line)
                                                        ELSE -ValueAt(c.heights, line))]

SetVisible(c, first, last, shown) ==
    IF OneToOne(c) /\ shown THEN c
    ELSE IF first > last \/ first < 0 \/ last >= LinesInDoc(c) THEN EnsureData(c)
    ELSE FoldLeft(LAMBDA acc, i : ShowLine(acc, first + i - 1, shown),
                  EnsureData(c), [i \in 1 .. last - first + 1 |-> i])

SetExpanded(c, line, expanded) ==
    IF OneToOne(c) /\ expanded THEN c
    ELSE LET Changed(d) ==
                IF GetExpanded(d, line) = expanded THEN d
                ELSE [d EXCEPT !.expanded = SetValueAt(@, line, IF expanded THEN 1 ELSE 0)]
         IN  Changed(EnsureData(c))

SetHeight(c, line, height) ==
    IF (OneToOne(c) /\ height = 1) \/ line >= LinesInDoc(c) THEN c
    ELSE LET Grown(d) == InsertText(d.displayLines, line, height - GetHeight(d, line))
             Changed(d) ==
                IF GetHeight(d, line) = height THEN d
                ELSE [d EXCEPT !.displayLines = IF GetVisible(d, line) THEN Grown(d) ELSE @,
                               !.heights = SetValueAt(@, line, height)]
         IN  Changed(EnsureData(c))

\* ContractionState::Check: the rows show visible lines, and every line has as many
\* rows as it needs, none when it is hidden.
ShowsVisible(c, rows) == \A row \in rows : GetVisible(c, DocFromDisplay(c, row))
HasItsRows(c) ==
    \A line \in 0 .. LinesInDoc(c) - 1 :
        DisplayFromDoc(c, line + 1) - DisplayFromDoc(c, line) =
            IF GetVisible(c, line) THEN GetHeight(c, line) ELSE 0

=============================================================================
