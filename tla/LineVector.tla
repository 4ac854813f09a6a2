----------------------------- MODULE LineVector -----------------------------
(***************************************************************************)
(* Scintilla's index of the lines of a text, and a marker on one of them.  *)
(* The index is adjusted at every change instead of being computed again,  *)
(* also where a change splits or joins a "\r\n".                           *)
(***************************************************************************)
EXTENDS Partitioning, LineEnds

NoMarker == -1
EmptyLines == [starts |-> EmptyPartitioning, marker |-> NoMarker]

Lines(l) == Partitions(l.starts)
LineFromPosition(l, pos) == PartitionFromPosition(l.starts, pos)

\* Mutated InsertLine: a marker at the start of the text that is pushed down
\* stays above.
InsertLineAbove(l, line, pos, lineStart) ==
    [starts |-> InsertPartition(l.starts, line, pos),
     marker |-> IF l.marker >= line THEN l.marker + 1 ELSE l.marker]

\* A break at the start of a line pushes that line down with its marker.
InsertLine(l, line, pos, lineStart) ==
    LET at == IF line > 0 /\ lineStart THEN line - 1 ELSE line
    IN  [starts |-> InsertPartition(l.starts, line, pos),
         marker |-> IF l.marker >= at THEN l.marker + 1 ELSE l.marker]

\* The markers of a line that goes are merged into the line before.
RemoveLine(l, line) ==
    [starts |-> RemovePartition(l.starts, line),
     marker |-> IF l.marker >= line THEN l.marker - 1 ELSE l.marker]

SetLineStart(l, line, pos) ==
    [l EXCEPT !.starts = SetPartitionStartPosition(@, line, pos)]

GrowLine(l, line, delta) == [l EXCEPT !.starts = InsertText(@, line, delta)]

\* The next character `ch' of an insertion, which ends at `pos'.
ScanInserted(acc, ch, pos, lineStart) ==
    IF ch = LF /\ acc.prev = CR
    THEN [acc EXCEPT !.lines = SetLineStart(@, acc.next - 1, pos), !.prev = ch]
    ELSE IF ch \in {CR, LF}
    THEN [lines |-> InsertLine(acc.lines, acc.next, pos, lineStart),
          next |-> acc.next + 1, prev |-> ch]
    ELSE [acc EXCEPT !.prev = ch]

StartsLine(l, pos) == PositionFromPartition(l.starts, LineFromPosition(l, pos)) = pos

\* Before len characters come into t at pos: `next' is the line after them, and the
\* "\r" of a pair that they split ends a line of its own.
ScanStart(l, t, pos, len) ==
    LET line == LineFromPosition(l, pos)
        grown == GrowLine(l, line, len)
        prev == CharAt(t, pos - 1)
    IN  IF SplitsPair(t, pos)
        THEN [lines |-> InsertLine(grown, line + 1, pos, FALSE), next |-> line + 2, prev |-> prev]
        ELSE [lines |-> grown, next |-> line + 1, prev |-> prev]

\* The index once s was inserted into t at pos, up to the last character of s.
LinesScanned(l, t, pos, s) ==
    FoldLeftDomain(LAMBDA acc, i : ScanInserted(acc, s[i], pos + i, StartsLine(l, pos)),
                   ScanStart(l, t, pos, Len(s)), s)

\* Mutated BasicInsertString: a "\r" put before a "\n" ends a line of its own.
BasicInsertStringApart(l, t, pos, s) == LinesScanned(l, t, pos, s).lines

BasicInsertString(l, t, pos, s) ==
    LET done == LinesScanned(l, t, pos, s)
    IN  IF CharAt(t, pos) = LF /\ Last(s) = CR
        THEN RemoveLine(done.lines, done.next - 1)
        ELSE done.lines

\* The character that goes at i, of those from pos, ends a line which goes: the "\r"
\* of a pair goes with its "\n", and the "\n" of a pair that is split ends none.
EndsLineThatGoes(t, pos, i) ==
    \/ CharAt(t, i) = CR /\ CharAt(t, i + 1) # LF
    \/ CharAt(t, i) = LF /\ ~(i = pos /\ SplitsPair(t, pos))

\* The index once the line ends among the len characters of t from pos are removed,
\* each from the line number `here'.
LinesRemoved(l, t, pos, len, here) ==
    FoldLeft(LAMBDA acc, i : IF EndsLineThatGoes(t, pos, i) THEN RemoveLine(acc, here) ELSE acc,
             l, [k \in 1 .. len |-> pos + k - 1])

\* What is left of the line before takes its end from what follows.
BasicDeleteChars(l, t, pos, len) ==
    IF pos = 0 /\ len = Len(t) THEN EmptyLines
    ELSE
    LET line == LineFromPosition(l, pos) + 1
        shrunk == GrowLine(l, line - 1, -len)
        split == SplitsPair(t, pos)
        first == IF split THEN SetLineStart(shrunk, line, pos) ELSE shrunk
        here == IF split THEN line + 1 ELSE line
        done == LinesRemoved(first, t, pos, len, here)
    IN  IF CharAt(t, pos - 1) = CR /\ CharAt(t, pos + len) = LF
        THEN SetLineStart(RemoveLine(done, here - 1), here - 1, pos + 1)
        ELSE done

=============================================================================
