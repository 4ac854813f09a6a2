------------------------------ MODULE RunStyles -----------------------------
(***************************************************************************)
(* Scintilla's RunStyles: a value for every position, kept as runs of one  *)
(* value.  A record of the partitioning into runs and of their values;     *)
(* styles[k + 1] is the value of run k, and one unused value follows.      *)
(***************************************************************************)
EXTENDS Partitioning

NewRunStyles == [starts |-> EmptyPartitioning, styles |-> <<0, 0>>]

Runs(r) == Partitions(r.starts)
RunStart(r, run) == PositionFromPartition(r.starts, run)
StyleOf(r, run) == r.styles[run + 1]
RunsLength(r) == RunStart(r, Runs(r))
ValueAt(r, pos) == StyleOf(r, PartitionFromPosition(r.starts, pos))

\* The first run that starts where the run of pos starts, if that is at pos.
RunFromPosition(r, pos) ==
    LET run == PartitionFromPosition(r.starts, pos)
    IN  Min({run} \cup {k \in 0 .. run : \A j \in k .. run : RunStart(r, j) = pos})

IsInsideRun(r, pos) == RunStart(r, RunFromPosition(r, pos)) < pos

\* A run starts at pos, of the value that is there.
SplitRun(r, pos) ==
    LET run == RunFromPosition(r, pos) + 1
    IN  IF IsInsideRun(r, pos)
        THEN [starts |-> InsertPartition(r.starts, run, pos),
              styles |-> InsertAt(r.styles, run + 1, ValueAt(r, pos))]
        ELSE r

\* The run that SplitRun returns.
RunAfterSplit(r, pos) == RunFromPosition(r, pos) + (IF IsInsideRun(r, pos) THEN 1 ELSE 0)

RemoveRun(r, run) ==
    [starts |-> RemovePartition(r.starts, run), styles |-> RemoveAt(r.styles, run + 1)]

\* RemoveRun(run) n times.
RemoveRuns(r, run, n) == FoldLeft(LAMBDA acc, i : RemoveRun(acc, run), r, [i \in 1 .. n |-> i])

RemoveRunIfEmpty(r, run) ==
    IF run < Runs(r) /\ Runs(r) > 1 /\ RunStart(r, run) = RunStart(r, run + 1)
    THEN RemoveRun(r, run) ELSE r

RemoveRunIfSameAsPrevious(r, run) ==
    IF run > 0 /\ run < Runs(r) /\ StyleOf(r, run - 1) = StyleOf(r, run)
    THEN RemoveRun(r, run) ELSE r

\* The runs from `first' to before `last' get the value; `end' is where they end.
FillRuns(r, first, last, end, value) ==
    LET JoinedAt(s) == RemoveRunIfSameAsPrevious(s, RunFromPosition(s, end))
        TidyAt(s) == RemoveRunIfEmpty(s, RunFromPosition(s, end))
        filled == RemoveRuns([r EXCEPT !.styles[first + 1] = value], first + 1, last - first - 1)
    IN  TidyAt(RemoveRunIfSameAsPrevious(JoinedAt(filled), first))

\* The runs from pos, which need not be the start of one, to `end', where the run
\* `runEnd' starts; a first run that has the value is left alone.
FillFrom(r, pos, end, runEnd, value) ==
    LET first == RunFromPosition(r, pos)
        skip == StyleOf(r, first) = value
        split == ~skip /\ RunStart(r, first) < pos
        runStart == IF skip \/ split THEN first + 1 ELSE first
        runEnd2 == IF split THEN runEnd + 1 ELSE runEnd
        ready == IF split THEN SplitRun(r, pos) ELSE r
    IN  IF runStart < runEnd2 THEN FillRuns(ready, runStart, runEnd2, end, value) ELSE ready

FillRange(r, pos, value, len) ==
    LET last == RunFromPosition(r, pos + len)
        trim == StyleOf(r, last) = value
        end == pos + len
    IN  IF len <= 0 \/ end > RunsLength(r) \/ (trim /\ pos >= RunStart(r, last)) THEN r
        ELSE IF trim THEN FillFrom(r, pos, RunStart(r, last), last, value)
        ELSE FillFrom(SplitRun(r, end), pos, end, RunAfterSplit(r, end), value)

\* Mutated InsertSpace: what is inserted where a run starts gets its value.
InsertSpaceInto(r, pos, len) ==
    [r EXCEPT !.starts = InsertText(@, RunFromPosition(r, pos), len)]

\* At the start of a run the run before grows; but a run without a value takes
\* what is inserted next to it, and at the very start a new one of them does.
InsertSpace(r, pos, len) ==
    LET run == RunFromPosition(r, pos)
        Grow(k) == [r EXCEPT !.starts = InsertText(@, k, len)]
    IN  IF RunStart(r, run) # pos \/ ValueAt(r, pos) = 0 THEN Grow(run)
        ELSE IF run = 0
        THEN [starts |-> InsertText(InsertPartition(r.starts, 1, 0), 0, len),
              styles |-> <<0, ValueAt(r, pos)>> \o Tail(r.styles)]
        ELSE Grow(run - 1)

DeleteRange(r, pos, len) ==
    LET first == RunFromPosition(r, pos)
        last == RunFromPosition(r, pos + len)
        r1 == SplitRun(SplitRun(r, pos), pos + len)
        runStart == RunAfterSplit(r, pos)
        runEnd == RunAfterSplit(SplitRun(r, pos), pos + len)
        Shrunk(s, k) == [s EXCEPT !.starts = InsertText(@, k, -len)]
        cut == RemoveRuns(Shrunk(r1, runStart), runStart, runEnd - runStart)
    IN  IF first = last THEN RemoveRunIfEmpty(Shrunk(r, first), first)
        ELSE RemoveRunIfSameAsPrevious(RemoveRunIfEmpty(cut, runStart), runStart)

AllSame(r) == \A run \in 1 .. Runs(r) - 1 : StyleOf(r, run) = StyleOf(r, run - 1)
AllSameAs(r, value) == AllSame(r) /\ StyleOf(r, 0) = value

\* RunStyles::Check
RunsCheck(r) ==
    /\ Len(r.styles) = Runs(r) + 1
    /\ RunsLength(r) >= 0
    /\ Last(r.styles) = 0
    /\ \A run \in 0 .. Runs(r) - 1 :
          RunsLength(r) > 0 => RunStart(r, run) < RunStart(r, run + 1)
    /\ \A run \in 1 .. Runs(r) - 1 : StyleOf(r, run) # StyleOf(r, run - 1)

=============================================================================
