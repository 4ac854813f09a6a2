---------------------------- MODULE Partitioning ----------------------------
(***************************************************************************)
(* Scintilla's Partitioning: an interval divided into partitions (a text   *)
(* into lines, a document into runs of one style).  It keeps where each    *)
(* partition starts, and where the last one ends.  So that an insertion    *)
(* need not move all later starts, one change may be pending: `delta' has  *)
(* still to be added to every start after the partition `step'.            *)
(*                                                                         *)
(* Partitions are numbered from 0; body[k + 1] is the stored start of      *)
(* partition k.                                                            *)
(***************************************************************************)
EXTENDS Integers, SequencesExt, FiniteSetsExt

CONSTANT NearShare  \* a step is near when it is within 1/NearShare of the list

ASSUME PartitioningAssumption == NearShare \in Nat \ {0}

Bounds(p) == 0 .. Len(p.body) - 1
Partitions(p) == Len(p.body) - 1

PositionFromPartition(p, k) ==
    p.body[k + 1] + (IF k > p.step THEN p.delta ELSE 0)

\* What the representation stands for.
Starts(p) == [i \in DOMAIN p.body |-> PositionFromPartition(p, i - 1)]

\* The last partition that starts at pos or before, found by bisection; positions
\* after the end belong to the last one.
PartitionFromPosition(p, pos) ==
    Max({0} \cup {k \in 0 .. Partitions(p) - 1 : PositionFromPartition(p, k) <= pos})

EmptyPartitioning == [body |-> <<0, 0>>, step |-> 0, delta |-> 0]

\* SplitVectorWithRangeAdd::RangeAddDelta
RangeAdd(body, first, end, delta) ==
    [i \in DOMAIN body |-> body[i] + (IF i - 1 \in first .. end - 1 THEN delta ELSE 0)]

\* Mutated ApplyStep: one start too few is moved.
ApplyStepShort(p, upTo) ==
    LET moved == RangeAdd(p.body, p.step + 1, upTo, p.delta)
    IN  IF upTo >= Partitions(p)
        THEN [body |-> moved, step |-> Partitions(p), delta |-> 0]
        ELSE [body |-> moved, step |-> upTo, delta |-> p.delta]

ApplyStep(p, upTo) ==
    LET moved == RangeAdd(p.body, p.step + 1, upTo + 1, p.delta)
    IN  IF upTo >= Partitions(p)
        THEN [body |-> moved, step |-> Partitions(p), delta |-> 0]
        ELSE [body |-> moved, step |-> upTo, delta |-> p.delta]

BackStep(p, downTo) ==
    [p EXCEPT !.body = RangeAdd(@, downTo + 1, p.step + 1, -p.delta), !.step = downTo]

InsertPartition(p, k, pos) ==
    LET q == IF p.step < k THEN ApplyStep(p, k) ELSE p
    IN  [q EXCEPT !.body = InsertAt(@, k + 1, pos), !.step = @ + 1]

SetPartitionStartPosition(p, k, pos) ==
    [ApplyStep(p, k + 1) EXCEPT !.body[k + 1] = pos]

\* Mutated InsertText: a pending change is forgotten when another one begins.
InsertTextForgets(p, k, delta) == [p EXCEPT !.step = k, !.delta = delta]

\* The text of partition k grew by delta.
InsertText(p, k, delta) ==
    IF p.delta = 0 THEN [p EXCEPT !.step = k, !.delta = delta]
    ELSE IF k >= p.step THEN [ApplyStep(p, k) EXCEPT !.delta = @ + delta]
    ELSE IF k >= p.step - Len(p.body) \div NearShare
         THEN [BackStep(p, k) EXCEPT !.delta = @ + delta]
    ELSE [ApplyStep(p, Partitions(p)) EXCEPT !.step = k, !.delta = delta]

RemovePartition(p, k) ==
    LET q == IF k > p.step THEN ApplyStep(p, k) ELSE p
    IN  [q EXCEPT !.body = RemoveAt(@, k + 1), !.step = @ - 1]

=============================================================================
