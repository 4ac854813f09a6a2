------------------------------ MODULE LineEnds ------------------------------
(***************************************************************************)
(* Texts as sequences of characters, of which only those that end lines    *)
(* are told apart: a line ends after "\n", "\r" or "\r\n".                  *)
(***************************************************************************)
EXTENDS Integers, Sequences, FiniteSets

CR == "cr"
LF == "lf"
CRLF == <<CR, LF>>
EolModes == {CRLF, <<CR>>, <<LF>>}

\* SplitVector::ValueAt gives 0 outside; the k-th character, from 0.
CharAt(t, k) == IF k \in 0 .. Len(t) - 1 THEN t[k + 1] ELSE "none"

Inserted(t, pos, s) == SubSeq(t, 1, pos) \o s \o SubSeq(t, pos + 1, Len(t))
Deleted(t, pos, len) == SubSeq(t, 1, pos) \o SubSeq(t, pos + len + 1, Len(t))

SplitsPair(t, pos) == CharAt(t, pos - 1) = CR /\ CharAt(t, pos) = LF

\* Where the line ends of t are, and the one that is at p.
LineEnds(t) ==
    {p \in 0 .. Len(t) - 1 : \/ CharAt(t, p) = CR
                             \/ CharAt(t, p) = LF /\ CharAt(t, p - 1) # CR}

EndAt(t, p) == IF CharAt(t, p) = CR /\ CharAt(t, p + 1) = LF THEN CRLF ELSE <<CharAt(t, p)>>

\* Where a line ends and the next one starts.
LineBreaks(t) ==
    {i \in DOMAIN t : t[i] = LF \/ (t[i] = CR /\ CharAt(t, i) # LF)}

\* The starts of all lines of t, and where the last one ends.
AreLineStarts(starts, t) ==
    /\ Len(starts) > 1 /\ starts[1] = 0 /\ starts[Len(starts)] = Len(t)
    /\ {starts[i] : i \in 2 .. Len(starts) - 1} = LineBreaks(t)
    /\ \A i, j \in 2 .. Len(starts) - 1 : i < j => starts[i] < starts[j]

LineOf(t, pos) == Cardinality({i \in LineBreaks(t) : i <= pos})

=============================================================================
