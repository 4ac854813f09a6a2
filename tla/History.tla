------------------------------ MODULE History -------------------------------
(***************************************************************************)
(* What undo and redo promise: a list of texts, the place in it where the  *)
(* document is, and the place that was saved.  An edit cuts off what was   *)
(* undone and either opens a new place or, when it goes on with the step   *)
(* before, changes the text of the place it is at.                         *)
(***************************************************************************)
EXTENDS Integers, Sequences

VARIABLES
    text,   \* the document
    hist,   \* the texts it had and, by Redo, can have again
    cur,    \* where in `hist' it is
    saved   \* where in `hist' it was saved, or NotSaved

vars == <<text, hist, cur, saved>>

NotSaved == 0

New == hist = <<text>> /\ cur = 1 /\ saved = 1

Init == New

\* Places that come after n are cut off; those of `more' are added.
Cut(n, more) ==
    /\ cur' = n + Len(more)
    /\ hist' = SubSeq(hist, 1, n) \o more
    /\ saved' = IF saved > n THEN NotSaved ELSE saved

NewStep == Cut(cur, <<text'>>)
GoOn == cur > 1 /\ Cut(cur - 1, <<text'>>)

\* A reload that fails empties the document in one step and fills it in another.
TwoSteps == Cut(cur, <<<<>>, text'>>)

Travel(c) ==
    /\ c \in 1 .. Len(hist)
    /\ cur' = c
    /\ text' = hist[c]
    /\ UNCHANGED <<hist, saved>>

Undo == Travel(cur - 1)
Redo == Travel(cur + 1)
Save == saved' = cur /\ UNCHANGED <<text, hist, cur>>

Next == NewStep \/ GoOn \/ TwoSteps \/ Undo \/ Redo \/ Save \/ New'

Spec == Init /\ [][Next]_vars

=============================================================================
