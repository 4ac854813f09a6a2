---------------------------- MODULE UndoHistory -----------------------------
(***************************************************************************)
(* Scintilla's undo history: the array of insertions and deletions, with a *)
(* start action before each group that is undone at once and one after the *)
(* last.  Typing is gathered into groups by looking at the action before;  *)
(* BeginUndoAction and EndUndoAction make groups explicitly.               *)
(*                                                                         *)
(* A history is a record; acts[i + 1] is actions[i], up to maxAction.      *)
(* Actions of the container and tentative actions are never used by this   *)
(* editor and left out.                                                    *)
(***************************************************************************)
EXTENDS Integers, SequencesExt

StartAction(coal) == [at |-> "start", pos |-> 0, data |-> <<>>, coal |-> coal]

NewHistory == [acts |-> <<StartAction(TRUE)>>, cur |-> 0, depth |-> 0, save |-> 0]

\* maxAction
LastPlace(u) == Len(u.acts) - 1

Current(u) == u.acts[u.cur + 1]
Previous(u) == u.acts[u.cur]

IsSavePoint(u) == u.save = u.cur

\* Typing on, backspace, or deleting in place.
Continues(prev, at, pos, data) ==
    \/ prev.at = "start" /\ at = "insert" /\ pos = prev.pos + Len(prev.data)
    \/ prev.at = at /\ at = "insert" /\ pos = prev.pos + Len(prev.data)
    \/ /\ prev.at \in {"start", at}
       /\ at = "remove"
       /\ Len(data) \in {1, 2}
       /\ prev.pos \in {pos, pos + Len(data)}

\* Is the action put after the start action at the current place (a group of
\* its own) or over it (the group before goes on)?
StartsSequence(u, at, pos, data) ==
    \/ u.cur = 0
    \/ ~Current(u).coal
    \/ u.depth = 0 /\ (IsSavePoint(u) \/ ~Continues(Previous(u), at, pos, data))

AppendAction(u, at, pos, data) ==
    LET k == IF StartsSequence(u, at, pos, data) THEN u.cur + 1 ELSE u.cur
    IN  [u EXCEPT !.acts = SubSeq(@, 1, k)
                               \o <<[at |-> at, pos |-> pos, data |-> data, coal |-> TRUE],
                                    StartAction(TRUE)>>,
                  !.cur = k + 1,
                  !.save = IF u.cur < @ THEN -1 ELSE @]

\* What Begin and End do to the start action at the current place.
Fence(u) == [u EXCEPT !.acts[u.cur + 1].coal = FALSE]

BeginUndoAction(u) ==
    [(IF u.depth = 0 THEN Fence(u) ELSE u) EXCEPT !.depth = @ + 1]

\* Mutated EndUndoAction: what follows may join the group.
EndUndoActionOpen(u) == [u EXCEPT !.depth = @ - 1]

EndUndoAction(u) ==
    [(IF u.depth = 1 THEN Fence(u) ELSE u) EXCEPT !.depth = @ - 1]

\* Mutated DeleteUndoHistory: the save point is kept.
DeleteUndoHistoryKeeps(u) == [NewHistory EXCEPT !.depth = u.depth, !.save = u.save]

\* The depth is not reset.
DeleteUndoHistory(u) == [NewHistory EXCEPT !.depth = u.depth]

SetSavePoint(u) == [u EXCEPT !.save = u.cur]

CanUndo(u) == u.cur > 0
CanRedo(u) == LastPlace(u) > u.cur

\* The group that Undo goes back over, last action first: StartUndo counts back to
\* the start action before it, and that is where the current place is then.
UndoTo(u) ==
    CHOOSE i \in 0 .. u.cur - 1 :
        /\ u.acts[i + 1].at = "start"
        /\ \A j \in i + 1 .. u.cur - 1 : u.acts[j + 1].at # "start"

\* The group that Redo repeats, up to the next start action.
RedoTo(u) ==
    CHOOSE i \in u.cur + 1 .. LastPlace(u) :
        /\ u.acts[i + 1].at = "start"
        /\ \A j \in u.cur + 1 .. i - 1 : u.acts[j + 1].at # "start"

\* The actions from one place to the next, without the start action at the first.
Steps(u, from, to) == SubSeq(u.acts, from + 2, to)

=============================================================================
