--------------------------- MODULE SessionProofs ----------------------------
(***************************************************************************)
(* Theorems about Session, for any set of files, any limit and any number  *)
(* of documents: the editor leaves with several tabs only after the user   *)
(* agreed, it never is without a document, and the session file brings the *)
(* documents back that were open.                                          *)
(***************************************************************************)
EXTENDS Session, SequenceTheorems, TLAPS

\* The fold of Restored: e is the entry of the session file that is opened next.
Opening(c, w, e) == OpenEntry(w, e)

Fold == INSTANCE FoldProofs WITH Op <- Opening

(***************************************************************************)
(* Leaving: the inductive invariant.  An answer that is kept is spent when the      *)
(* editor tries to leave again; it is kept beyond an attempt only by the   *)
(* hook that made this attempt fail.                                       *)
(***************************************************************************)

KeptByHook == confirmed /\ mode # "leaving" => failed

SpentUnasked == unasked => failed /\ mode = "leaving"

LeaveInv ==
    /\ confirmed \in BOOLEAN /\ failed \in BOOLEAN /\ unasked \in BOOLEAN
    /\ KeptByHook
    /\ SpentUnasked

USE DEF LeaveInv, KeptByHook, SpentUnasked

LEMMA InitLeaveInv == Init => LeaveInv
BY DEF Init

(***************************************************************************)
(* The steps.                                                              *)
(***************************************************************************)

\* Steps that neither ask nor enter or end an attempt to leave.
LEMMA QuietSteps ==
    ASSUME LeaveInv,
           UNCHANGED <<confirmed, failed, unasked>>,
           mode' = mode \/ (mode # "leaving" /\ mode' # "leaving")
    PROVE  LeaveInv'
OBVIOUS

LEMMA OpeningSteps ==
    ASSUME LeaveInv, NEW name, NEW ro, Open(name, ro)
    PROVE  LeaveInv'
BY DEF Open, history

LEMMA WorkingSteps ==
    ASSUME LeaveInv,
           \/ Edit \/ Save \/ SetReadOnly \/ Close
           \/ \E name \in Files : SaveAs(name)
           \/ \E i \in DOMAIN tabs : Activate(i)
    PROVE  LeaveInv'
<1>1. UNCHANGED <<mode, confirmed, failed, unasked>>
    BY DEF Edit, Save, SetReadOnly, Close, SaveAs, Activate, Become, Idle, history
<1> QED BY <1>1

LEMMA LeavingSteps ==
    ASSUME LeaveInv, LeaveNot \/ LeaveFails \/ Leave
    PROVE  LeaveInv'
<1>1. CASE LeaveNot
    BY <1>1 DEF LeaveNot, Idle, history
<1>2. CASE LeaveFails
    BY <1>2 DEF LeaveFails, MustAsk, Idle
<1>3. CASE Leave
    BY <1>3 DEF Leave, MustAsk, Idle
<1> QED BY <1>1, <1>2, <1>3

LEMMA ClosingSteps ==
    ASSUME LeaveInv, CloseAll \/ CloseNext \/ CloseStops \/ CloseAllEnds
    PROVE  LeaveInv'
<1>1. CASE CloseAll
    BY <1>1 DEF CloseAll, history
<1>2. CASE CloseNext
    BY <1>2 DEF CloseNext
<1>3. CASE CloseStops
    BY <1>3 DEF CloseStops
<1>4. CASE CloseAllEnds
    BY <1>4 DEF CloseAllEnds, history
<1> QED BY <1>1, <1>2, <1>3, <1>4

LEMMA EndingSteps ==
    ASSUME LeaveInv, Gone \/ Start \/ Restore
    PROVE  LeaveInv'
<1>1. CASE Gone
    BY <1>1 DEF Gone
<1>2. ASSUME NEW w, Begin(w) PROVE LeaveInv'
    BY <1>2 DEF Begin
<1> QED BY <1>1, <1>2 DEF Start, Restore

LEMMA NextLeaveInv == LeaveInv /\ [Next]_vars => LeaveInv'
<1> SUFFICES ASSUME LeaveInv, [Next]_vars PROVE LeaveInv'
    OBVIOUS
<1>1. CASE \E name \in Files \cup {NoName}, ro \in BOOLEAN : Open(name, ro)
    BY <1>1, OpeningSteps
<1>2. CASE \/ Edit \/ Save \/ SetReadOnly \/ Close
           \/ \E name \in Files : SaveAs(name)
           \/ \E i \in DOMAIN tabs : Activate(i)
    BY <1>2, WorkingSteps
<1>3. CASE LeaveNot \/ LeaveFails \/ Leave
    BY <1>3, LeavingSteps
<1>4. CASE CloseAll \/ CloseNext \/ CloseStops \/ CloseAllEnds
    BY <1>4, ClosingSteps
<1>5. CASE Gone \/ Start \/ Restore
    BY <1>5, EndingSteps
<1>6. CASE UNCHANGED vars
    BY <1>6 DEF vars
<1> QED BY <1>1, <1>2, <1>3, <1>4, <1>5, <1>6 DEF Next

\* The editor leaves with several tabs only when the user agreed now, or when an
\* earlier agreed attempt ended in the hook: an answer does not outlive a
\* cancelled attempt (TopWindowBase::close, not_confirmed).
THEOREM AskedUnlessFailedHolds == Spec => []AskedUnlessFailed
<1>1. LeaveInv => AskedUnlessFailed
    BY DEF AskedUnlessFailed
<1> QED BY InitLeaveInv, NextLeaveInv, <1>1, PTL DEF Spec

(***************************************************************************)
(* The window and the session file: the inductive invariant.               *)
(***************************************************************************)

Named == Files \cup {NoName}

WindowType == [tabs : Seq(Docs), active : Nat]

\* The limit holds, and one of the tabs is active, if there is one.
GoodWindow(w) ==
    /\ w \in WindowType
    /\ Len(w.tabs) <= MaxFiles
    /\ w.active <= Len(w.tabs)
    /\ w.active = 0 <=> w.tabs = <<>>

SessionType ==
    /\ mode \in {"idle", "closing", "leaving", "off"}
    /\ data \in Seq(Entries)
    /\ focused \in Named
    /\ file \in [docs : Seq(Entries), last : Named]
    /\ file.docs = <<>> => file.last = NoName
    /\ closed \in Seq(Entries)

\* With a limit of one the last document cannot be replaced.
IdleHasDocument == MaxFiles > 1 /\ mode = "idle" => tabs # <<>>

\* While the editor leaves, what was closed is what will be written, and the document
\* that had the focus is still open or among them.
LeavingIsNoted ==
    mode = "leaving" =>
        /\ data = closed
        /\ focused # NoName => focused \in Names(tabs) \cup Names(closed)

\* When it has left, the file holds them.
FileIsClosed ==
    mode = "off" /\ written =>
        \/ closed = <<>>
        \/ /\ file = [docs |-> closed, last |-> focused]
           /\ focused # NoName => focused \in Names(closed)

SessionInv ==
    /\ GoodWindow(Window)
    /\ SessionType
    /\ IdleHasDocument
    /\ LeavingIsNoted
    /\ FileIsClosed

(***************************************************************************)
(* Opening a document.                                                     *)
(***************************************************************************)

LEMMA InSequence ==
    ASSUME NEW D, NEW s \in Seq(D)
    PROVE  /\ Len(s) \in Nat /\ DOMAIN s = 1 .. Len(s)
           /\ \A i \in 1 .. Len(s) : s[i] \in D
           /\ s = <<>> <=> Len(s) = 0
<1>1. Len(s) \in Nat /\ DOMAIN s = 1 .. Len(s)
    BY LenProperties
<1>2. \A i \in 1 .. Len(s) : s[i] \in D
    BY ElementOfSeq
<1>3. s = <<>> <=> Len(s) = 0
    BY EmptySeq
<1> QED BY <1>1, <1>2, <1>3

LEMMA InNames ==
    ASSUME NEW D, NEW s \in Seq(D)
    PROVE  \A f : f \in Names(s) <=> \E i \in 1 .. Len(s) : s[i].name = f
<1>1. DOMAIN s = 1 .. Len(s)
    BY InSequence
<1> QED BY <1>1 DEF Names

NewTab(name, ro) == [name |-> name, dirty |-> FALSE, ro |-> ro]

LEMMA Appended ==
    ASSUME NEW D, NEW s \in Seq(D), NEW d \in D
    PROVE  /\ Append(s, d) \in Seq(D)
           /\ Len(Append(s, d)) = Len(s) + 1
           /\ \A i \in 1 .. Len(s) : Append(s, d)[i] = s[i]
           /\ Append(s, d)[Len(s) + 1] = d
BY AppendProperties

LEMMA TailOf ==
    ASSUME NEW D, NEW s \in Seq(D), s # <<>>
    PROVE  /\ Tail(s) \in Seq(D)
           /\ Len(Tail(s)) = Len(s) - 1
           /\ \A i \in 1 .. Len(s) - 1 : Tail(s)[i] = s[i + 1]
BY HeadTailProperties

\* The first of the tabs with a name that is open.
LEMMA FirstAt ==
    ASSUME NEW w, w.tabs \in Seq(Docs), NEW name, OpenAt(w, name) # {}
    PROVE  LET i == CHOOSE i \in OpenAt(w, name) : \A j \in OpenAt(w, name) : i <= j
           IN  i \in 1 .. Len(w.tabs) /\ w.tabs[i].name = name
<1>1. OpenAt(w, name) \subseteq 1 .. Len(w.tabs)
    BY InSequence DEF OpenAt
<1>2. PICK i \in OpenAt(w, name) : \A j \in OpenAt(w, name) : i <= j
    <2>1. OpenAt(w, name) \subseteq Nat
        BY <1>1
    <2> QED BY <2>1, Fold!LeastOf
<1>3. (CHOOSE k \in OpenAt(w, name) : \A j \in OpenAt(w, name) : k <= j) \in OpenAt(w, name)
    BY <1>2
<1> QED BY <1>1, <1>3 DEF OpenAt

\* What OpenFile does to the window, in three cases.
LEMMA OpenedCases ==
    ASSUME NEW w, GoodWindow(w), NEW name \in Named, NEW ro \in BOOLEAN
    PROVE  LET v == Opened(w, name, ro)
               s == Append(w.tabs, NewTab(name, ro))
           IN  /\ v \in WindowType
               /\ \/ Len(w.tabs) = MaxFiles /\ v = w
                  \/ /\ name # NoName /\ OpenAt(w, name) # {}
                     /\ v.tabs = w.tabs
                     /\ v.active \in 1 .. Len(w.tabs) /\ w.tabs[v.active].name = name
                  \/ /\ name = NoName \/ OpenAt(w, name) = {}
                     /\ Len(w.tabs) < MaxFiles
                     /\ \/ v.tabs = s /\ v.active = Len(w.tabs) + 1
                        \/ /\ Len(w.tabs) = 1 /\ w.tabs[1] = Blank /\ name # NoName
                           /\ v.tabs = <<NewTab(name, ro)>> /\ v.active = 1
<1> DEFINE v == Opened(w, name, ro)
           s == Append(w.tabs, NewTab(name, ro))
           first == CHOOSE i \in OpenAt(w, name) : \A j \in OpenAt(w, name) : i <= j
<1>1. w \in WindowType /\ w.tabs \in Seq(Docs) /\ Len(w.tabs) \in Nat /\ Len(w.tabs) <= MaxFiles
    BY InSequence DEF GoodWindow, WindowType
<1>2. MaxFiles \in Nat
    BY SessionAssumption
<1>3. NewTab(name, ro) \in Docs
    BY DEF NewTab, Docs, Named
<1>4. CASE Len(w.tabs) >= MaxFiles
    BY <1>1, <1>2, <1>4 DEF Opened
<1>5. CASE ~(Len(w.tabs) >= MaxFiles) /\ name # NoName /\ OpenAt(w, name) # {}
    <2>1. v = [w EXCEPT !.active = first]
        BY <1>5 DEF Opened
    <2>2. first \in 1 .. Len(w.tabs) /\ w.tabs[first].name = name
        BY <1>1, <1>5, FirstAt
    <2> HIDE DEF first
    <2>3. v \in WindowType /\ v.tabs = w.tabs /\ v.active = first
        BY <1>1, <2>1, <2>2 DEF WindowType
    <2> HIDE DEF v
    <2> QED BY <1>5, <2>2, <2>3 DEF v
<1>6. CASE ~(Len(w.tabs) >= MaxFiles) /\ ~(name # NoName /\ OpenAt(w, name) # {})
    <2>1. v = WithoutBlank([tabs |-> s, active |-> Len(w.tabs) + 1])
        BY <1>6 DEF Opened, NewTab
    <2>2. /\ s \in Seq(Docs) /\ Len(s) = Len(w.tabs) + 1 /\ s[Len(w.tabs) + 1] = NewTab(name, ro)
          /\ \A i \in 1 .. Len(w.tabs) : s[i] = w.tabs[i]
        BY <1>1, <1>3, Appended
    <2> HIDE DEF s
    <2>3. Len(w.tabs) < MaxFiles
        BY <1>1, <1>2, <1>6
    <2>4. CASE Len(s) = 2 /\ s[1] = Blank /\ s[2].name # NoName
        <3>1. v = [tabs |-> <<s[2]>>, active |-> 1]
            BY <2>1, <2>4 DEF WithoutBlank
        <3>2. Len(w.tabs) = 1 /\ s[2] = NewTab(name, ro) /\ w.tabs[1] = Blank /\ name # NoName
            <4>1. Len(w.tabs) = 1 /\ 1 \in 1 .. Len(w.tabs)
                <5>1. PICK n \in Nat : n = Len(w.tabs)
                    BY <1>1
                <5>2. n + 1 = 2
                    BY <2>2, <2>4, <5>1
                <5>3. n = 1
                    BY <5>2
                <5> QED BY <5>1, <5>3
            <4>2. s[2] = NewTab(name, ro) /\ s[1] = w.tabs[1]
                BY <2>2, <4>1
            <4> QED BY <2>4, <4>1, <4>2 DEF NewTab
        <3>3. v.tabs = <<NewTab(name, ro)>> /\ v.active = 1 /\ v \in WindowType
            BY <3>1, <3>2, <1>3 DEF WindowType
        <3> HIDE DEF v
        <3> QED BY <1>6, <2>3, <3>2, <3>3 DEF v
    <2>5. CASE ~(Len(s) = 2 /\ s[1] = Blank /\ s[2].name # NoName)
        <3>1. v = [tabs |-> s, active |-> Len(w.tabs) + 1]
            BY <2>1, <2>5 DEF WithoutBlank
        <3>2. v.tabs = s /\ v.active = Len(w.tabs) + 1 /\ v \in WindowType
            BY <3>1, <2>2, <1>1 DEF WindowType
        <3> HIDE DEF v
        <3> QED BY <1>6, <2>3, <3>2 DEF v, s
    <2> QED BY <2>4, <2>5
<1> QED BY <1>4, <1>5, <1>6

\* The window stays good, has a tab, and loses no name.
LEMMA OpenedKeeps ==
    ASSUME NEW w, GoodWindow(w), NEW name \in Named, NEW ro \in BOOLEAN
    PROVE  /\ GoodWindow(Opened(w, name, ro))
           /\ Opened(w, name, ro).tabs # <<>>
           /\ \A f \in Files : f \in Names(w.tabs) => f \in Names(Opened(w, name, ro).tabs)
<1> DEFINE v == Opened(w, name, ro)
           s == Append(w.tabs, NewTab(name, ro))
<1>1. /\ w.tabs \in Seq(Docs) /\ Len(w.tabs) \in Nat /\ Len(w.tabs) <= MaxFiles
      /\ w.tabs = <<>> <=> Len(w.tabs) = 0
    BY InSequence DEF GoodWindow, WindowType
<1>2. MaxFiles \in Nat /\ MaxFiles > 0
    BY SessionAssumption
<1>3. NewTab(name, ro) \in Docs
    BY DEF NewTab, Docs, Named
<1>4. v \in WindowType
    BY OpenedCases
<1>5. CASE Len(w.tabs) = MaxFiles /\ v = w
    BY <1>1, <1>2, <1>5
<1>6. CASE v.tabs = w.tabs /\ v.active \in 1 .. Len(w.tabs)
    <2>1. v.active # 0 /\ v.active <= Len(w.tabs) /\ w.tabs # <<>>
        BY <1>6, <1>1
    <2> HIDE DEF v
    <2>2. GoodWindow(v)
        BY <1>1, <1>4, <1>6, <2>1 DEF GoodWindow
    <2>3. v.tabs # <<>> /\ \A f \in Files : f \in Names(w.tabs) => f \in Names(v.tabs)
        BY <1>6, <2>1
    <2> QED BY <2>2, <2>3 DEF v
<1>7. CASE Len(w.tabs) < MaxFiles /\ v.tabs = s /\ v.active = Len(w.tabs) + 1
    <2>1. /\ s \in Seq(Docs) /\ Len(s) = Len(w.tabs) + 1
          /\ \A i \in 1 .. Len(w.tabs) : s[i] = w.tabs[i]
        BY <1>1, <1>3, Appended
    <2> HIDE DEF s
    <2>2. s # <<>> /\ Len(s) <= MaxFiles /\ Len(s) > 0
        BY <1>1, <1>2, <1>7, <2>1, InSequence
    <2>3. \A f : f \in Names(w.tabs) => f \in Names(s)
        <3>1. \A i \in 1 .. Len(w.tabs) : i \in 1 .. Len(s)
            BY <1>1, <2>1
        <3> QED BY <1>1, <2>1, <3>1, InNames
    <2> HIDE DEF v
    <2>4. GoodWindow(v)
        BY <1>1, <1>4, <1>7, <2>1, <2>2 DEF GoodWindow
    <2> QED BY <1>7, <2>2, <2>3, <2>4 DEF v
<1>8. CASE /\ Len(w.tabs) = 1 /\ w.tabs[1] = Blank
           /\ v.tabs = <<NewTab(name, ro)>> /\ v.active = 1
    <2>1. /\ Len(v.tabs) = 1 /\ v.tabs # <<>>
        BY <1>8
    <2>2. GoodWindow(v)
        BY <1>2, <1>4, <1>8, <2>1 DEF GoodWindow
    <2>3. \A f \in Files : f \notin Names(w.tabs)
        <3>1. \A f \in Files : f # Blank.name
            BY SessionAssumption DEF Blank
        <3>2. \A i \in 1 .. Len(w.tabs) : w.tabs[i] = Blank
            BY <1>8
        <3> QED BY <1>1, <3>1, <3>2, InNames
    <2> QED BY <2>1, <2>2, <2>3
<1>9. \/ Len(w.tabs) = MaxFiles /\ v = w
      \/ v.tabs = w.tabs /\ v.active \in 1 .. Len(w.tabs)
      \/ Len(w.tabs) < MaxFiles /\ v.tabs = s /\ v.active = Len(w.tabs) + 1
      \/ /\ Len(w.tabs) = 1 /\ w.tabs[1] = Blank
         /\ v.tabs = <<NewTab(name, ro)>> /\ v.active = 1
    BY OpenedCases
<1> HIDE DEF v, s
<1> QED BY <1>5, <1>6, <1>7, <1>8, <1>9 DEF v

(***************************************************************************)
(* The steps.                                                              *)
(***************************************************************************)

USE DEF Window

LEMMA InitSession == Init => SessionInv
<1> SUFFICES ASSUME Init PROVE SessionInv
    OBVIOUS
<1>1. /\ Blank \in Docs /\ MaxFiles \in Nat /\ MaxFiles >= 1
    BY SessionAssumption DEF Blank, Docs
<1>2. GoodWindow(Window)
    BY <1>1 DEF Init, GoodWindow, WindowType
<1>3. SessionType
    BY DEF Init, SessionType, Named
<1> QED BY <1>2, <1>3 DEF Init, SessionInv, IdleHasDocument, LeavingIsNoted, FileIsClosed

\* Opening a document in the window that is there.
LEMMA OpenKeeps ==
    ASSUME SessionInv, NEW name \in Named, NEW ro \in BOOLEAN, Open(name, ro)
    PROVE  SessionInv'
<1> DEFINE w == Opened(Window, name, ro)
<1>1. /\ GoodWindow(w) /\ w.tabs # <<>>
      /\ \A f \in Files : f \in Names(tabs) => f \in Names(w.tabs)
    BY OpenedKeeps DEF SessionInv
<1>2. /\ tabs' = w.tabs /\ active' = w.active
      /\ UNCHANGED <<mode, data, focused, confirmed, file, history>>
    BY DEF Open, ShowWindow
<1> HIDE DEF w
<1>3. Window' = w
    BY <1>1, <1>2 DEF GoodWindow, WindowType
<1>4. GoodWindow(Window)'
    BY <1>1, <1>3
<1>5. SessionType'
    BY <1>2 DEF SessionInv, SessionType, history
<1>6. LeavingIsNoted'
    BY <1>1, <1>2 DEF SessionInv, LeavingIsNoted, SessionType, Named, history
<1>7. FileIsClosed'
    BY <1>2 DEF SessionInv, FileIsClosed, history
<1> QED BY <1>1, <1>2, <1>4, <1>5, <1>6, <1>7 DEF SessionInv, IdleHasDocument

\* Working on a document changes its tab only.
LEMMA BecomeKeeps ==
    ASSUME SessionInv, NEW doc \in Docs, Become(doc)
    PROVE  SessionInv'
<1>1. /\ mode = "idle" /\ active # 0
      /\ tabs \in Seq(Docs) /\ active \in Nat /\ active <= Len(tabs) /\ Len(tabs) <= MaxFiles
    BY DEF SessionInv, GoodWindow, WindowType, Become, Idle
<1>2. /\ tabs' = [tabs EXCEPT ![active] = doc]
      /\ UNCHANGED <<mode, active, data, focused, confirmed, file, history>>
    BY DEF Become
<1>3. tabs' \in Seq(Docs) /\ Len(tabs') = Len(tabs) /\ Len(tabs) \in Nat /\ tabs' # <<>>
    <2>1. active \in 1 .. Len(tabs) /\ Len(tabs) \in Nat
        BY <1>1, InSequence
    <2>2. tabs' \in Seq(Docs) /\ Len(tabs') = Len(tabs)
        BY <1>1, <1>2, <2>1, ExceptSeq
    <2> QED BY <2>1, <2>2, InSequence
<1>4. GoodWindow(Window)'
    BY <1>1, <1>2, <1>3 DEF GoodWindow, WindowType
<1>5. SessionType'
    BY <1>2 DEF SessionInv, SessionType, history
<1> QED BY <1>1, <1>2, <1>3, <1>4, <1>5
        DEF SessionInv, IdleHasDocument, LeavingIsNoted, FileIsClosed

LEMMA ActiveTab ==
    ASSUME SessionInv, Idle
    PROVE  tabs[active] \in Docs /\ active \in 1 .. Len(tabs)
BY InSequence DEF SessionInv, GoodWindow, WindowType, Idle

LEMMA WorkingKeeps ==
    ASSUME SessionInv, Edit \/ Save \/ SetReadOnly \/ \E name \in Files : SaveAs(name)
    PROVE  SessionInv'
<1> USE DEF Named
<1>1. tabs[active] \in Docs
    BY ActiveTab DEF Edit, Save, SetReadOnly, SaveAs
<1>2. \A doc \in Docs : Saved(doc) \subseteq Docs
    BY DEF Saved, Docs
<1>3. CASE Edit
    <2>1. [tabs[active] EXCEPT !.dirty = ~@] \in Docs
        BY <1>1 DEF Docs
    <2> QED BY <1>3, <2>1, BecomeKeeps DEF Edit
<1>4. CASE Save
    BY <1>1, <1>2, <1>4, BecomeKeeps DEF Save
<1>5. CASE SetReadOnly
    <2>1. [tabs[active] EXCEPT !.ro = ~@] \in Docs
        BY <1>1 DEF Docs
    <2> QED BY <1>5, <2>1, BecomeKeeps DEF SetReadOnly
<1>6. ASSUME NEW name \in Files, SaveAs(name) PROVE SessionInv'
    <2>1. [tabs[active] EXCEPT !.dirty = FALSE, !.name = name] \in Docs
        BY <1>1 DEF Docs
    <2> QED BY <1>6, <2>1, BecomeKeeps DEF SaveAs
<1> QED BY <1>3, <1>4, <1>5, <1>6

LEMMA ActivateKeeps ==
    ASSUME SessionInv, NEW i \in DOMAIN tabs, Activate(i)
    PROVE  SessionInv'
<1>1. tabs \in Seq(Docs) /\ Len(tabs) \in Nat /\ i \in 1 .. Len(tabs) /\ tabs # <<>>
    BY InSequence DEF SessionInv, GoodWindow, WindowType
<1>2. /\ active' = i
      /\ UNCHANGED <<mode, tabs, data, focused, confirmed, file, history>>
    BY DEF Activate
<1>3. GoodWindow(Window)'
    BY <1>1, <1>2 DEF SessionInv, GoodWindow, WindowType
<1>4. SessionType'
    BY <1>2 DEF SessionInv, SessionType, history
<1> QED BY <1>2, <1>3, <1>4
        DEF SessionInv, IdleHasDocument, LeavingIsNoted, FileIsClosed, history

\* The window after Close, whose last document is replaced.
LEMMA CloseWindow ==
    ASSUME SessionInv, Close
    PROVE  GoodWindow(Window)' /\ (MaxFiles > 1 => tabs' # <<>>)
<1>1. /\ tabs \in Seq(Docs) /\ Len(tabs) \in Nat /\ active \in 1 .. Len(tabs)
      /\ Len(tabs) <= MaxFiles /\ MaxFiles \in Nat
    BY InSequence, SessionAssumption, ActiveTab DEF SessionInv, GoodWindow, WindowType, Close
<1>2. CASE Len(tabs) = 1
    <2> DEFINE v == NewFile(Window)
               s == Append(tabs, NewTab(NoName, FALSE))
    <2>1. \/ v.tabs = tabs /\ MaxFiles = 1
          \/ v.tabs = s /\ MaxFiles > 1
        <3>1. GoodWindow(Window) /\ NoName \in Named /\ Window.tabs = tabs
            BY DEF SessionInv, Named
        <3>2. v = Opened(Window, NoName, FALSE)
            BY DEF NewFile
        <3> HIDE DEF v, s
        <3>3. \/ Len(tabs) = MaxFiles /\ v = Window
              \/ Len(tabs) < MaxFiles /\ v.tabs = s
            BY <3>1, <3>2, OpenedCases DEF s
        <3> QED BY <1>1, <1>2, <3>1, <3>3
    <2>2. NewTab(NoName, FALSE) \in Docs
        BY DEF NewTab, Docs
    <2>3. s \in Seq(Docs) /\ Len(s) = 2
        <3>1. s \in Seq(Docs) /\ Len(s) = Len(tabs) + 1
            BY <1>1, <2>2, Appended
        <3> HIDE DEF s
        <3> QED BY <1>2, <3>1
    <2>4. tabs' = Tail(v.tabs) /\ active' = Len(v.tabs) - 1
        BY <1>2 DEF Close
    <2> HIDE DEF v, s
    <2>5. /\ v.tabs \in Seq(Docs) /\ v.tabs # <<>>
          /\ Len(v.tabs) = IF MaxFiles > 1 THEN 2 ELSE 1
        <3>1. CASE v.tabs = tabs /\ MaxFiles = 1
            BY <1>1, <1>2, <3>1, InSequence
        <3>2. CASE v.tabs = s /\ MaxFiles > 1
            <4>1. s # <<>>
                BY <2>3, InSequence
            <4> QED BY <2>3, <3>2, <4>1
        <3> QED BY <2>1, <3>1, <3>2
    <2>6. tabs' \in Seq(Docs) /\ Len(tabs') = IF MaxFiles > 1 THEN 1 ELSE 0
        BY <2>4, <2>5, TailOf
    <2>7. active' = Len(tabs') /\ active' \in Nat
        BY <2>4, <2>5, <2>6
    <2>8. tabs' = <<>> <=> Len(tabs') = 0
        BY <2>6, InSequence
    <2> QED BY <1>1, <2>6, <2>7, <2>8 DEF GoodWindow, WindowType
<1>3. CASE Len(tabs) # 1
    <2>1. /\ tabs' = RemoveAt(tabs, active)
          /\ active' = IF active < Len(tabs) THEN active ELSE active - 1
        BY <1>3 DEF Close
    <2>2. tabs' \in Seq(Docs) /\ Len(tabs') = Len(tabs) - 1
        <3> DEFINE before == SubSeq(tabs, 1, active - 1)
                   after == SubSeq(tabs, active + 1, Len(tabs))
        <3>1. before \in Seq(Docs) /\ Len(before) = active - 1
            BY <1>1, SubSeqProperties
        <3>2. after \in Seq(Docs) /\ Len(after) = Len(tabs) - active
            BY <1>1, SubSeqProperties
        <3>3. tabs' = before \o after
            BY <2>1 DEF RemoveAt
        <3> HIDE DEF before, after
        <3>4. tabs' \in Seq(Docs) /\ Len(tabs') = Len(before) + Len(after)
            BY <3>1, <3>2, <3>3, ConcatProperties
        <3> QED BY <1>1, <3>1, <3>2, <3>4
    <2>3. Len(tabs) > 1
        <3>1. PICK n \in Nat : n = Len(tabs)
            BY <1>1
        <3>2. n # 1 /\ active \in 1 .. n
            BY <1>1, <1>3, <3>1
        <3>3. n > 1
            BY <3>2
        <3> QED BY <3>1, <3>3
    <2>4. active' \in 1 .. Len(tabs')
        BY <1>1, <2>1, <2>2, <2>3
    <2>5. tabs' # <<>> /\ Len(tabs') <= MaxFiles
        BY <1>1, <2>2, <2>3, InSequence
    <2> QED BY <2>2, <2>4, <2>5 DEF GoodWindow, WindowType
<1> QED BY <1>2, <1>3

LEMMA CloseKeeps == ASSUME SessionInv, Close PROVE SessionInv'
<1>1. mode = "idle" /\ UNCHANGED <<mode, data, focused, confirmed, file, history>>
    BY DEF Close, Idle
<1>2. SessionType'
    BY <1>1 DEF SessionInv, SessionType, history
<1> QED BY <1>1, <1>2, CloseWindow
        DEF SessionInv, IdleHasDocument, LeavingIsNoted, FileIsClosed

\* The first document of the window is closed as doc.
LEMMA CloseNextKeeps == ASSUME SessionInv, CloseNext PROVE SessionInv'
<1>1. /\ tabs \in Seq(Docs) /\ tabs # <<>> /\ Len(tabs) \in Nat /\ Len(tabs) >= 1
      /\ Len(tabs) <= MaxFiles /\ MaxFiles \in Nat /\ tabs[1] \in Docs
    BY InSequence, SessionAssumption DEF SessionInv, GoodWindow, WindowType, CloseNext
<1>2. PICK doc \in Closable(tabs[1]) :
          /\ data' = data \o Entry(doc)
          /\ closed' = IF mode = "leaving" THEN closed \o Entry(doc) ELSE closed
    BY DEF CloseNext
<1>3. /\ tabs' = Tail(tabs) /\ active' = IF Len(tabs) = 1 THEN 0 ELSE 1
      /\ mode \in {"closing", "leaving"}
      /\ UNCHANGED <<mode, focused, confirmed, file, written, failed, unasked>>
    BY DEF CloseNext
<1>4. doc \in Docs /\ (tabs[1].name # NoName => doc.name = tabs[1].name)
    BY <1>1, <1>2 DEF Closable, Saved, Docs
<1>5. /\ Entry(doc) \in Seq(Entries)
      /\ doc.name # NoName => Len(Entry(doc)) = 1 /\ Entry(doc)[1].name = doc.name
    <2>1. CASE doc.name = NoName
        BY <2>1 DEF Entry
    <2>2. CASE doc.name # NoName
        <3>1. [name |-> doc.name, ro |-> doc.ro] \in Entries
            BY <1>4, <2>2 DEF Docs, Entries
        <3>2. Entry(doc) = <<[name |-> doc.name, ro |-> doc.ro]>>
            BY <2>2 DEF Entry
        <3> QED BY <3>1, <3>2
    <2> QED BY <2>1, <2>2
<1>6. data \in Seq(Entries) /\ closed \in Seq(Entries)
    BY DEF SessionInv, SessionType
<1>7. data' \in Seq(Entries) /\ closed' \in Seq(Entries)
    <2> HIDE DEF Entry
    <2> QED BY <1>2, <1>5, <1>6, ConcatProperties
<1>8. tabs' \in Seq(Docs) /\ Len(tabs') = Len(tabs) - 1
    BY <1>1, <1>3, TailOf
<1>9. GoodWindow(Window)'
    <2>1. tabs' = <<>> <=> Len(tabs) = 1
        BY <1>1, <1>8, InSequence
    <2>2. Len(tabs') <= MaxFiles /\ active' \in Nat /\ active' <= Len(tabs')
        BY <1>1, <1>3, <1>8
    <2> QED BY <1>3, <1>8, <2>1, <2>2 DEF GoodWindow, WindowType
<1>10. SessionType'
    BY <1>3, <1>7 DEF SessionInv, SessionType
<1>11. LeavingIsNoted'
    <2>1. SUFFICES ASSUME mode = "leaving"
                   PROVE  /\ data' = closed'
                          /\ focused # NoName => focused \in Names(tabs') \cup Names(closed')
        BY <1>3 DEF LeavingIsNoted
    <2>2. data = closed /\ (focused # NoName => focused \in Names(tabs) \cup Names(closed))
        BY <2>1 DEF SessionInv, LeavingIsNoted
    <2>3. /\ Len(closed) \in Nat /\ Len(closed') = Len(closed) + Len(Entry(doc))
          /\ \A i \in 1 .. Len(closed) : closed'[i] = closed[i]
          /\ doc.name # NoName => closed'[Len(closed) + 1] = Entry(doc)[1]
        <3> HIDE DEF Entry
        <3>1. closed' = closed \o Entry(doc)
            BY <1>2, <2>1
        <3>2. Len(Entry(doc)) \in Nat /\ Len(closed) \in Nat
            BY <1>5, <1>6, InSequence
        <3> QED BY <1>5, <1>6, <3>1, <3>2, ConcatProperties
    <2>4. ASSUME NEW f \in Names(closed) PROVE f \in Names(closed')
        <3>0. PICK i \in 1 .. Len(closed) : closed[i].name = f
            BY <1>6, InNames
        <3>1. Len(Entry(doc)) \in Nat
            BY <1>5, InSequence
        <3>2. \A k \in 1 .. Len(closed) : k \in 1 .. Len(closed')
            BY <2>3, <3>1
        <3>4. i \in 1 .. Len(closed') /\ closed'[i].name = f
            BY <2>3, <3>2, <3>0
        <3> QED BY <1>7, <3>4, InNames
    <2>5. ASSUME NEW f \in Names(tabs), f # NoName PROVE f \in Names(tabs') \cup Names(closed')
        <3>1. PICK i \in 1 .. Len(tabs) : tabs[i].name = f
            BY <1>1, InNames
        <3>2. CASE i = 1
            <4>1. Len(Entry(doc)) = 1 /\ Entry(doc)[1].name = f
                BY <1>4, <1>5, <2>5, <3>1, <3>2
            <4>2. Len(closed) + 1 \in 1 .. Len(closed')
                BY <2>3, <4>1
            <4>3. closed'[Len(closed) + 1].name = f
                BY <1>4, <2>3, <2>5, <3>1, <3>2, <4>1
            <4> QED BY <1>7, <4>2, <4>3, InNames
        <3>3. CASE i # 1
            <4>1. i - 1 \in 1 .. Len(tabs) - 1 /\ (i - 1) + 1 = i
                BY <1>1, <3>1, <3>3
            <4>2. tabs'[i - 1] = tabs[i]
                BY <1>1, <1>3, <4>1, TailOf
            <4> QED BY <1>8, <3>1, <4>1, <4>2, InNames
        <3> QED BY <3>2, <3>3
    <2> QED BY <1>2, <2>1, <2>2, <2>4, <2>5
<1> QED BY <1>3, <1>9, <1>10, <1>11 DEF SessionInv, IdleHasDocument, FileIsClosed

(***************************************************************************)
(* The steps that show another window.                                     *)
(***************************************************************************)

LEMMA Shown ==
    ASSUME NEW w, GoodWindow(w), ShowWindow(w)
    PROVE  GoodWindow(Window)' /\ tabs' = w.tabs
<1>1. tabs' = w.tabs /\ active' = w.active
    BY DEF ShowWindow
<1>2. Window' = w
    BY <1>1 DEF GoodWindow, WindowType
<1> QED BY <1>1, <1>2

LEMMA NewFileKeeps ==
    ASSUME NEW w, GoodWindow(w)
    PROVE  GoodWindow(NewFile(w)) /\ NewFile(w).tabs # <<>>
BY OpenedKeeps DEF NewFile, Named

LEMMA CloseAllKeeps == ASSUME SessionInv, CloseAll PROVE SessionInv'
<1>1. /\ tabs # <<>> /\ mode' = "closing" /\ active' = 1
      /\ UNCHANGED <<tabs, data, focused, confirmed, file, history>>
    BY DEF CloseAll
<1>2. tabs \in Seq(Docs) /\ Len(tabs) \in Nat /\ Len(tabs) <= MaxFiles /\ 1 <= Len(tabs)
    BY <1>1, InSequence DEF SessionInv, GoodWindow, WindowType
<1>3. GoodWindow(Window)'
    BY <1>1, <1>2 DEF GoodWindow, WindowType
<1>4. SessionType'
    BY <1>1 DEF SessionInv, SessionType, history
<1> QED BY <1>1, <1>3, <1>4 DEF SessionInv, IdleHasDocument, LeavingIsNoted, FileIsClosed

LEMMA CloseStopsKeeps == ASSUME SessionInv, CloseStops PROVE SessionInv'
<1>1. /\ tabs # <<>> /\ mode' = "idle" /\ focused' = NoName /\ closed' = <<>>
      /\ mode \in {"closing", "leaving"}
      /\ UNCHANGED <<data, file, written>>
    BY DEF CloseStops
<1>2. GoodWindow(Window)' /\ tabs' # <<>>
    <2>1. CASE mode = "closing"
        <3>1. ShowWindow(NewFile(Window))
            BY <2>1 DEF CloseStops
        <3>2. GoodWindow(NewFile(Window)) /\ NewFile(Window).tabs # <<>>
            BY NewFileKeeps DEF SessionInv
        <3> QED BY <3>1, <3>2, Shown
    <2>2. CASE mode # "closing"
        BY <1>1, <2>2 DEF CloseStops, SessionInv
    <2> QED BY <2>1, <2>2
<1>3. SessionType'
    BY <1>1 DEF SessionInv, SessionType, Named
<1> QED BY <1>1, <1>2, <1>3 DEF SessionInv, IdleHasDocument, LeavingIsNoted, FileIsClosed

LEMMA CloseAllEndsKeeps == ASSUME SessionInv, CloseAllEnds PROVE SessionInv'
<1>1. /\ mode' = "idle" /\ ShowWindow(NewFile(Window))
      /\ UNCHANGED <<data, focused, confirmed, file, history>>
    BY DEF CloseAllEnds
<1>2. GoodWindow(NewFile(Window)) /\ NewFile(Window).tabs # <<>>
    BY NewFileKeeps DEF SessionInv
<1>3. GoodWindow(Window)' /\ tabs' # <<>>
    BY <1>1, <1>2, Shown
<1>4. SessionType'
    BY <1>1 DEF SessionInv, SessionType, history
<1> QED BY <1>1, <1>3, <1>4 DEF SessionInv, IdleHasDocument, LeavingIsNoted, FileIsClosed

(***************************************************************************)
(* Leaving.                                                                *)
(***************************************************************************)

LEMMA StayKeeps == ASSUME SessionInv, LeaveNot \/ LeaveFails PROVE SessionInv'
<1>1. mode = "idle" /\ UNCHANGED <<mode, tabs, active, focused, file, closed, written>>
    BY DEF LeaveNot, LeaveFails, history, Idle
<1>2. data' = data \/ data' = <<>>
    BY DEF LeaveNot, LeaveFails
<1>3. SessionType'
    <2>1. data' \in Seq(Entries)
        <3>1. data \in Seq(Entries)
            BY DEF SessionInv, SessionType
        <3>2. CASE data' = data
            BY <3>1, <3>2
        <3>3. CASE data' = <<>>
            BY <3>3
        <3> QED BY <1>2, <3>2, <3>3
    <2> QED BY <1>1, <2>1 DEF SessionInv, SessionType
<1>4. GoodWindow(Window)'
    BY <1>1 DEF SessionInv
<1> QED BY <1>1, <1>3, <1>4 DEF SessionInv, IdleHasDocument, LeavingIsNoted, FileIsClosed

LEMMA LeaveKeeps == ASSUME SessionInv, Leave PROVE SessionInv'
<1>1. /\ mode' = "leaving" /\ data' = <<>> /\ active' = 1 /\ closed' = <<>>
      /\ focused' = tabs[active].name
      /\ UNCHANGED <<tabs, file, written>>
    BY DEF Leave
<1>2. /\ tabs[active] \in Docs /\ active \in 1 .. Len(tabs)
      /\ tabs \in Seq(Docs) /\ Len(tabs) \in Nat /\ Len(tabs) <= MaxFiles
      /\ 1 <= Len(tabs) /\ tabs # <<>>
    BY ActiveTab, InSequence DEF Leave, SessionInv, GoodWindow, WindowType
<1>3. GoodWindow(Window)'
    BY <1>1, <1>2 DEF GoodWindow, WindowType
<1>4. SessionType'
    BY <1>1, <1>2 DEF SessionInv, SessionType, Named, Docs
<1>5. focused' \in Names(tabs)
    BY <1>1, <1>2, InNames
<1> QED BY <1>1, <1>3, <1>4, <1>5 DEF SessionInv, IdleHasDocument, LeavingIsNoted, FileIsClosed

LEMMA GoneKeeps == ASSUME SessionInv, Gone PROVE SessionInv'
<1>1. /\ mode = "leaving" /\ tabs = <<>> /\ WriteSession /\ mode' = "off" /\ data' = <<>>
      /\ UNCHANGED <<tabs, active, focused, closed>>
    BY DEF Gone
<1>2. data = closed /\ (focused # NoName => focused \in Names(closed))
    <2>1. Names(tabs) = {}
        BY <1>1 DEF Names
    <2> QED BY <1>1, <2>1 DEF SessionInv, LeavingIsNoted
<1>3. /\ file' \in [docs : Seq(Entries), last : Named]
      /\ file'.docs = <<>> => file'.last = NoName
    <2>0. file.docs = <<>> => file.last = NoName
        BY DEF SessionInv, SessionType
    <2>1. <<>> \in Seq(Entries) /\ NoName \in Named
        BY DEF Named
    <2>2. data \in Seq(Entries) /\ focused \in Named /\ file \in [docs : Seq(Entries), last : Named]
        BY DEF SessionInv, SessionType
    <2>3. /\ [docs |-> data, last |-> focused] \in [docs : Seq(Entries), last : Named]
          /\ [docs |-> <<>>, last |-> NoName] \in [docs : Seq(Entries), last : Named]
        BY <2>1, <2>2
    <2>4. \/ file' = file
          \/ data # <<>> /\ file' = [docs |-> data, last |-> focused]
          \/ file' = [docs |-> <<>>, last |-> NoName]
        BY <1>1 DEF WriteSession
    <2>5. CASE file' = file
        BY <2>0, <2>2, <2>5
    <2>6. CASE data # <<>> /\ file' = [docs |-> data, last |-> focused]
        BY <2>3, <2>6
    <2>7. CASE file' = [docs |-> <<>>, last |-> NoName]
        BY <2>3, <2>7
    <2> QED BY <2>4, <2>5, <2>6, <2>7
<1>4. SessionType'
    BY <1>1, <1>3 DEF SessionInv, SessionType
<1>5. FileIsClosed'
    BY <1>1, <1>2 DEF FileIsClosed, WriteSession
<1>6. GoodWindow(Window)'
    BY <1>1 DEF SessionInv
<1> QED BY <1>1, <1>4, <1>5, <1>6 DEF SessionInv, IdleHasDocument, LeavingIsNoted

LEMMA BeginKeeps ==
    ASSUME SessionInv, NEW w, GoodWindow(w), Begin(w)
    PROVE  SessionInv'
<1> DEFINE v == IF w.tabs = <<>> THEN NewFile(w) ELSE w
<1>1. GoodWindow(v) /\ v.tabs # <<>>
    BY NewFileKeeps
<1>2. /\ mode' = "idle" /\ ShowWindow(v) /\ focused' = NoName /\ closed' = <<>>
      /\ UNCHANGED <<data, file>>
    BY DEF Begin
<1> HIDE DEF v
<1>3. GoodWindow(Window)' /\ tabs' # <<>>
    BY <1>1, <1>2, Shown
<1>4. SessionType'
    BY <1>2 DEF SessionInv, SessionType, Named
<1> QED BY <1>2, <1>3, <1>4 DEF SessionInv, IdleHasDocument, LeavingIsNoted, FileIsClosed

(***************************************************************************)
(* Starting again: what the documents of a session file make of a window.  *)
(***************************************************************************)

NoTabs == [tabs |-> <<>>, active |-> 0]

\* The windows on the way: h[i] is the window after the first i documents.
LEMMA OneByOne ==
    ASSUME NEW docs \in Seq(Entries)
    PROVE  \E h : /\ h[0] = NoTabs
                  /\ h[Len(docs)] = FoldLeft(OpenEntry, NoTabs, docs)
                  /\ \A i \in 1 .. Len(docs) :
                         h[i] = Opened(h[i - 1], docs[i].name, docs[i].ro)
                  /\ \A i \in 0 .. Len(docs) : GoodWindow(h[i])
<1>1. PICK n \in Nat : n = Len(docs) /\ DOMAIN docs = 1 .. n
    BY InSequence
<1>2. PICK h : Fold!PassesLeft(h, 0, NoTabs, docs, n)
    BY <1>1, Fold!FoldLeftPasses
<1>3. /\ h[0] = NoTabs /\ h[n] = Fold!Left(0, NoTabs, docs)
      /\ \A i \in 1 .. n : h[i] = Opened(h[i - 1], docs[i].name, docs[i].ro)
    BY <1>2 DEF Fold!PassesLeft, Opening, OpenEntry
<1>4. Fold!Left(0, NoTabs, docs) = FoldLeft(OpenEntry, NoTabs, docs)
    BY DEF Fold!Left, Fold!IterLeft, FoldLeft, MapThenFoldSet, Opening, Fold!Max, Max
<1>5. GoodWindow(NoTabs)
    <2>1. MaxFiles \in Nat
        BY SessionAssumption
    <2>2. NoTabs \in WindowType /\ NoTabs.tabs = <<>> /\ NoTabs.active = 0 /\ Len(NoTabs.tabs) = 0
        BY DEF NoTabs, WindowType
    <2> QED BY <2>1, <2>2 DEF GoodWindow
<1> DEFINE T == {i \in 0 .. n : GoodWindow(h[i])}
<1>6. 0 .. n \subseteq T
    <2>1. 0 \in T
        BY <1>3, <1>5
    <2>2. ASSUME NEW i \in 0 .. n - 1, i \in T PROVE i + 1 \in T
        <3>1. i + 1 \in 1 .. n /\ i + 1 \in 0 .. n /\ (i + 1) - 1 = i
            OBVIOUS
        <3>2. docs[i + 1].name \in Named /\ docs[i + 1].ro \in BOOLEAN
            <4>1. docs[i + 1] \in Entries
                BY <1>1, <3>1, InSequence
            <4> QED BY <4>1 DEF Entries, Named
        <3>3. GoodWindow(h[i])
            BY <2>2
        <3>4. h[i + 1] = Opened(h[i], docs[i + 1].name, docs[i + 1].ro)
            BY <1>3, <3>1
        <3>5. GoodWindow(h[i + 1])
            BY <3>2, <3>3, <3>4, OpenedKeeps
        <3> QED BY <3>1, <3>5
    <2> HIDE DEF T
    <2> QED BY <2>1, <2>2, Fold!UpTo
<1> QED BY <1>1, <1>3, <1>4, <1>6

\* The window holds the first i documents, each once and as locked as it was.
Holds(w, docs, i) ==
    /\ Len(w.tabs) <= i
    /\ \A f : f \in Names(w.tabs) <=> \E j \in 1 .. i : docs[j].name = f
    /\ \A k, l \in 1 .. Len(w.tabs) : w.tabs[k].name = w.tabs[l].name => k = l
    /\ \A k \in 1 .. Len(w.tabs) :
           [name |-> w.tabs[k].name, ro |-> w.tabs[k].ro] \in ToSet(docs)

LEMMA OneMoreHeld ==
    ASSUME NEW docs \in Seq(Entries), Len(docs) <= MaxFiles,
           NEW i \in 0 .. Len(docs) - 1,
           NEW w, GoodWindow(w), Holds(w, docs, i)
    PROVE  Holds(Opened(w, docs[i + 1].name, docs[i + 1].ro), docs, i + 1)
<1>1. PICK n \in Nat : n = Len(docs)
    BY InSequence
<1>2. PICK t \in Nat : t = Len(w.tabs) /\ w.tabs \in Seq(Docs)
    BY InSequence DEF GoodWindow, WindowType
<1>3. i \in Nat /\ i + 1 \in 1 .. n /\ i < MaxFiles /\ t <= i /\ MaxFiles \in Nat
    BY <1>1, <1>2, SessionAssumption DEF Holds
<1> DEFINE e == docs[i + 1]
           v == Opened(w, e.name, e.ro)
           s == Append(w.tabs, NewTab(e.name, e.ro))
<1>4. e \in Entries /\ e \in ToSet(docs)
    BY <1>1, <1>3, InSequence DEF ToSet
<1>5. e.name \in Files /\ e.name \in Named /\ e.ro \in BOOLEAN /\ e.name # NoName
    BY <1>4, SessionAssumption DEF Entries, Named
<1>6. \/ OpenAt(w, e.name) # {} /\ v.tabs = w.tabs
      \/ OpenAt(w, e.name) = {} /\ v.tabs = s
    <2>1. Len(w.tabs) # MaxFiles
        BY <1>2, <1>3
    <2>2. ~(Len(w.tabs) = 1 /\ w.tabs[1] = Blank)
        <3>1. SUFFICES ASSUME Len(w.tabs) = 1, w.tabs[1] = Blank PROVE FALSE
            OBVIOUS
        <3>2. NoName \in Names(w.tabs)
            <4>1. 1 \in 1 .. Len(w.tabs) /\ w.tabs[1].name = NoName
                BY <3>1 DEF Blank
            <4> QED BY <1>2, <4>1, InNames
        <3>3. PICK j \in 1 .. i : docs[j].name = NoName
            BY <3>2 DEF Holds
        <3>4. docs[j] \in Entries
            <4>1. j \in 1 .. Len(docs)
                BY <1>1, <1>3
            <4> QED BY <4>1, InSequence
        <3> QED BY <3>3, <3>4, SessionAssumption DEF Entries
    <2> HIDE DEF v, s, e
    <2> QED BY <1>5, <2>1, <2>2, OpenedCases DEF v, s
<1>7. \A f : (\E j \in 1 .. i + 1 : docs[j].name = f)
              <=> f = e.name \/ \E j \in 1 .. i : docs[j].name = f
    <2>1. 1 .. i + 1 = (1 .. i) \cup {i + 1}
        BY <1>3
    <2> QED BY <2>1
<1>8. CASE OpenAt(w, e.name) # {} /\ v.tabs = w.tabs
    <2>1. e.name \in Names(w.tabs)
        BY <1>8 DEF OpenAt, Names
    <2>2. Len(w.tabs) <= i + 1
        BY <1>2, <1>3
    <2> HIDE DEF v, e
    <2> QED BY <1>7, <1>8, <2>1, <2>2 DEF Holds, v, e
<1>9. CASE OpenAt(w, e.name) = {} /\ v.tabs = s
    <2>1. NewTab(e.name, e.ro) \in Docs
        BY <1>5 DEF NewTab, Docs
    <2>2. /\ s \in Seq(Docs) /\ Len(s) = t + 1 /\ s[t + 1] = NewTab(e.name, e.ro)
          /\ \A k \in 1 .. t : s[k] = w.tabs[k]
        BY <1>2, <2>1, Appended
    <2> HIDE DEF s
    <2>3. e.name \notin Names(w.tabs)
        BY <1>9 DEF OpenAt, Names
    <2>4. \A k \in 1 .. t : w.tabs[k].name # e.name
        BY <1>2, <2>3, InNames
    <2>5. s[t + 1].name = e.name /\ s[t + 1].ro = e.ro
        BY <2>2 DEF NewTab
    <2>6. 1 .. t + 1 = (1 .. t) \cup {t + 1}
        BY <1>2
    <2>7. Len(s) <= i + 1
        BY <1>2, <1>3, <2>2
    <2>8. \A f : f \in Names(s) <=> \E j \in 1 .. i + 1 : docs[j].name = f
        <3>1. \A f : f \in Names(s) <=> \E k \in 1 .. t + 1 : s[k].name = f
            BY <2>2, InNames
        <3>4. \A f : (\E k \in 1 .. t + 1 : s[k].name = f)
                         <=> (\E k \in 1 .. t : w.tabs[k].name = f) \/ e.name = f
            <4> HIDE DEF e
            <4> QED BY <2>2, <2>5, <2>6
        <3>2. \A f : f \in Names(w.tabs) <=> \E k \in 1 .. t : w.tabs[k].name = f
            BY <1>2, InNames
        <3>3. \A f : f \in Names(w.tabs) <=> \E j \in 1 .. i : docs[j].name = f
            BY DEF Holds
        <3> HIDE DEF e
        <3> QED BY <3>1, <3>2, <3>3, <3>4, <1>7, Zenon
    <2>9. \A k, l \in 1 .. t + 1 : s[k].name = s[l].name => k = l
        <3>1. \A k, l \in 1 .. t : w.tabs[k].name = w.tabs[l].name => k = l
            BY <1>2 DEF Holds
        <3> HIDE DEF e
        <3> QED BY <2>2, <2>4, <2>5, <2>6, <3>1
    <2>10. \A k \in 1 .. t + 1 : [name |-> s[k].name, ro |-> s[k].ro] \in ToSet(docs)
        <3>1. \A k \in 1 .. t :
                  [name |-> w.tabs[k].name, ro |-> w.tabs[k].ro] \in ToSet(docs)
            BY <1>2 DEF Holds
        <3>2. e = [name |-> e.name, ro |-> e.ro]
            BY <1>4 DEF Entries
        <3> HIDE DEF e
        <3> QED BY <1>4, <2>2, <2>5, <2>6, <3>1, <3>2
    <2> HIDE DEF v, e
    <2> QED BY <1>9, <2>2, <2>7, <2>8, <2>9, <2>10 DEF Holds, v, e
<1> HIDE DEF v, s, e
<1> QED BY <1>6, <1>8, <1>9 DEF v, e

\* ParseCommands of a whole session file.
LEMMA Reopened ==
    ASSUME NEW docs \in Seq(Entries)
    PROVE  /\ GoodWindow(FoldLeft(OpenEntry, NoTabs, docs))
           /\ Len(docs) <= MaxFiles
                => Holds(FoldLeft(OpenEntry, NoTabs, docs), docs, Len(docs))
<1>1. PICK n \in Nat : n = Len(docs)
    BY InSequence
<1>2. PICK h :
          /\ h[0] = NoTabs
          /\ h[n] = FoldLeft(OpenEntry, NoTabs, docs)
          /\ \A i \in 1 .. n : h[i] = Opened(h[i - 1], docs[i].name, docs[i].ro)
          /\ \A i \in 0 .. n : GoodWindow(h[i])
    BY <1>1, OneByOne
<1>3. \A i \in 0 .. n : GoodWindow(h[i])
    BY <1>2
<1>4. ASSUME Len(docs) <= MaxFiles PROVE Holds(h[n], docs, n)
    <2> DEFINE T == {i \in 0 .. n : Holds(h[i], docs, i)}
    <2>1. 0 \in T
        <3>1. NoTabs.tabs = <<>> /\ Len(NoTabs.tabs) = 0 /\ DOMAIN NoTabs.tabs = {}
            BY DEF NoTabs
        <3>2. 1 .. 0 = {} /\ 0 \in 0 .. n /\ 0 <= 0
            OBVIOUS
        <3>3. Holds(NoTabs, docs, 0)
            BY <3>1, <3>2 DEF Holds, Names
        <3> QED BY <1>2, <3>2, <3>3
    <2>2. ASSUME NEW i \in 0 .. n - 1, i \in T PROVE i + 1 \in T
        <3>1. i + 1 \in 1 .. n /\ i + 1 \in 0 .. n /\ i \in 0 .. n /\ (i + 1) - 1 = i
            OBVIOUS
        <3>2. h[i + 1] = Opened(h[i], docs[i + 1].name, docs[i + 1].ro)
            BY <1>2, <3>1
        <3>3. Holds(h[i], docs, i)
            BY <2>2
        <3>4. Holds(h[i + 1], docs, i + 1)
            BY <1>1, <1>3, <1>4, <3>1, <3>2, <3>3, OneMoreHeld
        <3> QED BY <3>1, <3>4
    <2>3. 0 .. n \subseteq T
        <3> HIDE DEF T
        <3> QED BY <2>1, <2>2, Fold!UpTo
    <2> QED BY <2>3
<1>5. n \in 0 .. n
    OBVIOUS
<1> QED BY <1>1, <1>2, <1>3, <1>4, <1>5

LEMMA RestoreKeeps == ASSUME SessionInv, Start \/ Restore PROVE SessionInv'
<1>1. GoodWindow(NoTabs)
    BY Reopened, OneByOne, SessionAssumption
       DEF NoTabs, GoodWindow, WindowType
<1>2. CASE Start
    BY <1>1, <1>2, BeginKeeps DEF Start, NoTabs
<1>3. CASE Restore
    <2> DEFINE w == FoldLeft(OpenEntry, NoTabs, file.docs)
    <2>1. file.docs \in Seq(Entries) /\ file.last \in Named /\ (file.docs = <<>> => file.last = NoName)
        BY DEF SessionInv, SessionType
    <2>2. GoodWindow(w)
        BY <2>1, Reopened
    <2>3. Restored = IF file.last = NoName THEN w ELSE Opened(w, file.last, Last(file.docs).ro)
        BY DEF Restored, NoTabs
    <2> HIDE DEF w
    <2>4. file.last # NoName => Last(file.docs).ro \in BOOLEAN
        <3>1. SUFFICES ASSUME file.docs # <<>> PROVE Last(file.docs).ro \in BOOLEAN
            BY <2>1
        <3>2. Last(file.docs) \in Entries
            <4>1. PICK n \in Nat : n = Len(file.docs) /\ n # 0
                BY <2>1, <3>1, InSequence
            <4>2. n \in 1 .. Len(file.docs)
                BY <4>1
            <4> QED BY <2>1, <4>1, <4>2, InSequence DEF Last
        <3> QED BY <3>2 DEF Entries
    <2>5. GoodWindow(Restored)
        BY <2>1, <2>2, <2>3, <2>4, OpenedKeeps
    <2> QED BY <1>3, <2>5, BeginKeeps DEF Restore
<1> QED BY <1>2, <1>3

(***************************************************************************)
(* The theorems.                                                           *)
(***************************************************************************)

LEMMA NextSession == SessionInv /\ [Next]_vars => SessionInv'
<1> SUFFICES ASSUME SessionInv, [Next]_vars PROVE SessionInv'
    OBVIOUS
<1>1. ASSUME NEW name \in Files \cup {NoName}, NEW ro \in BOOLEAN, Open(name, ro)
      PROVE  SessionInv'
    BY <1>1, OpenKeeps DEF Named
<1>2. CASE Edit \/ Save \/ SetReadOnly \/ \E name \in Files : SaveAs(name)
    BY <1>2, WorkingKeeps
<1>3. ASSUME NEW i \in DOMAIN tabs, Activate(i) PROVE SessionInv'
    BY <1>3, ActivateKeeps
<1>4. CASE Close
    BY <1>4, CloseKeeps
<1>5. CASE CloseAll
    BY <1>5, CloseAllKeeps
<1>6. CASE CloseNext
    BY <1>6, CloseNextKeeps
<1>7. CASE CloseStops
    BY <1>7, CloseStopsKeeps
<1>8. CASE CloseAllEnds
    BY <1>8, CloseAllEndsKeeps
<1>9. CASE LeaveNot \/ LeaveFails
    BY <1>9, StayKeeps
<1>10. CASE Leave
    BY <1>10, LeaveKeeps
<1>11. CASE Gone
    BY <1>11, GoneKeeps
<1>12. CASE Start \/ Restore
    BY <1>12, RestoreKeeps
<1>13. CASE UNCHANGED vars
    <2>1. GoodWindow(Window)'
        BY <1>13 DEF SessionInv, vars
    <2>2. SessionType'
        BY <1>13 DEF SessionInv, SessionType, vars, history
    <2> QED BY <1>13, <2>1, <2>2
            DEF SessionInv, IdleHasDocument, LeavingIsNoted, FileIsClosed, vars, history
<1> QED BY <1>1, <1>2, <1>3, <1>4, <1>5, <1>6, <1>7, <1>8, <1>9, <1>10, <1>11, <1>12, <1>13
        DEF Next

\* Whatever opens files, no more than MaxFiles are open; and whenever a handler may
\* run there is an active document for it, however the last one was closed - unless
\* only one file may be open (TopWindowBase::OpenFile, CloseFile, CloseAll).
THEOREM HasDocumentHolds == Spec => []HasDocument
<1>1. SessionInv => HasDocument
    BY DEF SessionInv, GoodWindow, IdleHasDocument, HasDocument
<1> QED BY InitSession, NextSession, <1>1, PTL DEF Spec

\* The window that -p brings back is that of the last exit: every document that was
\* closed then, once, as locked as it was, with the focus where it was
\* (TopWindowBase::close, CloseFile, ParseCommands).
THEOREM RestoreGivesBackHolds == Spec => RestoreGivesBack
<1>1. SessionInv /\ [Next]_vars
          => [Restore /\ written /\ closed # <<>> /\ Len(closed) \leq MaxFiles
                => GivesBack]_vars
    <2>1. SUFFICES ASSUME SessionInv, Restore, written, closed # <<>>, Len(closed) <= MaxFiles
                   PROVE  GivesBack
        OBVIOUS
    <2>2. closed \in Seq(Entries) /\ focused \in Named
        BY <2>1 DEF SessionInv, SessionType
    <2>3. file = [docs |-> closed, last |-> focused]
        BY <2>1 DEF SessionInv, FileIsClosed, Restore, Begin
    <2>4. focused # NoName => focused \in Names(closed)
        BY <2>1 DEF SessionInv, FileIsClosed, Restore, Begin
    <2> DEFINE w == FoldLeft(OpenEntry, NoTabs, closed)
    <2>5. GoodWindow(w) /\ Holds(w, closed, Len(closed))
        BY <2>1, <2>2, Reopened
    <2>6. Restored = IF focused = NoName THEN w ELSE Opened(w, focused, Last(closed).ro)
        BY <2>3 DEF Restored, NoTabs
    <2> HIDE DEF w
    <2>7. PICK n \in Nat : n = Len(closed) /\ n > 0
        <3>1. Len(closed) \in Nat /\ Len(closed) # 0
            BY <2>1, <2>2, InSequence
        <3> QED BY <3>1
    <2>8. \A i \in 1 .. n : closed[i] \in Entries
        BY <2>2, <2>7, InSequence
    <2>9. \A f : f \in Names(w.tabs) <=> f \in Names(closed)
        <3>1. \A f : f \in Names(closed) <=> \E j \in 1 .. n : closed[j].name = f
            BY <2>2, <2>7, InNames
        <3> QED BY <2>5, <2>7, <3>1 DEF Holds
    <2>10. PICK t \in Nat : t = Len(w.tabs) /\ w.tabs \in Seq(Docs)
        BY <2>5, InSequence DEF GoodWindow, WindowType
    <2>11. Restored.tabs = w.tabs
           /\ (focused # NoName /\ n < MaxFiles
                 => /\ Restored.active \in 1 .. t
                    /\ w.tabs[Restored.active].name = focused)
        <3>1. CASE focused = NoName
            BY <2>6, <3>1
        <3>2. CASE focused # NoName
            <4>1. Last(closed).ro \in BOOLEAN
                <5>1. n \in 1 .. n
                    BY <2>7
                <5> QED BY <2>7, <2>8, <5>1 DEF Last, Entries
            <4>2. focused \in Names(w.tabs)
                BY <2>4, <2>9, <3>2
            <4>3. OpenAt(w, focused) # {}
                BY <4>2 DEF OpenAt, Names
            <4>4. Restored = Opened(w, focused, Last(closed).ro)
                BY <2>6, <3>2
            <4>5. \/ Len(w.tabs) = MaxFiles /\ Restored = w
                  \/ /\ Restored.tabs = w.tabs
                     /\ Restored.active \in 1 .. Len(w.tabs)
                     /\ w.tabs[Restored.active].name = focused
                BY <2>2, <2>5, <3>2, <4>1, <4>3, <4>4, OpenedCases
            <4>6. n < MaxFiles => Len(w.tabs) # MaxFiles
                <5>1. t <= n /\ MaxFiles \in Nat
                    <6>1. Len(w.tabs) <= Len(closed)
                        BY <2>5 DEF Holds
                    <6> QED BY <6>1, <2>7, <2>10, SessionAssumption
                <5> QED BY <2>10, <5>1
            <4> QED BY <2>10, <4>5, <4>6
        <3> QED BY <3>1, <3>2
    <2>12. w.tabs # <<>>
        <3>1. closed[1].name \in Names(closed)
            <4>1. 1 \in 1 .. n
                BY <2>7
            <4> QED BY <2>2, <2>7, <4>1, InNames
        <3>2. \E k \in 1 .. t : TRUE
            BY <2>9, <2>10, <3>1, InNames
        <3> QED BY <2>10, <3>2, InSequence
    <2>13. tabs' = w.tabs /\ active' = Restored.active
        BY <2>1, <2>11, <2>12 DEF Restore, Begin, ShowWindow
    <2>14. DOMAIN tabs' = 1 .. t
        BY <2>10, <2>13, InSequence
    <2>15. Names(tabs') = Names(closed)
        BY <2>9, <2>13
    <2>16. \A i, j \in DOMAIN tabs' : tabs'[i].name = tabs'[j].name => i = j
        BY <2>5, <2>10, <2>13, <2>14 DEF Holds
    <2>17. \A i \in DOMAIN tabs' : [name |-> tabs'[i].name, ro |-> tabs'[i].ro] \in ToSet(closed)
        BY <2>5, <2>10, <2>13, <2>14 DEF Holds
    <2>18. focused \in Names(closed) /\ Len(closed) < MaxFiles => tabs'[active'].name = focused
        <3>1. NoName \notin Names(closed)
            <4>1. \A i \in 1 .. n : closed[i].name # NoName
                BY <2>8, SessionAssumption DEF Entries
            <4> QED BY <2>2, <2>7, <4>1, InNames
        <3> QED BY <2>7, <2>11, <2>13, <3>1
    <2> QED BY <2>15, <2>16, <2>17, <2>18 DEF GivesBack
<1> QED BY InitSession, NextSession, <1>1, PTL DEF Spec, RestoreGivesBack

=============================================================================
