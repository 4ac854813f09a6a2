--------------------------- MODULE RecorderProofs ---------------------------
(***************************************************************************)
(* Theorems about Recorder: which documents send their commands while some *)
(* are opened, closed, switched and indented, for every number of them;    *)
(* and that playing what was recorded gives what was done, for texts and   *)
(* recordings of every length.  The invariant behind the second says this  *)
(* of every moment, the one included where a brace is shown and not yet    *)
(* recorded; a command that merges into the last message is one call more. *)
(***************************************************************************)
EXTENDS Recorder, SequenceTheorems, TLAPS

\* The folds of Recorder, for the lemmas of FoldProofs.
CallOp(c, e, m) == Call(e, m)
CallsOp(c, e, m) == Calls(e, m)
HearOp(c, a, m) == Hear(a, m)
HearAllOp(c, a, m) == HearAll(a, m)

Calling == INSTANCE FoldProofs WITH Op <- CallOp
Playing == INSTANCE FoldProofs WITH Op <- CallsOp
Hearing == INSTANCE FoldProofs WITH Op <- HearOp
Rerecording == INSTANCE FoldProofs WITH Op <- HearAllOp

(***************************************************************************)
(* The inductive invariant of those that send.                             *)
(***************************************************************************)

Recordings == Tab \cup {None}

TabsAreOpen ==
    /\ book \in Seq(Tab)
    /\ active \in ToSet(book)
    /\ recording \in Recordings
    /\ recording # None => recording \in ToSet(book)

FlagsTyped == flag \in [Tab -> BOOLEAN] /\ misaimed \subseteq Tab

\* What CharAdded remembers is nothing, or the recording, or one that has ended.
IndentTyped ==
    indenting = None \/ indenting \in [doc : Tab, recording : {None, recording} \cup misaimed]

\* The recorded document sends its commands, or CharAdded will make it do so.
RecordedSends ==
    recording # None =>
        \/ flag[recording]
        \/ indenting # None /\ indenting.recording = recording

RecInv ==
    /\ TabsAreOpen
    /\ FlagsTyped
    /\ IndentTyped
    /\ RecordedSends
    /\ StrayWasMisaimed

(***************************************************************************)
(* Sequences of tabs.                                                      *)
(***************************************************************************)

LEMMA OpenTabs ==
    ASSUME NEW s \in Seq(Tab)
    PROVE  /\ Len(s) \in Nat
           /\ ToSet(s) \subseteq Tab
           /\ \A t : t \in ToSet(s) <=> \E i \in 1 .. Len(s) : s[i] = t
<1>1. Len(s) \in Nat /\ DOMAIN s = 1 .. Len(s) /\ s \in [1 .. Len(s) -> Tab]
    BY LenProperties
<1>2. \A i \in 1 .. Len(s) : s[i] \in Tab
    BY ElementOfSeq
<1> QED BY <1>1, <1>2 DEF ToSet

LEMMA OneTab ==
    ASSUME NEW t \in Tab
    PROVE  <<t>> \in Seq(Tab) /\ ToSet(<<t>>) = {t}
<1>1. <<t>> \in Seq(Tab) /\ Len(<<t>>) = 1 /\ <<t>>[1] = t
    OBVIOUS
<1>2. \A u : u \in ToSet(<<t>>) <=> \E i \in 1 .. 1 : <<t>>[i] = u
    BY <1>1, OpenTabs
<1> QED BY <1>1, <1>2

LEMMA AppendTab ==
    ASSUME NEW s \in Seq(Tab), NEW t \in Tab
    PROVE  Append(s, t) \in Seq(Tab) /\ ToSet(Append(s, t)) = ToSet(s) \cup {t}
<1> DEFINE a == Append(s, t)
<1>1. /\ a \in Seq(Tab) /\ Len(a) = Len(s) + 1 /\ a[Len(s) + 1] = t
      /\ \A i \in 1 .. Len(s) : a[i] = s[i]
    BY AppendProperties
<1>2. Len(s) \in Nat
    BY OpenTabs
<1>3. \A u : u \in ToSet(s) <=> \E i \in 1 .. Len(s) : s[i] = u
    BY OpenTabs
<1> HIDE DEF a
<1>4. \A u : u \in ToSet(a) <=> \E i \in 1 .. Len(s) + 1 : a[i] = u
    <2>1. \A u : u \in ToSet(a) <=> \E i \in 1 .. Len(a) : a[i] = u
        BY <1>1, OpenTabs
    <2> QED BY <1>1, <2>1
<1>5. \A u : u \in ToSet(a) <=> u \in ToSet(s) \cup {t}
    BY <1>1, <1>2, <1>3, <1>4
<1> QED BY <1>1, <1>5 DEF a

\* Without the tab at i all others are still there, and one of them follows it.
LEMMA RemoveTab ==
    ASSUME NEW s \in Seq(Tab), Len(s) > 1, NEW i \in 1 .. Len(s)
    PROVE  LET rest == RemoveAt(s, i)
           IN  /\ rest \in Seq(Tab)
               /\ rest[Lesser(i, Len(rest))] \in ToSet(rest)
               /\ \A t \in ToSet(s) : t # s[i] => t \in ToSet(rest)
<1> DEFINE before == SubSeq(s, 1, i - 1)
           after == SubSeq(s, i + 1, Len(s))
           rest == before \o after
<1>1. Len(s) \in Nat /\ \A k \in 1 .. Len(s) : s[k] \in Tab
    BY LenProperties, ElementOfSeq
<1>2. /\ before \in Seq(Tab) /\ Len(before) = i - 1
      /\ \A k \in 1 .. i - 1 : before[k] = s[k]
    <2>1. 1 \in Int /\ i - 1 \in Int /\ \A k \in 1 .. i - 1 : s[k] \in Tab
        BY <1>1
    <2>2. /\ before \in Seq(Tab)
          /\ Len(before) = IF 1 <= i - 1 THEN i - 1 - 1 + 1 ELSE 0
          /\ \A k \in 1 .. i - 1 - 1 + 1 : before[k] = s[1 + k - 1]
        BY <2>1, SubSeqProperties
    <2> HIDE DEF before
    <2> QED BY <2>2, <1>1
<1>3. /\ after \in Seq(Tab) /\ Len(after) = Len(s) - i
      /\ \A k \in 1 .. Len(s) - i : after[k] = s[i + k]
    <2>1. i + 1 \in Int /\ Len(s) \in Int /\ \A k \in i + 1 .. Len(s) : s[k] \in Tab
        BY <1>1
    <2>2. /\ after \in Seq(Tab)
          /\ Len(after) = IF i + 1 <= Len(s) THEN Len(s) - (i + 1) + 1 ELSE 0
          /\ \A k \in 1 .. Len(s) - (i + 1) + 1 : after[k] = s[i + 1 + k - 1]
        BY <2>1, SubSeqProperties
    <2> HIDE DEF after
    <2> QED BY <2>2, <1>1
<1> HIDE DEF before, after
<1>4. /\ rest \in Seq(Tab) /\ Len(rest) = Len(s) - 1
      /\ \A k \in 1 .. Len(s) - 1 :
             rest[k] = IF k <= i - 1 THEN before[k] ELSE after[k - (i - 1)]
    BY <1>1, <1>2, <1>3, ConcatProperties
<1> HIDE DEF rest
<1>5. \A k \in 1 .. Len(s) - 1 : rest[k] = IF k < i THEN s[k] ELSE s[k + 1]
    BY <1>1, <1>2, <1>3, <1>4
<1>6. \A t : t \in ToSet(rest) <=> \E k \in 1 .. Len(s) - 1 : rest[k] = t
    BY <1>4, OpenTabs
<1>7. \A t \in ToSet(s) : t # s[i] => t \in ToSet(rest)
    <2> TAKE t \in ToSet(s)
    <2> HAVE t # s[i]
    <2>1. PICK k \in 1 .. Len(s) : s[k] = t
        BY OpenTabs
    <2>2. CASE k < i
        BY <2>1, <2>2, <1>1, <1>5, <1>6
    <2>3. CASE k > i
        <3>1. k - 1 \in 1 .. Len(s) - 1 /\ rest[k - 1] = s[k]
            BY <2>1, <2>3, <1>1, <1>5
        <3> QED BY <3>1, <2>1, <1>6
    <2> QED BY <2>1, <2>2, <2>3, <1>1
<1>8. rest[Lesser(i, Len(rest))] \in ToSet(rest)
    <2>1. Lesser(i, Len(rest)) \in 1 .. Len(s) - 1
        BY <1>1, <1>4 DEF Lesser
    <2> QED BY <2>1, <1>6
<1> QED BY <1>4, <1>7, <1>8 DEF rest, before, after, RemoveAt

(***************************************************************************)
(* The steps.                                                              *)
(***************************************************************************)

LEMMA InitRecInv == Init => RecInv
<1> SUFFICES ASSUME NEW t \in Tab, Init, book = <<t>>, active = t PROVE RecInv
    BY DEF Init
<1>1. TabsAreOpen
    BY OneTab DEF Init, TabsAreOpen, Recordings
<1> QED BY <1>1, RecorderAssumption DEF Init, RecInv, FlagsTyped, IndentTyped,
            RecordedSends, StrayWasMisaimed

aim == <<recording, flag, indenting, misaimed>>

\* Commands, by key, menu or playing, and the choice of another tab.
LEMMA EditingSteps ==
    ASSUME RecInv, UNCHANGED book, UNCHANGED aim, active' \in ToSet(book)
    PROVE  RecInv'
<1>1. TabsAreOpen'
    BY DEF RecInv, TabsAreOpen, aim
<1> QED BY <1>1 DEF RecInv, aim, FlagsTyped, IndentTyped, RecordedSends, StrayWasMisaimed

LEMMA IndentBeginKeeps ==
    ASSUME RecInv, IndentBegin
    PROVE  RecInv'
<1>1. active \in Tab
    BY OpenTabs DEF RecInv, TabsAreOpen
<1>2. /\ UNCHANGED <<book, active, recording, misaimed>>
      /\ flag' = [t \in Tab |-> flag[t] /\ t # recording]
      /\ indenting = None /\ indenting' = [doc |-> active, recording |-> recording]
    BY DEF IndentBegin, window, history
<1>3. TabsAreOpen'
    BY <1>2 DEF RecInv, TabsAreOpen
<1>4. FlagsTyped' /\ StrayWasMisaimed'
    BY <1>2 DEF RecInv, FlagsTyped, StrayWasMisaimed
<1>5. IndentTyped'
    BY <1>1, <1>2 DEF IndentTyped
<1>6. RecordedSends'
    <2>1. recording \in Tab \cup {None}
        BY DEF RecInv, TabsAreOpen, Recordings
    <2>2. indenting' # None
        BY <1>1, <1>2, <2>1, RecorderAssumption
    <2> QED BY <2>2, <1>2 DEF RecordedSends
<1> QED BY <1>3, <1>4, <1>5, <1>6 DEF RecInv

LEMMA IndentEndKeeps ==
    ASSUME RecInv, IndentEnd
    PROVE  RecInv'
<1>1. /\ UNCHANGED <<book, active, recording, misaimed>>
      /\ flag' = [t \in Tab |-> flag[t] \/ t = indenting.recording]
      /\ indenting # None /\ indenting' = None
    BY DEF IndentEnd, window
<1>2. TabsAreOpen'
    BY <1>1 DEF RecInv, TabsAreOpen
<1>3. indenting.recording \in {None, recording} \cup misaimed
    BY <1>1 DEF RecInv, IndentTyped
<1>4. FlagsTyped'
    BY <1>1 DEF RecInv, FlagsTyped
<1>5. StrayWasMisaimed'
    BY <1>1, <1>3, RecorderAssumption DEF RecInv, StrayWasMisaimed
<1>6. RecordedSends'
    BY <1>1 DEF RecInv, RecordedSends, TabsAreOpen, Recordings
<1>7. IndentTyped'
    BY <1>1 DEF IndentTyped
<1> QED BY <1>2, <1>4, <1>5, <1>6, <1>7 DEF RecInv

LEMMA ToggleKeeps ==
    ASSUME RecInv, ToggleRecorder
    PROVE  RecInv'
<1> DEFINE late == IF indenting = None THEN {} ELSE {indenting.recording}
<1>1. active \in Tab /\ book \in Seq(Tab) /\ active \in ToSet(book)
    BY OpenTabs DEF RecInv, TabsAreOpen
<1>2. /\ UNCHANGED <<book, active, indenting>>
      /\ misaimed' = (((misaimed \cup {recording}) \ {active}) \cup late) \ {None}
    BY DEF ToggleRecorder, window, Misaimed
<1>3. late \subseteq Recordings
    BY DEF RecInv, IndentTyped, FlagsTyped, TabsAreOpen, Recordings
<1>4. misaimed' \subseteq Tab
    BY <1>2, <1>3 DEF RecInv, FlagsTyped, TabsAreOpen, Recordings
<1>5. IndentTyped'
    <2>1. CASE indenting = None
        BY <2>1, <1>2 DEF IndentTyped
    <2>2. CASE indenting # None
        <3>1. indenting.recording \in {None} \cup misaimed'
            BY <2>2, <1>2
        <3>2. /\ indenting.doc \in Tab
              /\ indenting = [doc |-> indenting.doc, recording |-> indenting.recording]
            BY <2>2 DEF RecInv, IndentTyped
        <3> QED BY <3>1, <3>2, <1>2 DEF IndentTyped
    <2> QED BY <2>1, <2>2
<1>6. CASE StopRecorder(active)
    <2>1. recording' = None /\ flag' = [flag EXCEPT ![active] = FALSE]
        BY <1>6 DEF StopRecorder, EnableRecorder
    <2>2. TabsAreOpen' /\ RecordedSends'
        BY <1>1, <1>2, <2>1 DEF TabsAreOpen, RecordedSends, Recordings
    <2>3. FlagsTyped'
        BY <2>1, <1>4 DEF RecInv, FlagsTyped
    <2>4. ASSUME NEW t \in Tab, flag'[t] PROVE t \in misaimed'
        <3>1. t # active /\ flag[t]
            BY <1>1, <2>1, <2>4 DEF RecInv, FlagsTyped
        <3>2. t = recording \/ t \in misaimed
            BY <3>1 DEF RecInv, StrayWasMisaimed
        <3> QED BY <3>1, <3>2, <1>2, RecorderAssumption
    <2> QED BY <2>2, <2>3, <2>4, <1>5 DEF RecInv, StrayWasMisaimed
<1>7. CASE StartRecorder(active)
    <2>1. recording = None /\ recording' = active /\ flag' = [flag EXCEPT ![active] = TRUE]
        BY <1>7 DEF StartRecorder, EnableRecorder
    <2>2. FlagsTyped' /\ flag'[active]
        BY <1>1, <2>1, <1>4 DEF RecInv, FlagsTyped
    <2>3. TabsAreOpen' /\ RecordedSends'
        BY <1>1, <1>2, <2>1, <2>2 DEF TabsAreOpen, RecordedSends, Recordings
    <2>4. ASSUME NEW t \in Tab, flag'[t], t # active PROVE t \in misaimed'
        <3>1. flag[t]
            BY <2>1, <2>4 DEF RecInv, FlagsTyped
        <3>2. t \in misaimed
            BY <3>1, <2>1, RecorderAssumption DEF RecInv, StrayWasMisaimed
        <3> QED BY <3>2, <2>4, <1>2, RecorderAssumption
    <2> QED BY <2>1, <2>2, <2>3, <2>4, <1>5 DEF RecInv, StrayWasMisaimed
<1> QED BY <1>6, <1>7 DEF ToggleRecorder

(***************************************************************************)
(* Opening and closing.                                                    *)
(***************************************************************************)

\* A tab goes, control is active: a recording of it ends, and of no other.
LEMMA DoneSciKeeps ==
    ASSUME RecInv, indenting = None, UNCHANGED indenting,
           NEW t \in Tab, NEW control \in Tab, DoneSci(t, control),
           book' \in Seq(Tab), active' \in ToSet(book'),
           \A u \in ToSet(book) : u # t => u \in ToSet(book')
    PROVE  RecInv'
<1>1. /\ flag' = [u \in Tab |-> flag[u] /\ u # t /\ (u = control => recording # t)]
      /\ recording' = IF recording = t THEN None ELSE recording
      /\ misaimed' = misaimed \ ({t} \cup (IF recording = t THEN {control} ELSE {}))
    BY DEF DoneSci
<1>2. flag \in [Tab -> BOOLEAN] /\ misaimed \subseteq Tab
    BY DEF RecInv, FlagsTyped
<1>3. TabsAreOpen'
    BY <1>1 DEF RecInv, TabsAreOpen, Recordings
<1>4. IndentTyped'
    BY DEF IndentTyped
<1>5. \A u \in Tab : flag'[u] <=> flag[u] /\ u # t /\ (u = control => recording # t)
    BY <1>1, <1>2
<1>6. FlagsTyped'
    BY <1>1, <1>2 DEF FlagsTyped
<1>7. RecordedSends'
    <2> SUFFICES ASSUME recording' # None PROVE flag'[recording']
        BY DEF RecordedSends
    <2>1. recording # t /\ recording' = recording /\ recording \in Tab
        BY <1>1 DEF RecInv, TabsAreOpen, Recordings
    <2>2. flag[recording]
        BY <2>1 DEF RecInv, RecordedSends
    <2> QED BY <2>1, <2>2, <1>5
<1>8. StrayWasMisaimed'
    <2> SUFFICES ASSUME NEW u \in Tab, flag'[u] PROVE u = recording' \/ u \in misaimed'
        BY DEF StrayWasMisaimed
    <2>1. flag[u] /\ u # t /\ (u = control => recording # t)
        BY <1>5
    <2>2. u = recording \/ u \in misaimed
        BY <2>1 DEF RecInv, StrayWasMisaimed
    <2> QED BY <2>1, <2>2, <1>1
<1> QED BY <1>3, <1>4, <1>6, <1>7, <1>8 DEF RecInv

LEMMA OpenFileKeeps ==
    ASSUME RecInv, NEW t \in Tab, NEW named \in BOOLEAN, OpenFile(t, named)
    PROVE  RecInv'
<1>1. book \in Seq(Tab) /\ indenting = None /\ UNCHANGED indenting /\ active' = t
    BY DEF RecInv, TabsAreOpen, OpenFile
<1>2. CASE book' = Append(book, t) /\ UNCHANGED <<recording, flag, misaimed>>
    <2>1. book' \in Seq(Tab) /\ ToSet(book') = ToSet(book) \cup {t}
        BY <1>1, <1>2, AppendTab
    <2>2. TabsAreOpen'
        BY <2>1, <1>1, <1>2 DEF RecInv, TabsAreOpen
    <2> QED BY <2>2, <1>1, <1>2 DEF RecInv, FlagsTyped, IndentTyped, RecordedSends, StrayWasMisaimed
<1>3. CASE book' = <<t>> /\ Len(book) = 1 /\ DoneSci(Head(book), Head(book))
    <2>1. Head(book) = book[1] /\ Head(book) \in Tab /\ ToSet(book) = {Head(book)}
        <3>1. Head(book) = book[1] /\ book[1] \in Tab
            BY <1>1, <1>3, ElementOfSeq
        <3>2. \A u : u \in ToSet(book) <=> \E i \in 1 .. 1 : book[i] = u
            BY <1>1, <1>3, OpenTabs
        <3> QED BY <3>1, <3>2
    <2>2. book' \in Seq(Tab) /\ active' \in ToSet(book')
        BY <1>1, <1>3, OneTab
    <2> QED BY <2>1, <2>2, <1>1, <1>3, DoneSciKeeps
<1> QED BY <1>2, <1>3 DEF OpenFile

LEMMA CloseLastKeeps ==
    ASSUME RecInv, NEW t \in Tab, CloseLast(t)
    PROVE  RecInv'
<1>1. /\ book \in Seq(Tab) /\ active \in ToSet(book) /\ Len(book) = 1
      /\ indenting = None /\ UNCHANGED indenting
      /\ book' = <<t>> /\ active' = t /\ DoneSci(active, t)
    BY DEF RecInv, TabsAreOpen, CloseLast
<1>2. active \in Tab /\ ToSet(book) = {active}
    <2>1. \A u : u \in ToSet(book) <=> \E i \in 1 .. 1 : book[i] = u
        BY <1>1, OpenTabs
    <2> QED BY <2>1, <1>1, OpenTabs
<1>3. book' \in Seq(Tab) /\ active' \in ToSet(book')
    BY <1>1, OneTab
<1> QED BY <1>1, <1>2, <1>3, DoneSciKeeps

LEMMA CloseFileKeeps ==
    ASSUME RecInv, CloseFile
    PROVE  RecInv'
<1> DEFINE i == CHOOSE k \in 1 .. Len(book) : book[k] = active
           rest == RemoveAt(book, i)
<1>1. /\ book \in Seq(Tab) /\ active \in ToSet(book) /\ Len(book) > 1
      /\ indenting = None /\ UNCHANGED indenting
      /\ book' = rest /\ active' = rest[Lesser(i, Len(rest))] /\ DoneSci(active, active)
    BY DEF RecInv, TabsAreOpen, CloseFile
<1>2. i \in 1 .. Len(book) /\ book[i] = active /\ active \in Tab
    BY <1>1, OpenTabs
<1> HIDE DEF i
<1>3. /\ book' \in Seq(Tab) /\ active' \in ToSet(book')
      /\ \A u \in ToSet(book) : u # active => u \in ToSet(book')
    BY <1>1, <1>2, RemoveTab
<1> QED BY <1>1, <1>2, <1>3, DoneSciKeeps

(***************************************************************************)
(* The theorems about who sends.                                           *)
(***************************************************************************)

LEMMA NextRecInv == RecInv /\ [Next]_vars => RecInv'
<1> SUFFICES ASSUME RecInv, [Next]_vars PROVE RecInv'
    OBVIOUS
<1>1. active \in ToSet(book)
    BY DEF RecInv, TabsAreOpen
<1>2. ASSUME NEW msg, NEW s, NEW pos, Send(msg, s, pos) PROVE RecInv'
    <2>1. UNCHANGED book /\ UNCHANGED active /\ UNCHANGED aim
        BY <1>2 DEF Send, Noted, window, aim
    <2> QED BY <2>1, <1>1, EditingSteps
<1>3. CASE (\E msg \in Once \cup Counted : Key(msg)) \/ Type
    BY <1>2, <1>3 DEF Key, Type
<1>4. ASSUME NEW col, Goto(col) PROVE RecInv'
    <2>1. UNCHANGED book /\ UNCHANGED active /\ UNCHANGED aim
        BY <1>4 DEF Goto, Noted, window, aim
    <2> QED BY <2>1, <1>1, EditingSteps
<1>5. ASSUME NEW caret, Click(0, caret) PROVE RecInv'
    <2>1. UNCHANGED book /\ UNCHANGED active /\ UNCHANGED aim
        BY <1>5 DEF Click, window, aim
    <2> QED BY <2>1, <1>1, EditingSteps
<1>6. ASSUME NEW t \in Tab, Switch(t) PROVE RecInv'
    <2>1. UNCHANGED book /\ active' \in ToSet(book) /\ UNCHANGED aim
        BY <1>6 DEF Switch, history, aim
    <2> QED BY <2>1, EditingSteps
<1>7. CASE Playback
    <2>1. UNCHANGED book /\ UNCHANGED active /\ UNCHANGED aim
        BY <1>7 DEF Playback, window, history, aim
    <2> QED BY <2>1, <1>1, EditingSteps
<1>8. CASE UNCHANGED vars
    <2>1. UNCHANGED book /\ UNCHANGED active /\ UNCHANGED aim
        BY <1>8 DEF vars, aim
    <2> QED BY <2>1, <1>1, EditingSteps
<1>9. CASE Next
    BY <1>3, <1>4, <1>5, <1>6, <1>7, <1>9, IndentBeginKeeps, IndentEndKeeps, ToggleKeeps,
       OpenFileKeeps, CloseLastKeeps, CloseFileKeeps DEF Next, Step
<1> QED BY <1>8, <1>9

\* The document that the window believes is recorded is open and sends its
\* commands, whatever is opened, closed or indented meanwhile (DoneSci, CharAdded).
THEOREM RecordingIsHeardHolds == Spec => []RecordingIsHeard
<1>1. RecInv => RecordingIsHeard
    BY DEF RecInv, TabsAreOpen, RecordedSends, RecordingIsHeard
<1> QED BY InitRecInv, NextRecInv, <1>1, PTL DEF Spec

\* No document sends its commands but the recorded one and those that an end of
\* the recording missed (ToggleRecorder, StopRecorder, CharAdded).
THEOREM StrayWasMisaimedHolds == Spec => []StrayWasMisaimed
<1>1. RecInv => StrayWasMisaimed
    BY DEF RecInv
<1> QED BY InitRecInv, NextRecInv, <1>1, PTL DEF Spec

(***************************************************************************)
(* Texts, commands and messages.                                           *)
(***************************************************************************)

Chars == {"a", "}"}

Docs ==
    {d \in [named : BOOLEAN, dirty : BOOLEAN, text : Seq(Chars), anchor : Nat, caret : Nat] :
        d.anchor <= Len(d.text) /\ d.caret <= Len(d.text)}

\* A document and the clipboard.
States == [doc : Docs, clip : Seq(Chars)]

Messages ==
    {m \in [msg : Commands, n : Nat, s : Seq(Chars), pos : 0 .. MaxLen] :
        /\ m.n > 0 => m.msg \in Counted
        /\ m.s # <<>> <=> m.msg = "REPLACESEL"}

LEMMA TextParts ==
    ASSUME NEW t \in Seq(Chars)
    PROVE  Len(t) \in Nat /\ DOMAIN t = 1 .. Len(t) /\ \A i \in 1 .. Len(t) : t[i] \in Chars
BY LenProperties, ElementOfSeq

LEMMA TextPiece ==
    ASSUME NEW t \in Seq(Chars), NEW m \in Nat, NEW n \in Nat, 1 <= m, m <= n + 1, n <= Len(t)
    PROVE  /\ SubSeq(t, m, n) \in Seq(Chars) /\ Len(SubSeq(t, m, n)) = n - m + 1
           /\ \A i \in 1 .. n - m + 1 : SubSeq(t, m, n)[i] = t[m + i - 1]
<1>1. Len(t) \in Nat /\ \A i \in 1 .. Len(t) : t[i] \in Chars
    BY TextParts
<1>2. \A i \in m .. n : t[i] \in Chars
    <2>1. \A i \in m .. n : i \in 1 .. Len(t)
        BY <1>1
    <2> QED BY <1>1, <2>1
<1>3. /\ SubSeq(t, m, n) \in Seq(Chars)
      /\ Len(SubSeq(t, m, n)) = IF m <= n THEN n - m + 1 ELSE 0
      /\ \A i \in 1 .. n - m + 1 : SubSeq(t, m, n)[i] = t[m + i - 1]
    BY <1>2, SubSeqProperties
<1> QED BY <1>3

\* r is t with s in the place of what is between the positions i and j.
Spliced(r, t, i, j, s) ==
    /\ r \in Seq(Chars) /\ Len(r) = Len(t) + Len(s) - (j - i)
    /\ \A k \in 1 .. Len(t) + Len(s) - (j - i) :
           r[k] = IF k <= i THEN t[k] ELSE IF k <= i + Len(s) THEN s[k - i]
                  ELSE t[k - i - Len(s) + j]

LEMMA SplicedIs ==
    ASSUME NEW t \in Seq(Chars), NEW s \in Seq(Chars), NEW i \in Nat, NEW j \in Nat,
           i <= j, j <= Len(t)
    PROVE  Spliced(SubSeq(t, 1, i) \o s \o SubSeq(t, j + 1, Len(t)), t, i, j, s)
<1> DEFINE before == SubSeq(t, 1, i)
           after == SubSeq(t, j + 1, Len(t))
           start == before \o s
           r == start \o after
<1>1. PICK n \in Nat : n = Len(t)
    BY TextParts
<1>2. PICK m \in Nat : m = Len(s)
    BY TextParts
<1>3. /\ before \in Seq(Chars) /\ Len(before) = i
      /\ \A k \in 1 .. i : before[k] = t[k]
    <2>1. 1 \in Nat /\ 1 <= i + 1 /\ i <= Len(t)
        BY <1>1
    <2>2. /\ before \in Seq(Chars) /\ Len(before) = i - 1 + 1
          /\ \A k \in 1 .. i - 1 + 1 : before[k] = t[1 + k - 1]
        BY <2>1, TextPiece
    <2> HIDE DEF before
    <2> QED BY <2>2
<1>4. /\ after \in Seq(Chars) /\ Len(after) = n - j
      /\ \A k \in 1 .. n - j : after[k] = t[k + j]
    <2>1. j + 1 \in Nat /\ n \in Nat /\ 1 <= j + 1 /\ j + 1 <= n + 1 /\ n <= Len(t)
        BY <1>1
    <2>2. /\ SubSeq(t, j + 1, n) \in Seq(Chars) /\ Len(SubSeq(t, j + 1, n)) = n - (j + 1) + 1
          /\ \A k \in 1 .. n - (j + 1) + 1 : SubSeq(t, j + 1, n)[k] = t[j + 1 + k - 1]
        BY <2>1, TextPiece
    <2>3. after = SubSeq(t, j + 1, n)
        BY <1>1
    <2> HIDE DEF after
    <2> QED BY <2>2, <2>3
<1> HIDE DEF before, after
<1>5. /\ start \in Seq(Chars) /\ Len(start) = i + m
      /\ \A k \in 1 .. i + m : start[k] = IF k <= i THEN before[k] ELSE s[k - i]
    BY <1>2, <1>3, ConcatProperties
<1> HIDE DEF start
<1>6. /\ r \in Seq(Chars) /\ Len(r) = i + m + (n - j)
      /\ \A k \in 1 .. i + m + (n - j) : r[k] = IF k <= i + m THEN start[k] ELSE after[k - (i + m)]
    <2>1. /\ r \in Seq(Chars) /\ Len(r) = Len(start) + Len(after)
          /\ \A k \in 1 .. Len(start) + Len(after) :
                 r[k] = IF k <= Len(start) THEN start[k] ELSE after[k - Len(start)]
        BY <1>4, <1>5, ConcatProperties
    <2> HIDE DEF r
    <2> QED BY <2>1, <1>4, <1>5
<1> HIDE DEF r
<1>7. ASSUME NEW k \in 1 .. n + m - (j - i)
      PROVE  r[k] = IF k <= i THEN t[k] ELSE IF k <= i + m THEN s[k - i] ELSE t[k - i - m + j]
    <2>1. k \in 1 .. i + m + (n - j)
        BY <1>1
    <2>2. CASE k <= i
        <3>1. k \in 1 .. i /\ k \in 1 .. i + m /\ k <= i + m
            BY <2>2
        <3> QED BY <3>1, <2>1, <2>2, <1>3, <1>5, <1>6
    <2>3. CASE ~(k <= i) /\ k <= i + m
        <3>1. k \in 1 .. i + m
            BY <2>3
        <3> QED BY <3>1, <2>1, <2>3, <1>5, <1>6
    <2>4. CASE ~(k <= i) /\ ~(k <= i + m)
        <3>1. k - (i + m) \in 1 .. n - j /\ k - (i + m) + j = k - i - m + j
            BY <2>1, <2>4, <1>1
        <3>2. r[k] = after[k - (i + m)]
            BY <2>1, <2>4, <1>6
        <3> QED BY <3>1, <3>2, <2>4, <1>4
    <2> QED BY <2>2, <2>3, <2>4
<1>8. i + m + (n - j) = n + m - (j - i)
    BY <1>1
<1>9. Spliced(r, t, i, j, s)
    BY <1>1, <1>2, <1>6, <1>7, <1>8 DEF Spliced
<1> QED BY <1>9 DEF r, start, before, after

\* A text put in where another has just been put in is the two in one.
LEMMA SplicedTwice ==
    ASSUME NEW t \in Seq(Chars), NEW s \in Seq(Chars), NEW x \in Seq(Chars),
           NEW i \in Nat, NEW j \in Nat, i <= j, j <= Len(t),
           NEW r, Spliced(r, t, i, j, s),
           NEW q, Spliced(q, r, i + Len(s), i + Len(s), x),
           NEW p, Spliced(p, t, i, j, s \o x)
    PROVE  q = p
<1>1. PICK n \in Nat : n = Len(t)
    BY TextParts
<1>2. PICK m \in Nat : m = Len(s)
    BY TextParts
<1>3. PICK l \in Nat : l = Len(x)
    BY TextParts
<1>4. /\ s \o x \in Seq(Chars) /\ Len(s \o x) = m + l
      /\ \A k \in 1 .. m + l : (s \o x)[k] = IF k <= m THEN s[k] ELSE x[k - m]
    BY <1>2, <1>3, ConcatProperties
<1>5. PICK y : y = s \o x
    OBVIOUS
<1>6. PICK len \in Nat : len = n + m + l - (j - i)
    <2>1. n + m + l - (j - i) \in Nat
        BY <1>1
    <2> QED BY <2>1
<1>7. /\ Len(r) = n + m - (j - i)
      /\ \A k \in 1 .. n + m - (j - i) :
             r[k] = IF k <= i THEN t[k] ELSE IF k <= i + m THEN s[k - i] ELSE t[k - i - m + j]
    BY <1>1, <1>2 DEF Spliced
<1>8. /\ q \in Seq(Chars) /\ Len(q) = len
      /\ \A k \in 1 .. len : q[k] = IF k <= i + m THEN r[k] ELSE IF k <= i + m + l THEN x[k - (i + m)]
                                    ELSE r[k - (i + m) - l + (i + m)]
    <2>1. Len(r) + l - (i + m - (i + m)) = len
        BY <1>1, <1>6, <1>7
    <2> QED BY <2>1, <1>2, <1>3 DEF Spliced
<1>9. /\ p \in Seq(Chars) /\ Len(p) = len
      /\ \A k \in 1 .. len : p[k] = IF k <= i THEN t[k] ELSE IF k <= i + (m + l) THEN y[k - i]
                                    ELSE t[k - i - (m + l) + j]
    <2>1. n + (m + l) - (j - i) = len
        BY <1>1, <1>6
    <2> QED BY <2>1, <1>1, <1>4, <1>5 DEF Spliced
<1>10. ASSUME NEW k \in 1 .. len PROVE q[k] = p[k]
    <2>1. CASE k <= i
        <3>1. k <= i + m /\ k \in 1 .. n + m - (j - i)
            BY <2>1, <1>1
        <3> QED BY <3>1, <2>1, <1>7, <1>8, <1>9
    <2>2. CASE ~(k <= i) /\ k <= i + m
        <3>1. k \in 1 .. n + m - (j - i) /\ k <= i + (m + l) /\ k - i \in 1 .. m + l /\ k - i <= m
            BY <2>2, <1>1
        <3>2. q[k] = s[k - i]
            BY <3>1, <2>2, <1>7, <1>8
        <3>3. p[k] = y[k - i]
            BY <3>1, <2>2, <1>9
        <3> QED BY <3>1, <3>2, <3>3, <1>4, <1>5
    <2>3. CASE ~(k <= i + m) /\ k <= i + m + l
        <3>1. ~(k <= i) /\ k <= i + (m + l) /\ k - i \in 1 .. m + l /\ ~(k - i <= m)
              /\ k - i - m = k - (i + m)
            BY <2>3
        <3>2. q[k] = x[k - (i + m)]
            BY <2>3, <1>8
        <3>3. p[k] = y[k - i]
            BY <3>1, <1>9
        <3> QED BY <3>1, <3>2, <3>3, <1>4, <1>5
    <2>4. CASE ~(k <= i + m + l)
        <3>1. PICK k2 \in Int : k2 = k - l
            OBVIOUS
        <3>2. /\ ~(k <= i + m) /\ ~(k <= i) /\ ~(k <= i + (m + l)) /\ k2 \in 1 .. n + m - (j - i)
              /\ ~(k2 <= i) /\ ~(k2 <= i + m) /\ k - (i + m) - l + (i + m) = k2
              /\ k2 - i - m + j = k - i - (m + l) + j
            BY <2>4, <3>1, <1>1, <1>6
        <3>3. q[k] = r[k2]
            BY <3>2, <2>4, <1>8
        <3>4. r[k2] = t[k2 - i - m + j]
            BY <3>2, <1>7
        <3>5. p[k] = t[k - i - (m + l) + j]
            BY <3>2, <1>9
        <3> QED BY <3>2, <3>3, <3>4, <3>5
    <2> QED BY <2>1, <2>2, <2>3, <2>4
<1> QED BY <1>8, <1>9, <1>10, SeqEqual

(***************************************************************************)
(* What a command does.                                                    *)
(***************************************************************************)

LEMMA DocParts ==
    ASSUME NEW d \in Docs
    PROVE  /\ d.named \in BOOLEAN /\ d.dirty \in BOOLEAN /\ d.text \in Seq(Chars)
           /\ d.anchor \in 0 .. Len(d.text) /\ d.caret \in 0 .. Len(d.text)
           /\ Len(d.text) \in Nat
           /\ SelStart(d) \in Nat /\ SelEnd(d) \in Nat
           /\ SelStart(d) <= SelEnd(d) /\ SelEnd(d) <= Len(d.text)
<1>1. /\ d.named \in BOOLEAN /\ d.dirty \in BOOLEAN /\ d.text \in Seq(Chars)
      /\ d.anchor \in Nat /\ d.caret \in Nat /\ d.anchor <= Len(d.text) /\ d.caret <= Len(d.text)
    BY DEF Docs
<1>2. Len(d.text) \in Nat
    BY <1>1, TextParts
<1> QED BY <1>1, <1>2 DEF SelStart, SelEnd, Lesser, Greater

\* Documents with the same parts are the same.
LEMMA SameDoc ==
    ASSUME NEW d \in Docs, NEW c \in Docs, c.named = d.named, c.dirty = d.dirty,
           c.text = d.text, c.anchor = d.anchor, c.caret = d.caret
    PROVE  c = d
<1>1. /\ d \in [named : BOOLEAN, dirty : BOOLEAN, text : Seq(Chars), anchor : Nat, caret : Nat]
      /\ c \in [named : BOOLEAN, dirty : BOOLEAN, text : Seq(Chars), anchor : Nat, caret : Nat]
    BY DEF Docs
<1>2. d = [named |-> d.named, dirty |-> d.dirty, text |-> d.text, anchor |-> d.anchor, caret |-> d.caret]
    BY <1>1
<1>3. c = [named |-> c.named, dirty |-> c.dirty, text |-> c.text, anchor |-> c.anchor, caret |-> c.caret]
    BY <1>1
<1> QED BY <1>2, <1>3

LEMMA AtIs ==
    ASSUME NEW d \in Docs, NEW pos \in Nat, pos <= Len(d.text)
    PROVE  /\ At(d, pos) \in Docs
           /\ At(d, pos).text = d.text
           /\ At(d, pos).anchor = pos /\ At(d, pos).caret = pos
           /\ \A i : At(At(d, pos), i) = At(d, i)
<1>1. d \in [named : BOOLEAN, dirty : BOOLEAN, text : Seq(Chars), anchor : Nat, caret : Nat]
    BY DEF Docs
<1>2. /\ At(d, pos) \in [named : BOOLEAN, dirty : BOOLEAN, text : Seq(Chars), anchor : Nat, caret : Nat]
      /\ At(d, pos).text = d.text /\ At(d, pos).anchor = pos /\ At(d, pos).caret = pos
    BY <1>1 DEF At
<1>3. At(d, pos) \in Docs
    BY <1>2 DEF Docs
<1>4. ASSUME NEW i PROVE At(At(d, pos), i) = At(d, i)
    BY <1>1 DEF At
<1> QED BY <1>2, <1>3, <1>4

\* r is d with s in the place of what is from i to j.
Replaced(r, d, i, j, s) ==
    /\ r \in Docs
    /\ r.named = d.named
    /\ r.dirty = (d.dirty \/ i # j \/ s # <<>>)
    /\ Spliced(r.text, d.text, i, j, s)
    /\ r.anchor = i + Len(s) /\ r.caret = i + Len(s)

LEMMA ReplacedIs ==
    ASSUME NEW d \in Docs, NEW i \in Nat, NEW j \in Nat, i <= j, j <= Len(d.text),
           NEW s \in Seq(Chars)
    PROVE  Replaced(Replace(d, i, j, s), d, i, j, s)
<1> DEFINE text == SubSeq(d.text, 1, i) \o s \o SubSeq(d.text, j + 1, Len(d.text))
           dirty == d.dirty \/ i # j \/ s # <<>>
           pos == i + Len(s)
           r == Replace(d, i, j, s)
<1>1. d \in [named : BOOLEAN, dirty : BOOLEAN, text : Seq(Chars), anchor : Nat, caret : Nat]
    BY DEF Docs
<1>2. Spliced(text, d.text, i, j, s)
    BY <1>1, SplicedIs
<1>3. Len(s) \in Nat /\ Len(d.text) \in Nat
    BY <1>1, TextParts
<1>4. text \in Seq(Chars) /\ Len(text) = Len(d.text) + Len(s) - (j - i)
    BY <1>2 DEF Spliced
<1>5. pos \in Nat /\ pos <= Len(text)
    <2> HIDE DEF text
    <2>1. PICK n \in Nat : n = Len(d.text)
        BY <1>3
    <2>2. PICK m \in Nat : m = Len(s)
        BY <1>3
    <2>3. j <= n /\ Len(text) = n + m - (j - i)
        BY <1>4, <2>1, <2>2
    <2>4. i + m \in Nat /\ i + m <= n + m - (j - i)
        BY <2>3
    <2> QED BY <2>2, <2>3, <2>4
<1>6. r = [[d EXCEPT !.text = text, !.dirty = dirty] EXCEPT !.anchor = pos, !.caret = pos]
    BY DEF Replace, At
<1>7. dirty \in BOOLEAN
    OBVIOUS
<1> HIDE DEF text, dirty, pos, r
<1>8. /\ r \in [named : BOOLEAN, dirty : BOOLEAN, text : Seq(Chars), anchor : Nat, caret : Nat]
      /\ r.named = d.named /\ r.dirty = dirty /\ r.text = text /\ r.anchor = pos /\ r.caret = pos
    BY <1>1, <1>4, <1>5, <1>6, <1>7
<1>9. r \in Docs
    BY <1>5, <1>8 DEF Docs
<1>10. r.dirty = (d.dirty \/ i # j \/ s # <<>>)
    BY <1>8, Zenon DEF dirty
<1>11. Replaced(r, d, i, j, s)
    BY <1>2, <1>8, <1>9, <1>10 DEF Replaced, pos
<1> QED BY <1>11 DEF r

\* Typing on is typing it all at once.
LEMMA ReplacedTwice ==
    ASSUME NEW d \in Docs, NEW i \in Nat, NEW j \in Nat, i <= j, j <= Len(d.text),
           NEW s \in Seq(Chars), NEW x \in Seq(Chars)
    PROVE  Replace(Replace(d, i, j, s), i + Len(s), i + Len(s), x) = Replace(d, i, j, s \o x)
<1>1. PICK r : r = Replace(d, i, j, s)
    OBVIOUS
<1>2. PICK c : c = i + Len(s)
    OBVIOUS
<1>3. PICK q : q = Replace(r, c, c, x)
    OBVIOUS
<1>4. PICK p : p = Replace(d, i, j, s \o x)
    OBVIOUS
<1>5. Replaced(r, d, i, j, s)
    BY <1>1, ReplacedIs
<1>6. c \in Nat /\ c <= Len(r.text) /\ r \in Docs
    <2>1. d.text \in Seq(Chars) /\ Len(d.text) \in Nat
        BY DocParts
    <2>2. Len(s) \in Nat
        BY TextParts
    <2>3. Len(r.text) = Len(d.text) + Len(s) - (j - i) /\ r \in Docs
        BY <1>5 DEF Replaced, Spliced
    <2>4. PICK n \in Nat : n = Len(d.text)
        BY <2>1
    <2>5. PICK m \in Nat : m = Len(s)
        BY <2>2
    <2>6. j <= n
        BY <2>4
    <2>7. i + m \in Nat /\ i + m <= n + m - (j - i)
        BY <2>6
    <2> QED BY <2>3, <2>4, <2>5, <2>7, <1>2
<1>7. Replaced(q, r, c, c, x)
    BY <1>3, <1>6, ReplacedIs
<1>8. Replaced(p, d, i, j, s \o x)
    <2>1. s \o x \in Seq(Chars)
        BY ConcatProperties
    <2> QED BY <2>1, <1>4, ReplacedIs
<1>9. q.text = p.text
    <2>1. d.text \in Seq(Chars)
        BY DocParts
    <2>2. /\ Spliced(r.text, d.text, i, j, s) /\ Spliced(q.text, r.text, i + Len(s), i + Len(s), x)
          /\ Spliced(p.text, d.text, i, j, s \o x)
        BY <1>2, <1>5, <1>7, <1>8 DEF Replaced
    <2> QED BY <2>1, <2>2, SplicedTwice
<1>10. q.named = p.named /\ q \in Docs /\ p \in Docs
    BY <1>5, <1>7, <1>8 DEF Replaced
<1>11. Len(s) \in Nat /\ Len(x) \in Nat /\ Len(s \o x) = Len(s) + Len(x)
    BY TextParts, ConcatProperties
<1>12. q.anchor = p.anchor /\ q.caret = p.caret
    BY <1>2, <1>7, <1>8, <1>11 DEF Replaced
<1>13. q.dirty = p.dirty
    <2>1. s \o x = <<>> <=> s = <<>> /\ x = <<>>
        <3>1. \A t \in Seq(Chars) : t = <<>> <=> Len(t) = 0
            BY EmptySeq
        <3>2. s \o x \in Seq(Chars)
            BY ConcatProperties
        <3> QED BY <3>1, <3>2, <1>11
    <2>2. r.dirty = (d.dirty \/ i # j \/ s # <<>>)
        BY <1>5, Zenon DEF Replaced
    <2>3. q.dirty = (r.dirty \/ c # c \/ x # <<>>)
        BY <1>7, Zenon DEF Replaced
    <2>4. p.dirty = (d.dirty \/ i # j \/ s \o x # <<>>)
        BY <1>8, Zenon DEF Replaced
    <2> QED BY <2>1, <2>2, <2>3, <2>4, Zenon
<1>14. q = p
    BY <1>9, <1>10, <1>12, <1>13, SameDoc
<1> QED BY <1>1, <1>2, <1>3, <1>4, <1>14

LEMMA StateParts ==
    ASSUME NEW e \in States
    PROVE  /\ e.doc \in Docs /\ e.clip \in Seq(Chars) /\ e = [doc |-> e.doc, clip |-> e.clip]
           /\ \A d : [e EXCEPT !.doc = d] = [doc |-> d, clip |-> e.clip]
           /\ \A s : [e EXCEPT !.clip = s] = [doc |-> e.doc, clip |-> s]
BY DEF States

\* What is selected is put in the clipboard.
LEMMA SelectedIs ==
    ASSUME NEW d \in Docs
    PROVE  Selected(d) \in Seq(Chars) /\ Len(Selected(d)) \in Nat /\ Len(Selected(d)) <= Len(d.text)
<1>1. PICK i \in Nat : i = SelStart(d)
    BY DocParts
<1>2. PICK j \in Nat : j = SelEnd(d)
    BY DocParts
<1>3. i <= j /\ j <= Len(d.text) /\ d.text \in Seq(Chars) /\ Len(d.text) \in Nat
    BY <1>1, <1>2, DocParts
<1>4. i + 1 \in Nat /\ 1 <= i + 1 /\ i + 1 <= j + 1
    BY <1>3
<1>5. SubSeq(d.text, i + 1, j) \in Seq(Chars) /\ Len(SubSeq(d.text, i + 1, j)) = j - (i + 1) + 1
    BY <1>3, <1>4, TextPiece
<1> QED BY <1>1, <1>2, <1>3, <1>5 DEF Selected

\* The commands one by one.
LEMMA Performed ==
    ASSUME NEW e \in States, NEW s \in Seq(Chars), NEW pos \in Nat
    PROVE  /\ Perform(e, "COPY", s, pos) = [doc |-> e.doc, clip |-> Selected(e.doc)]
           /\ Perform(e, "CUT", s, pos) = [doc |-> ClearSelection(e.doc), clip |-> Selected(e.doc)]
           /\ Perform(e, "PASTE", s, pos) =
                 [doc |-> Replace(e.doc, SelStart(e.doc), SelEnd(e.doc), e.clip), clip |-> e.clip]
           /\ Perform(e, "REPLACESEL", s, pos) =
                 [doc |-> Replace(e.doc, SelStart(e.doc), SelEnd(e.doc), s), clip |-> e.clip]
           /\ Perform(e, "HOME", s, pos) = [doc |-> At(e.doc, 0), clip |-> e.clip]
           /\ \A msg \in Absolute :
                 Perform(e, msg, s, pos) =
                    [doc |-> At(e.doc, Lesser(pos, Len(e.doc.text))), clip |-> e.clip]
<1>1. Perform(e, "COPY", s, pos) = [doc |-> e.doc, clip |-> Selected(e.doc)]
    BY StateParts DEF Perform
<1>2. Perform(e, "CUT", s, pos) = [doc |-> ClearSelection(e.doc), clip |-> Selected(e.doc)]
    BY DEF Perform
<1>3. Perform(e, "PASTE", s, pos) =
          [doc |-> Replace(e.doc, SelStart(e.doc), SelEnd(e.doc), e.clip), clip |-> e.clip]
    BY StateParts DEF Perform
<1>4. Perform(e, "REPLACESEL", s, pos) =
          [doc |-> Replace(e.doc, SelStart(e.doc), SelEnd(e.doc), s), clip |-> e.clip]
    BY StateParts DEF Perform
<1>5. Perform(e, "HOME", s, pos) = [doc |-> At(e.doc, 0), clip |-> e.clip]
    BY StateParts DEF Perform
<1>6. ASSUME NEW msg \in Absolute
      PROVE  Perform(e, msg, s, pos) =
                 [doc |-> At(e.doc, Lesser(pos, Len(e.doc.text))), clip |-> e.clip]
    BY StateParts DEF Perform, Absolute
<1> QED BY <1>1, <1>2, <1>3, <1>4, <1>5, <1>6

LEMMA PerformKeeps ==
    ASSUME NEW e \in States, NEW msg \in Commands, NEW s \in Seq(Chars), NEW pos \in Nat
    PROVE  Perform(e, msg, s, pos) \in States
<1>1. PICK d \in Docs : d = e.doc
    BY StateParts
<1>2. e.clip \in Seq(Chars)
    BY StateParts
<1>3. PICK n \in Nat : n = Len(d.text)
    BY DocParts
<1>4. PICK i \in Nat : i = SelStart(d)
    BY DocParts
<1>5. PICK j \in Nat : j = SelEnd(d)
    BY DocParts
<1>6. i <= j /\ j <= n
    BY <1>3, <1>4, <1>5, DocParts
<1>7. d.anchor \in 0 .. n /\ d.caret \in 0 .. n
    BY <1>3, DocParts
<1>8. \A a \in 0 .. n, b \in 0 .. n, x \in Seq(Chars) : a <= b => Replace(d, a, b, x) \in Docs
    <2>1. ASSUME NEW a \in 0 .. n, NEW b \in 0 .. n, NEW x \in Seq(Chars), a <= b
          PROVE  Replace(d, a, b, x) \in Docs
        <3>1. a \in Nat /\ b \in Nat /\ b <= Len(d.text)
            BY <1>3
        <3>2. Replaced(Replace(d, a, b, x), d, a, b, x)
            BY <2>1, <3>1, ReplacedIs
        <3> QED BY <3>2 DEF Replaced
    <2> QED BY <2>1
<1>9. \A a \in 0 .. n : At(d, a) \in Docs
    <2>1. ASSUME NEW a \in 0 .. n PROVE At(d, a) \in Docs
        <3>1. a \in Nat /\ a <= Len(d.text)
            BY <1>3
        <3> QED BY <3>1, AtIs
    <2> QED BY <2>1
<1>10. i \in 0 .. n /\ j \in 0 .. n /\ <<>> \in Seq(Chars)
    BY <1>6
<1>11. ClearSelection(d) \in Docs
    BY <1>4, <1>5, <1>6, <1>8, <1>10 DEF ClearSelection
<1>12. \A c \in Docs, x \in Seq(Chars) : [doc |-> c, clip |-> x] \in States
    BY DEF States
<1>13. CASE msg \in {"COPY", "CUT"}
    <2>1. Selected(d) \in Seq(Chars)
        BY SelectedIs
    <2> QED BY <2>1, <1>1, <1>2, <1>11, <1>12, <1>13, Performed
<1>14. CASE msg \in {"PASTE", "REPLACESEL"}
    <2>1. Replace(d, i, j, e.clip) \in Docs /\ Replace(d, i, j, s) \in Docs
        BY <1>2, <1>6, <1>8, <1>10
    <2> QED BY <2>1, <1>1, <1>2, <1>4, <1>5, <1>12, <1>14, Performed
<1>15. CASE msg = "HOME"
    <2>1. At(d, 0) \in Docs
        BY <1>9
    <2> QED BY <2>1, <1>1, <1>2, <1>12, <1>15, Performed
<1>16. CASE msg \in Absolute
    <2>1. Lesser(pos, Len(d.text)) \in 0 .. n
        BY <1>3 DEF Lesser
    <2>2. At(d, Lesser(pos, Len(d.text))) \in Docs
        BY <2>1, <1>9
    <2> QED BY <2>2, <1>1, <1>2, <1>12, <1>16, Performed
<1>17. Greater(d.caret, 1) - 1 \in 0 .. n /\ Greater(d.caret, 1) - 1 <= d.caret
    BY <1>7 DEF Greater
<1>18. CASE msg = "CHARLEFT"
    <2>1. Perform(e, msg, s, pos) =
              [e EXCEPT !.doc = At(d, IF d.anchor = d.caret THEN Greater(d.caret, 1) - 1 ELSE SelStart(d))]
        BY <1>1, <1>18 DEF Perform
    <2>2. (IF d.anchor = d.caret THEN Greater(d.caret, 1) - 1 ELSE SelStart(d)) \in 0 .. n
        BY <1>4, <1>10, <1>17
    <2> QED BY <2>1, <2>2, <1>2, <1>9, <1>12, StateParts
<1>19. CASE msg = "CHARLEFTEXTEND"
    <2>1. Perform(e, msg, s, pos) = [e EXCEPT !.doc = [d EXCEPT !.caret = Greater(@, 1) - 1]]
        BY <1>1, <1>19 DEF Perform
    <2>2. [d EXCEPT !.caret = Greater(@, 1) - 1] \in Docs
        <3>1. d \in [named : BOOLEAN, dirty : BOOLEAN, text : Seq(Chars), anchor : Nat, caret : Nat]
            BY DEF Docs
        <3>2. PICK c \in 0 .. n : c = Greater(d.caret, 1) - 1
            BY <1>17
        <3>3. [d EXCEPT !.caret = c] \in Docs
            BY <3>1, <1>3, <1>7 DEF Docs
        <3> QED BY <3>2, <3>3
    <2> QED BY <2>1, <2>2, <1>2, <1>12, StateParts
<1>20. CASE msg = "DELETEBACK"
    <2>1. Perform(e, msg, s, pos) =
              [e EXCEPT !.doc = IF d.anchor # d.caret THEN ClearSelection(d)
                                ELSE Replace(d, Greater(d.caret, 1) - 1, d.caret, <<>>)]
        BY <1>1, <1>20 DEF Perform
    <2>2. Replace(d, Greater(d.caret, 1) - 1, d.caret, <<>>) \in Docs
        BY <1>7, <1>8, <1>10, <1>17
    <2> QED BY <2>1, <2>2, <1>2, <1>11, <1>12, StateParts
<1> QED BY <1>13, <1>14, <1>15, <1>16, <1>18, <1>19, <1>20 DEF Commands, Absolute

(***************************************************************************)
(* Playing.                                                                *)
(***************************************************************************)

\* A caret call leads into the text, and again to the same place.
LEMMA GoToCoordsIs ==
    ASSUME NEW d \in Docs, NEW pos \in Nat
    PROVE  /\ GoToCoords(d, pos) \in 0 .. pos /\ GoToCoords(d, pos) <= Len(d.text)
           /\ pos < Len(d.text) => GoToCoords(d, pos) = pos
           /\ Len(d.text) > 0 => GoToCoords(d, pos) < Len(d.text)
<1>1. Len(d.text) \in Nat
    BY DocParts
<1> QED BY <1>1 DEF GoToCoords, Greater

LEMMA MessageParts ==
    ASSUME NEW m \in Messages
    PROVE  /\ m.msg \in Commands /\ m.n \in Nat /\ m.s \in Seq(Chars) /\ m.pos \in 0 .. MaxLen
           /\ m.pos \in Nat
           /\ m.n > 0 => m.msg \in Counted
           /\ m.s # <<>> <=> m.msg = "REPLACESEL"
<1>1. /\ m.msg \in Commands /\ m.n \in Nat /\ m.s \in Seq(Chars) /\ m.pos \in 0 .. MaxLen
      /\ m.n > 0 => m.msg \in Counted
      /\ m.s # <<>> <=> m.msg = "REPLACESEL"
    BY DEF Messages
<1>2. MaxLen \in Nat
    BY RecorderAssumption
<1> QED BY <1>1, <1>2

\* Where m leads when it is played.
Target(e, m) == IF m.msg = "GOTOLINE" THEN GoToCoords(e.doc, m.pos) ELSE m.pos

LEMMA CallIs ==
    ASSUME NEW e \in States, NEW m \in Messages
    PROVE  /\ Call(e, m) \in States
           /\ Target(e, m) \in 0 .. m.pos
           /\ Call(e, m) = IF Sent(e, m.msg) THEN Perform(e, m.msg, m.s, Target(e, m)) ELSE e
<1>1. Call(e, m) = IF Sent(e, m.msg) THEN Perform(e, m.msg, m.s, Target(e, m)) ELSE e
    BY DEF Call, Target
<1>2. Target(e, m) \in 0 .. m.pos
    BY StateParts, MessageParts, GoToCoordsIs DEF Target
<1>3. Target(e, m) \in Nat
    BY <1>2, MessageParts
<1>4. Perform(e, m.msg, m.s, Target(e, m)) \in States
    BY <1>3, MessageParts, PerformKeeps
<1> QED BY <1>1, <1>2, <1>4

\* Two messages that only count differently do the same in one call.
SameCall(m, k) == m.msg = k.msg /\ m.s = k.s /\ m.pos = k.pos

LEMMA CallsAreAlike ==
    ASSUME NEW m, NEW k, SameCall(m, k)
    PROVE  \A e : Call(e, m) = Call(e, k)
BY DEF SameCall, Call

LEMMA SendsAre ==
    ASSUME NEW m \in Messages
    PROVE  /\ Times(m) \in Nat /\ Times(m) > 0 /\ DOMAIN Sends(m) = 1 .. Times(m)
           /\ \A i \in 1 .. Times(m) : Sends(m)[i] = m
           /\ m.msg \notin Counted => Times(m) = 1
<1>1. m.n \in Nat /\ (m.n > 0 => m.msg \in Counted)
    BY MessageParts
<1>2. Times(m) \in Nat /\ Times(m) > 0
    BY <1>1 DEF Times
<1>3. m.msg \notin Counted => Times(m) = 1
    BY <1>1 DEF Times
<1> QED BY <1>2, <1>3 DEF Sends

LEMMA CallsIsFold ==
    ASSUME NEW e, NEW m
    PROVE  Calls(e, m) = Calling!Left(0, e, Sends(m))
BY DEF Calls, Calling!Left, Calling!IterLeft, FoldLeft, MapThenFoldSet, CallOp, Calling!Max, Max

LEMMA PlayedIsFold ==
    ASSUME NEW e, NEW l
    PROVE  Played(e, l) = Playing!Left(0, e, l)
BY DEF Played, Playing!Left, Playing!IterLeft, FoldLeft, MapThenFoldSet, CallsOp, Playing!Max, Max

LEMMA CallsKeep ==
    ASSUME NEW e \in States, NEW m \in Messages
    PROVE  Calls(e, m) \in States
<1>1. PICK n \in Nat : n = Times(m) /\ DOMAIN Sends(m) = 1 .. n /\ \A i \in 1 .. n : Sends(m)[i] = m
    BY SendsAre
<1>2. \A i \in 1 .. n, a \in States : CallOp(0, a, Sends(m)[i]) \in States
    BY <1>1, CallIs DEF CallOp
<1> QED BY <1>1, <1>2, Calling!LeftStays, CallsIsFold

LEMMA ListParts ==
    ASSUME NEW l \in Seq(Messages)
    PROVE  /\ Len(l) \in Nat /\ DOMAIN l = 1 .. Len(l) /\ \A i \in 1 .. Len(l) : l[i] \in Messages
           /\ l # <<>> => Len(l) \in 1 .. Len(l) /\ Last(l) = l[Len(l)] /\ Last(l) \in Messages
<1>1. Len(l) \in Nat /\ DOMAIN l = 1 .. Len(l) /\ \A i \in 1 .. Len(l) : l[i] \in Messages
    BY LenProperties, ElementOfSeq
<1>2. l # <<>> => Len(l) # 0
    BY EmptySeq
<1>3. l # <<>> => Len(l) \in 1 .. Len(l)
    BY <1>1, <1>2
<1> QED BY <1>1, <1>3 DEF Last

LEMMA PlayedKeeps ==
    ASSUME NEW e \in States, NEW l \in Seq(Messages)
    PROVE  Played(e, l) \in States
<1>1. PICK n \in Nat : DOMAIN l = 1 .. n /\ \A i \in 1 .. n : l[i] \in Messages
    BY ListParts
<1>2. \A i \in 1 .. n, a \in States : CallsOp(0, a, l[i]) \in States
    BY <1>1, CallsKeep DEF CallsOp
<1> QED BY <1>1, <1>2, Playing!LeftStays, PlayedIsFold

LEMMA PlayedNothing ==
    ASSUME NEW e
    PROVE  Played(e, <<>>) = e
<1>1. DOMAIN <<>> = 1 .. 0 /\ 0 \in Nat
    OBVIOUS
<1>2. PICK h : Playing!PassesLeft(h, 0, e, <<>>, 0)
    BY <1>1, Playing!FoldLeftPasses
<1> QED BY <1>2, PlayedIsFold DEF Playing!PassesLeft

\* k is l with m behind it.
Follows(k, l, m) ==
    /\ k \in Seq(Messages) /\ l \in Seq(Messages) /\ m \in Messages
    /\ Len(k) = Len(l) + 1 /\ k[Len(k)] = m
    /\ \A i \in 1 .. Len(l) : k[i] = l[i]

LEMMA PlayedFollows ==
    ASSUME NEW e, NEW k, NEW l, NEW m, Follows(k, l, m)
    PROVE  Played(e, k) = Calls(Played(e, l), m)
<1>1. PICK n \in Nat : n = Len(l) /\ DOMAIN l = 1 .. n /\ Len(k) = n + 1 /\ DOMAIN k = 1 .. n + 1
    BY ListParts DEF Follows
<1>2. \A i \in 1 .. n : \A a : CallsOp(0, a, k[i]) = CallsOp(0, a, l[i])
    BY <1>1 DEF Follows
<1>3. DOMAIN l = 1 .. n /\ DOMAIN k = 1 .. n + 1
    BY <1>1
<1>4. Playing!Left(0, e, k) = CallsOp(0, Playing!Left(0, e, l), k[n + 1])
    BY <1>2, <1>3, Playing!LeftGrows
<1> QED BY <1>1, <1>4, PlayedIsFold DEF CallsOp, Follows

\* One message, sent once.
LEMMA CalledOnce ==
    ASSUME NEW e, NEW m \in Messages, Times(m) = 1
    PROVE  Calls(e, m) = Call(e, m)
<1>1. DOMAIN Sends(m) = 1 .. 1 /\ Sends(m)[1] = m /\ 1 \in Nat
    <2>1. Sends(m) = [i \in 1 .. 1 |-> m]
        BY DEF Sends
    <2> QED BY <2>1
<1>2. PICK h : Calling!PassesLeft(h, 0, e, Sends(m), 1)
    BY <1>1, Calling!FoldLeftPasses
<1>3. h[0] = e /\ h[1] = Calls(e, m)
    BY <1>2, CallsIsFold DEF Calling!PassesLeft
<1>4. h[1] = CallOp(0, h[0], Sends(m)[1])
    <2>1. 1 \in 1 .. 1 /\ 1 - 1 = 0
        OBVIOUS
    <2> QED BY <2>1, <1>2 DEF Calling!PassesLeft
<1>5. CallOp(0, e, m) = Call(e, m)
    BY DEF CallOp
<1> QED BY <1>1, <1>3, <1>4, <1>5

\* A message that counts one more is sent once more.
LEMMA CalledOnceMore ==
    ASSUME NEW e, NEW m \in Messages, NEW k \in Messages, SameCall(m, k), m.msg # "PASTE",
           k.n = m.n + 1
    PROVE  Calls(e, k) = Call(Calls(e, m), m)
<1>1. PICK n \in Nat : n = Times(m) /\ DOMAIN Sends(m) = 1 .. n /\ \A i \in 1 .. n : Sends(m)[i] = m
    BY SendsAre
<1>2. Times(k) = n + 1
    BY <1>1, MessageParts DEF Times, SameCall
<1>3. DOMAIN Sends(k) = 1 .. n + 1 /\ \A i \in 1 .. n + 1 : Sends(k)[i] = k
    BY <1>2, SendsAre
<1>4. \A a : CallOp(0, a, k) = CallOp(0, a, m)
    BY CallsAreAlike DEF CallOp
<1>5. \A i \in 1 .. n : \A a : CallOp(0, a, Sends(k)[i]) = CallOp(0, a, Sends(m)[i])
    <2>1. \A i \in 1 .. n : i \in 1 .. n + 1
        OBVIOUS
    <2> QED BY <2>1, <1>1, <1>3, <1>4
<1>6. Calling!Left(0, e, Sends(k)) = CallOp(0, Calling!Left(0, e, Sends(m)), Sends(k)[n + 1])
    BY <1>1, <1>3, <1>5, Calling!LeftGrows
<1>7. n + 1 \in 1 .. n + 1
    OBVIOUS
<1>8. Calls(e, k) = CallOp(0, Calls(e, m), k)
    BY <1>3, <1>6, <1>7, CallsIsFold
<1> QED BY <1>4, <1>8 DEF CallOp

\* What was done by a message that has been sent last is done by its last call.
LEMMA CalledLast ==
    ASSUME NEW e \in States, NEW m \in Messages
    PROVE  \E a \in States : Calls(e, m) = Call(a, m)
<1>1. PICK n \in Nat : n > 0 /\ DOMAIN Sends(m) = 1 .. n /\ \A i \in 1 .. n : Sends(m)[i] = m
    BY SendsAre
<1>2. PICK p \in Nat : n = p + 1
    <2>1. n - 1 \in Nat /\ n = (n - 1) + 1
        BY <1>1
    <2> QED BY <2>1
<1> DEFINE q == [i \in 1 .. p |-> m]
<1>3. \A i \in 1 .. p : i \in 1 .. n /\ q[i] = m
    BY <1>2
<1>4. DOMAIN q = 1 .. p
    OBVIOUS
<1> HIDE DEF q
<1>5. Calling!Left(0, e, Sends(m)) = CallOp(0, Calling!Left(0, e, q), Sends(m)[p + 1])
    <2>1. \A i \in 1 .. p : \A a : CallOp(0, a, Sends(m)[i]) = CallOp(0, a, q[i])
        BY <1>1, <1>3
    <2> QED BY <2>1, <1>1, <1>2, <1>4, Calling!LeftGrows
<1>6. Calling!Left(0, e, q) \in States
    <2>1. \A i \in 1 .. p, a \in States : CallOp(0, a, q[i]) \in States
        BY <1>3, CallIs DEF CallOp
    <2> QED BY <2>1, <1>4, Calling!LeftStays
<1>7. Sends(m)[p + 1] = m
    BY <1>1, <1>2
<1>8. Calls(e, m) = Call(Calling!Left(0, e, q), m)
    BY <1>5, <1>7, CallsIsFold DEF CallOp
<1> QED BY <1>6, <1>8

(***************************************************************************)
(* Recording.                                                              *)
(***************************************************************************)

\* A command as it is recorded.
Heard(msg, s, pos) == [msg |-> msg, n |-> 0, s |-> s, pos |-> pos]

\* A command that may be.
Command(msg, s, pos) ==
    /\ msg \in Commands /\ s \in Seq(Chars) /\ pos \in 0 .. MaxLen
    /\ s # <<>> <=> msg = "REPLACESEL"

LEMMA HeardIs ==
    ASSUME NEW msg, NEW s, NEW pos, Command(msg, s, pos)
    PROVE  /\ Heard(msg, s, pos) \in Messages
           /\ Heard(msg, s, pos).msg = msg /\ Heard(msg, s, pos).s = s
           /\ Heard(msg, s, pos).pos = pos /\ Heard(msg, s, pos).n = 0
BY DEF Heard, Command, Messages

LEMMA Appended ==
    ASSUME NEW l \in Seq(Messages), NEW m \in Messages
    PROVE  Follows(Append(l, m), l, m)
<1>1. /\ Append(l, m) \in Seq(Messages) /\ Len(Append(l, m)) = Len(l) + 1
      /\ Append(l, m)[Len(l) + 1] = m /\ \A i \in 1 .. Len(l) : Append(l, m)[i] = l[i]
    BY AppendProperties
<1> QED BY <1>1 DEF Follows

LEMMA LastChanged ==
    ASSUME NEW l \in Seq(Messages), l # <<>>
    PROVE  \E p : /\ Follows(l, p, Last(l))
                  /\ \A m \in Messages : Follows([l EXCEPT ![Len(l)] = m], p, m)
<1>1. PICK n \in Nat : Len(l) = n + 1
    <2>1. Len(l) \in 1 .. Len(l) /\ Len(l) \in Nat
        BY ListParts
    <2>2. Len(l) - 1 \in Nat /\ Len(l) = (Len(l) - 1) + 1
        BY <2>1
    <2> QED BY <2>2
<1>2. /\ \A i \in 1 .. n + 1 : l[i] \in Messages
      /\ Last(l) = l[n + 1] /\ Last(l) \in Messages /\ DOMAIN l = 1 .. n + 1
    BY <1>1, ListParts
<1> DEFINE p == [i \in 1 .. n |-> l[i]]
<1>3. p \in Seq(Messages) /\ Len(p) = n /\ \A i \in 1 .. n : p[i] = l[i]
    <2>1. \A i \in 1 .. n : i \in 1 .. n + 1
        OBVIOUS
    <2>2. p \in [1 .. n -> Messages]
        BY <1>2, <2>1
    <2>3. \A i \in 1 .. n : p[i] = l[i]
        OBVIOUS
    <2> HIDE DEF p
    <2> QED BY <2>2, <2>3, SeqDef, LenProperties
<1> HIDE DEF p
<1>4. Follows(l, p, Last(l))
    BY <1>1, <1>2, <1>3 DEF Follows
<1>5. ASSUME NEW m \in Messages PROVE Follows([l EXCEPT ![Len(l)] = m], p, m)
    <2> DEFINE k == [l EXCEPT ![n + 1] = m]
    <2>1. k \in [1 .. n + 1 -> Messages]
        BY <1>2
    <2>2. k[n + 1] = m /\ \A i \in 1 .. n : k[i] = l[i]
        <3>1. n + 1 \in 1 .. n + 1 /\ \A i \in 1 .. n : i \in 1 .. n + 1 /\ i # n + 1
            OBVIOUS
        <3> QED BY <3>1, <1>2
    <2>3. k = [l EXCEPT ![Len(l)] = m]
        BY <1>1
    <2> HIDE DEF k
    <2>4. k \in Seq(Messages) /\ Len(k) = n + 1
        <3>1. n + 1 \in Nat
            OBVIOUS
        <3> QED BY <2>1, <3>1, SeqDef, LenProperties
    <2>5. Follows(k, p, m)
        BY <1>3, <2>2, <2>4 DEF Follows
    <2> QED BY <2>3, <2>5
<1> QED BY <1>4, <1>5

\* A message is new, or the last one says it already, or is changed to say it too.
Unchanged(l, k, msg, pos) ==
    k = l /\ l # <<>> /\ Last(l).msg = msg
          /\ (msg \in Once \/ (msg \in Absolute /\ Last(l).pos = pos))

Merged(l, k, msg, m) ==
    /\ l # <<>> /\ Last(l).msg = msg /\ m \in Messages
    /\ \E p : Follows(l, p, Last(l)) /\ Follows(k, p, m)

RecordedAs(l, k, msg, s, pos) ==
    \/ Follows(k, l, Heard(msg, s, pos))
    \/ Unchanged(l, k, msg, pos)
    \/ msg \in Counted /\ Merged(l, k, msg, [Last(l) EXCEPT !.n = @ + 1])
    \/ msg = "REPLACESEL" /\ Merged(l, k, msg, [Last(l) EXCEPT !.s = @ \o s])

LEMMA RecordedIs ==
    ASSUME NEW l \in Seq(Messages), NEW msg, NEW s, NEW pos, Command(msg, s, pos)
    PROVE  /\ Recorded(l, msg, s, pos) \in Seq(Messages)
           /\ RecordedAs(l, Recorded(l, msg, s, pos), msg, s, pos)
<1> DEFINE k == Recorded(l, msg, s, pos)
           new == Append(l, Heard(msg, s, pos))
<1>1. Follows(new, l, Heard(msg, s, pos))
    BY HeardIs, Appended
<1>2. new \in Seq(Messages)
    BY <1>1 DEF Follows
<1>3. CASE k = new
    BY <1>1, <1>2, <1>3 DEF RecordedAs
<1>4. CASE l = <<>> \/ Last(l).msg # msg
    <2>1. k = new
        BY <1>4 DEF Recorded, Heard
    <2> QED BY <2>1, <1>3
<1>5. CASE ~(l = <<>> \/ Last(l).msg # msg)
    <2>1. PICK m : m = Last(l)
        OBVIOUS
    <2>2. l # <<>> /\ m.msg = msg /\ m \in Messages /\ m = l[Len(l)] /\ Len(l) \in DOMAIN l
        BY <1>5, <2>1, ListParts
    <2>3. PICK p : Follows(l, p, m) /\ \A x \in Messages : Follows([l EXCEPT ![Len(l)] = x], p, x)
        BY <2>1, <2>2, LastChanged
    <2>4. CASE msg \in Once
        <3>1. k = l
            BY <1>5, <2>4 DEF Recorded, Once, Absolute, Counted
        <3> HIDE DEF k
        <3>2. Unchanged(l, k, msg, pos)
            BY <3>1, <2>1, <2>2, <2>4 DEF Unchanged
        <3> QED BY <3>1, <3>2 DEF RecordedAs, k
    <2>5. CASE msg \in Absolute
        <3>1. k = IF m.pos = pos THEN l ELSE new
            BY <1>5, <2>1, <2>5 DEF Recorded, Once, Absolute, Counted, Heard
        <3>2. CASE m.pos = pos
            BY <3>1, <3>2, <2>1, <2>2, <2>5 DEF RecordedAs, Unchanged
        <3> QED BY <3>1, <3>2, <1>3
    <2>6. CASE msg \in Counted
        <3> DEFINE x == [m EXCEPT !.n = @ + 1]
        <3>1. k = [l EXCEPT ![Len(l)].n = @ + 1]
            BY <1>5, <2>6 DEF Recorded, Once, Absolute, Counted
        <3>2. k = [l EXCEPT ![Len(l)] = x]
            BY <3>1, <2>2
        <3>3. x \in Messages
            <4>1. m.n \in Nat
                BY <2>2, MessageParts
            <4>2. PICK y \in Nat : y = m.n + 1
                BY <4>1
            <4>3. [m EXCEPT !.n = y] \in Messages
                BY <2>2, <2>6 DEF Messages
            <4> QED BY <4>2, <4>3
        <3> HIDE DEF x, k
        <3>4. Follows(k, p, x)
            BY <3>2, <3>3, <2>3
        <3>5. Merged(l, k, msg, x)
            BY <3>3, <3>4, <2>1, <2>2, <2>3 DEF Merged
        <3>6. k \in Seq(Messages)
            BY <3>4 DEF Follows
        <3> QED BY <3>5, <3>6, <2>1, <2>6 DEF RecordedAs, x, k
    <2>7. CASE msg = "REPLACESEL"
        <3> DEFINE x == [m EXCEPT !.s = @ \o s]
        <3>1. k = [l EXCEPT ![Len(l)].s = @ \o s]
            BY <1>5, <2>7 DEF Recorded, Once, Absolute, Counted
        <3>2. k = [l EXCEPT ![Len(l)] = x]
            BY <3>1, <2>2
        <3>3. x \in Messages
            <4>1. m.s \in Seq(Chars) /\ m.s # <<>> /\ s \in Seq(Chars)
                BY <2>2, <2>7, MessageParts DEF Command
            <4>2. PICK y : y = m.s \o s
                OBVIOUS
            <4>3. y \in Seq(Chars) /\ y # <<>>
                <5>1. y \in Seq(Chars) /\ Len(y) = Len(m.s) + Len(s)
                    BY <4>1, <4>2, ConcatProperties
                <5>2. Len(m.s) \in Nat /\ Len(m.s) # 0 /\ Len(s) \in Nat
                    BY <4>1, TextParts, EmptySeq
                <5> QED BY <5>1, <5>2, EmptySeq
            <4>4. [m EXCEPT !.s = y] \in Messages
                BY <4>3, <2>2, <2>7 DEF Messages
            <4> QED BY <4>2, <4>4
        <3> HIDE DEF x, k
        <3>4. Follows(k, p, x)
            BY <3>2, <3>3, <2>3
        <3>5. Merged(l, k, msg, x)
            BY <3>3, <3>4, <2>1, <2>2, <2>3 DEF Merged
        <3>6. k \in Seq(Messages)
            BY <3>4 DEF Follows
        <3> QED BY <3>5, <3>6, <2>1, <2>7 DEF RecordedAs, x, k
    <2> QED BY <2>4, <2>5, <2>6, <2>7 DEF Command, Commands, Once, Absolute, Counted
<1> QED BY <1>4, <1>5

\* What only looks at the document and the clipboard.
LEMMA CountedPerform ==
    ASSUME NEW e, NEW msg \in Counted, NEW s, NEW pos, NEW x, NEW i
    PROVE  Perform(e, msg, s, pos) = Perform(e, msg, x, i)
<1>1. CASE msg = "PASTE"
    BY <1>1 DEF Perform
<1>2. CASE msg = "CHARLEFT"
    BY <1>2 DEF Perform
<1>3. CASE msg = "CHARLEFTEXTEND"
    BY <1>3 DEF Perform
<1>4. CASE msg = "DELETEBACK"
    BY <1>4 DEF Perform
<1> QED BY <1>1, <1>2, <1>3, <1>4 DEF Counted

\* A second cut finds no selection; a second copy, or caret call, changes nothing.
LEMMA AgainNothing ==
    ASSUME NEW a \in States, NEW m \in Messages, NEW k \in Messages, k.msg = m.msg,
           m.msg \in Once \/ (m.msg \in Absolute /\ m.pos = k.pos),
           Sent(Call(a, m), m.msg)
    PROVE  Call(Call(a, m), k) = Call(a, m)
<1>1. PICK e \in States : e = Call(a, m)
    BY CallIs
<1>2. PICK d \in Docs : d = a.doc
    BY StateParts
<1>3. Len(d.text) \in Nat /\ m.s \in Seq(Chars) /\ m.pos \in Nat /\ k.s \in Seq(Chars) /\ k.pos \in Nat
    BY DocParts, MessageParts
<1>4. Target(a, m) \in Nat /\ Target(e, k) \in Nat
    <2>1. Target(a, m) \in 0 .. m.pos /\ Target(e, k) \in 0 .. k.pos
        BY CallIs
    <2> QED BY <2>1, <1>3
<1>5. Call(e, k) = Perform(e, m.msg, k.s, Target(e, k))
    BY <1>1, CallIs
<1>6. CASE m.msg = "CUT"
    <2>1. e.doc.anchor # e.doc.caret
        BY <1>1, <1>6 DEF Sent
    <2>2. e # a => FALSE
        <3> SUFFICES ASSUME e # a PROVE FALSE
            OBVIOUS
        <3>1. e = Perform(a, "CUT", m.s, Target(a, m))
            BY <1>1, <1>6, CallIs
        <3>2. e.doc = ClearSelection(d)
            BY <3>1, <1>2, <1>3, <1>4, Performed
        <3>3. <<>> \in Seq(Chars)
            OBVIOUS
        <3>4. Replaced(e.doc, d, SelStart(d), SelEnd(d), <<>>)
            BY <3>2, <3>3, DocParts, ReplacedIs DEF ClearSelection
        <3> QED BY <3>4, <2>1 DEF Replaced
    <2>3. Sent(a, "CUT")
        BY <2>1, <2>2 DEF Sent
    <2>4. e = Perform(a, "CUT", m.s, Target(a, m))
        BY <1>1, <1>6, <2>3, CallIs
    <2>5. e.doc = ClearSelection(d)
        BY <2>4, <1>2, <1>3, <1>4, Performed
    <2>6. <<>> \in Seq(Chars)
        OBVIOUS
    <2>7. Replaced(e.doc, d, SelStart(d), SelEnd(d), <<>>)
        BY <2>5, <2>6, DocParts, ReplacedIs DEF ClearSelection
    <2> QED BY <2>7, <2>1 DEF Replaced
<1>7. CASE m.msg = "COPY"
    <2>1. Sent(a, "COPY")
        <3>1. CASE e = a
            BY <3>1, <1>1, <1>7
        <3>2. CASE e # a
            BY <3>2, <1>1, <1>7, CallIs
        <3> QED BY <3>1, <3>2
    <2>2. e = Perform(a, "COPY", m.s, Target(a, m))
        BY <1>1, <1>7, <2>1, CallIs
    <2>3. e = [doc |-> d, clip |-> Selected(d)]
        BY <2>2, <1>2, <1>3, <1>4, Performed
    <2>4. Call(e, k) = [doc |-> e.doc, clip |-> Selected(e.doc)]
        BY <1>3, <1>4, <1>5, <1>7, Performed
    <2> QED BY <2>3, <2>4, <1>1
<1>8. CASE m.msg = "HOME"
    <2>1. Sent(a, "HOME")
        BY DEF Sent
    <2>2. e = Perform(a, "HOME", m.s, Target(a, m))
        BY <1>1, <1>8, <2>1, CallIs
    <2>3. e = [doc |-> At(d, 0), clip |-> a.clip]
        BY <2>2, <1>2, <1>3, <1>4, Performed
    <2>4. Call(e, k) = [doc |-> At(e.doc, 0), clip |-> e.clip]
        BY <1>3, <1>4, <1>5, <1>8, Performed
    <2>5. 0 \in Nat /\ 0 <= Len(d.text)
        BY <1>3
    <2>6. At(At(d, 0), 0) = At(d, 0)
        BY <2>5, AtIs
    <2> QED BY <2>3, <2>4, <2>6, <1>1
<1>9. CASE m.msg \in Absolute /\ m.pos = k.pos
    <2>1. Sent(a, m.msg)
        BY <1>9 DEF Sent, Absolute
    <2>2. e = Perform(a, m.msg, m.s, Target(a, m))
        BY <1>1, <2>1, CallIs
    <2>3. PICK x \in Nat : x = Lesser(Target(a, m), Len(d.text)) /\ x <= Len(d.text)
        BY <1>3, <1>4 DEF Lesser
    <2>4. e = [doc |-> At(d, x), clip |-> a.clip]
        BY <2>2, <2>3, <1>2, <1>3, <1>4, <1>9, Performed
    <2>5. e.doc = At(d, x) /\ e.doc.text = d.text
        BY <2>3, <2>4, AtIs
    <2>6. Target(e, k) = Target(a, m)
        BY <2>5, <1>2, <1>9 DEF Target, GoToCoords
    <2>7. Call(e, k) = [doc |-> At(e.doc, Lesser(Target(e, k), Len(e.doc.text))), clip |-> e.clip]
        BY <1>3, <1>4, <1>5, <1>9, Performed
    <2>8. Call(e, k) = [doc |-> At(At(d, x), x), clip |-> a.clip]
        BY <2>3, <2>4, <2>5, <2>6, <2>7
    <2>9. At(At(d, x), x) = At(d, x)
        BY <2>3, AtIs
    <2> QED BY <2>4, <2>8, <2>9, <1>1
<1> QED BY <1>6, <1>7, <1>8, <1>9 DEF Once

\* Playing what has been recorded does the new command after what it did before.
LEMMA PlayedRecorded ==
    ASSUME NEW b \in States, NEW l \in Seq(Messages),
           NEW msg, NEW s, NEW pos, Command(msg, s, pos),
           Sent(Played(b, l), msg), ~(msg = "PASTE" /\ l # <<>> /\ Last(l).msg = "PASTE")
    PROVE  Played(b, Recorded(l, msg, s, pos)) = Call(Played(b, l), Heard(msg, s, pos))
<1>1. PICK e \in States : e = Played(b, l)
    BY PlayedKeeps
<1>2. PICK k \in Seq(Messages) : k = Recorded(l, msg, s, pos) /\ RecordedAs(l, k, msg, s, pos)
    BY RecordedIs
<1>3. PICK h \in Messages : h = Heard(msg, s, pos) /\ h.msg = msg /\ h.s = s /\ h.pos = pos /\ h.n = 0
    BY HeardIs
<1>4. SUFFICES Played(b, k) = Call(e, h)
    BY <1>1, <1>2, <1>3
<1>5. CASE Follows(k, l, h)
    <2>1. Played(b, k) = Calls(e, h)
        BY <1>1, <1>5, PlayedFollows
    <2>2. Times(h) = 1
        BY <1>3 DEF Times
    <2> QED BY <2>1, <2>2, CalledOnce
<1>6. CASE Unchanged(l, k, msg, pos)
    <2>1. PICK m \in Messages : m = Last(l) /\ m.msg = msg /\ k = l /\ l # <<>>
                                /\ (msg \in Once \/ (msg \in Absolute /\ m.pos = pos))
        BY <1>6, ListParts DEF Unchanged
    <2>2. PICK p \in Seq(Messages) : Follows(l, p, m)
        BY <2>1, LastChanged DEF Follows
    <2>3. e = Calls(Played(b, p), m) /\ Played(b, p) \in States
        BY <1>1, <2>2, PlayedFollows, PlayedKeeps
    <2>4. PICK a \in States : e = Call(a, m)
        BY <2>3, CalledLast
    <2>5. Call(e, h) = e
        BY <1>1, <1>3, <2>1, <2>4, AgainNothing
    <2> QED BY <1>1, <2>1, <2>5
<1>7. CASE msg \in Counted /\ Merged(l, k, msg, [Last(l) EXCEPT !.n = @ + 1])
    <2>1. PICK m \in Messages : m = Last(l) /\ m.msg = msg /\ l # <<>>
        BY <1>7, ListParts DEF Merged
    <2>2. PICK x \in Messages : x = [m EXCEPT !.n = @ + 1]
        BY <1>7, <2>1 DEF Merged
    <2>3. x.n = m.n + 1 /\ SameCall(m, x)
        BY <2>2 DEF Messages, SameCall
    <2>4. PICK p : Follows(l, p, m) /\ Follows(k, p, x)
        BY <1>7, <2>1, <2>2 DEF Merged
    <2>5. e = Calls(Played(b, p), m) /\ Played(b, k) = Calls(Played(b, p), x)
        BY <1>1, <2>4, PlayedFollows
    <2>6. Played(b, k) = Call(e, m)
        BY <2>1, <2>3, <2>5, CalledOnceMore
    <2>7. Call(e, m) = Call(e, h)
        <3>1. Call(e, m) = Perform(e, msg, m.s, Target(e, m))
            BY <1>1, <2>1, CallIs
        <3>2. Call(e, h) = Perform(e, msg, s, Target(e, h))
            <4>1. Call(e, h) = IF Sent(e, h.msg) THEN Perform(e, h.msg, h.s, Target(e, h)) ELSE e
                BY CallIs
            <4>2. Sent(e, msg)
                BY <1>1
            <4> QED BY <4>1, <4>2, <1>3
        <3> QED BY <3>1, <3>2, <1>7, CountedPerform
    <2> QED BY <2>6, <2>7
<1>8. CASE msg = "REPLACESEL" /\ Merged(l, k, msg, [Last(l) EXCEPT !.s = @ \o s])
    <2>1. PICK m \in Messages : m = Last(l) /\ m.msg = msg /\ l # <<>>
        BY <1>8, ListParts DEF Merged
    <2>2. PICK x \in Messages : x = [m EXCEPT !.s = @ \o s]
        BY <1>8, <2>1 DEF Merged
    <2>3. x.msg = msg /\ x.s = m.s \o s /\ m.s \in Seq(Chars) /\ s \in Seq(Chars) /\ x.s \in Seq(Chars)
        BY <2>1, <2>2, MessageParts DEF Messages, Command
    <2>4. PICK p \in Seq(Messages) : Follows(l, p, m) /\ Follows(k, p, x)
        BY <1>8, <2>1, <2>2 DEF Merged, Follows
    <2>5. PICK a \in States : a = Played(b, p)
        BY PlayedKeeps
    <2>6. e = Calls(a, m) /\ Played(b, k) = Calls(a, x)
        BY <1>1, <2>4, <2>5, PlayedFollows
    <2>7. Times(m) = 1 /\ Times(x) = 1
        <3>1. msg \notin Counted
            BY <1>8 DEF Counted
        <3> QED BY <3>1, <2>1, <2>3, SendsAre
    <2>8. e = Call(a, m) /\ Played(b, k) = Call(a, x)
        BY <2>6, <2>7, CalledOnce
    <2>9. /\ \A y \in Messages, c \in States : y.msg = msg =>
                Call(c, y) = [doc |-> Replace(c.doc, SelStart(c.doc), SelEnd(c.doc), y.s), clip |-> c.clip]
        <3> SUFFICES ASSUME NEW y \in Messages, NEW c \in States, y.msg = msg
                     PROVE  Call(c, y) = [doc |-> Replace(c.doc, SelStart(c.doc), SelEnd(c.doc), y.s),
                                          clip |-> c.clip]
            OBVIOUS
        <3>1. Sent(c, msg)
            BY <1>8 DEF Sent
        <3>2. Target(c, y) \in Nat /\ y.s \in Seq(Chars)
            <4>1. Target(c, y) \in 0 .. y.pos /\ y.pos \in Nat
                BY CallIs, MessageParts
            <4> QED BY <4>1, MessageParts
        <3>3. Call(c, y) = Perform(c, "REPLACESEL", y.s, Target(c, y))
            <4>1. Call(c, y) = IF Sent(c, y.msg) THEN Perform(c, y.msg, y.s, Target(c, y)) ELSE c
                BY CallIs
            <4> QED BY <4>1, <3>1, <1>8
        <3> QED BY <3>2, <3>3, Performed
    <2>10. PICK d \in Docs : d = a.doc
        BY StateParts
    <2>11. PICK i \in Nat : i = SelStart(d)
        BY DocParts
    <2>12. PICK j \in Nat : j = SelEnd(d) /\ i <= j /\ j <= Len(d.text)
        BY <2>11, DocParts
    <2>13. e = [doc |-> Replace(d, i, j, m.s), clip |-> a.clip]
        BY <2>1, <2>8, <2>9, <2>10, <2>11, <2>12
    <2>14. Played(b, k) = [doc |-> Replace(d, i, j, m.s \o s), clip |-> a.clip]
        BY <2>3, <2>8, <2>9, <2>10, <2>11, <2>12
    <2>15. SelStart(e.doc) = i + Len(m.s) /\ SelEnd(e.doc) = i + Len(m.s)
        <3>1. Replaced(e.doc, d, i, j, m.s)
            BY <2>3, <2>12, <2>13, ReplacedIs
        <3> QED BY <3>1 DEF Replaced, SelStart, SelEnd, Lesser, Greater
    <2>16. Call(e, h) = [doc |-> Replace(e.doc, i + Len(m.s), i + Len(m.s), s), clip |-> e.clip]
        BY <1>3, <2>9, <2>15
    <2>17. Replace(Replace(d, i, j, m.s), i + Len(m.s), i + Len(m.s), s) = Replace(d, i, j, m.s \o s)
        <3>1. PICK t \in Seq(Chars) : t = m.s
            BY <2>3
        <3>2. s \in Seq(Chars)
            BY <2>3
        <3>3. Replace(Replace(d, i, j, t), i + Len(t), i + Len(t), s) = Replace(d, i, j, t \o s)
            BY <3>2, <2>12, ReplacedTwice
        <3> QED BY <3>1, <3>3
    <2> QED BY <2>13, <2>14, <2>16, <2>17
<1> QED BY <1>2, <1>3, <1>5, <1>6, <1>7, <1>8 DEF RecordedAs

(***************************************************************************)
(* The invariant: what playing gives is what is shown.                     *)
(***************************************************************************)

DataTyped ==
    /\ docs \in [Tab -> Docs] /\ \A t \in Tab : Len(docs[t].text) <= MaxLen
    /\ clip \in Seq(Chars) /\ Len(clip) <= MaxLen
    /\ list \in Seq(Messages)
    /\ begun \in States
    /\ hasRecorder \in BOOLEAN

\* CharAdded remembers the recording that goes on, unless that was disturbed.
IndentIsOurs ==
    recording # None /\ ~disturbed /\ indenting # None => indenting.recording = recording

\* What playing gives; the brace that is indented is not in the list yet.
Reached ==
    IF indenting # None /\ indenting.doc = recording
    THEN Perform(Played(begun, list), "REPLACESEL", Brace, 0) ELSE Played(begun, list)

Replays ==
    recording # None /\ ~disturbed /\ ~pasted =>
        Reached = [doc |-> docs[recording], clip |-> clip]

ReplayInv ==
    /\ RecInv
    /\ DataTyped
    /\ IndentIsOurs
    /\ Replays

LEMMA Tabs ==
    ASSUME RecInv
    PROVE  /\ active \in Tab /\ recording \in Tab \cup {None} /\ book \in Seq(Tab)
           /\ recording # None => recording \in Tab /\ recording \in ToSet(book)
           /\ flag \in [Tab -> BOOLEAN]
BY OpenTabs DEF RecInv, TabsAreOpen, FlagsTyped, Recordings

LEMMA NowIs ==
    ASSUME RecInv, DataTyped
    PROVE  Now \in States /\ Now.doc = docs[active] /\ Now.clip = clip
BY Tabs DEF DataTyped, States, Now

\* What does not concern the recording.
LEMMA ElsewhereKeeps ==
    ASSUME Replays,
           recording' # None /\ ~disturbed' /\ ~pasted' =>
               /\ recording' = recording /\ ~disturbed /\ ~pasted
               /\ Reached' = Reached
               /\ docs'[recording] = docs[recording] /\ clip' = clip
    PROVE  Replays'
BY DEF Replays

LEMMA PerformClip ==
    ASSUME NEW e \in States, NEW msg \in Commands, NEW s, NEW pos
    PROVE  Perform(e, msg, s, pos).clip \in {e.clip, Selected(e.doc)}
<1>1. CASE msg = "COPY"
    BY <1>1, StateParts DEF Perform
<1>2. CASE msg = "CUT"
    BY <1>2 DEF Perform
<1>3. CASE msg = "PASTE"
    BY <1>3, StateParts DEF Perform
<1>4. CASE msg = "REPLACESEL"
    BY <1>4, StateParts DEF Perform
<1>5. CASE msg = "HOME"
    BY <1>5, StateParts DEF Perform
<1>6. CASE msg = "CHARLEFT"
    BY <1>6, StateParts DEF Perform
<1>7. CASE msg = "CHARLEFTEXTEND"
    BY <1>7, StateParts DEF Perform
<1>8. CASE msg = "DELETEBACK"
    BY <1>8, StateParts DEF Perform
<1>9. CASE msg \in {"GOTOPOS", "GOTOLINE"}
    BY <1>9, StateParts DEF Perform
<1> QED BY <1>1, <1>2, <1>3, <1>4, <1>5, <1>6, <1>7, <1>8, <1>9 DEF Commands

\* A command in the active document leaves its text and the clipboard short.
LEMMA PerformedNow ==
    ASSUME RecInv, DataTyped, NEW msg, NEW s, NEW pos, Command(msg, s, pos)
    PROVE  LET e == Perform(Now, msg, s, pos)
           IN  /\ e \in States /\ e = [doc |-> e.doc, clip |-> e.clip]
               /\ e.clip \in Seq(Chars) /\ Len(e.clip) <= MaxLen
               /\ e.doc \in Docs
<1>1. Now \in States /\ Now.doc = docs[active] /\ Now.clip = clip
    BY NowIs
<1>2. msg \in Commands /\ s \in Seq(Chars) /\ pos \in Nat
    BY RecorderAssumption DEF Command
<1>3. PICK e \in States : e = Perform(Now, msg, s, pos)
    BY <1>1, <1>2, PerformKeeps
<1>4. e.clip \in {clip, Selected(docs[active])}
    BY <1>1, <1>2, <1>3, PerformClip
<1>5. docs[active] \in Docs /\ Len(docs[active].text) <= MaxLen /\ Len(clip) <= MaxLen
    BY Tabs DEF DataTyped
<1>6. Len(Selected(docs[active])) <= MaxLen
    <2>1. /\ Len(Selected(docs[active])) \in Nat /\ Len(docs[active].text) \in Nat
          /\ Len(Selected(docs[active])) <= Len(docs[active].text)
        BY <1>5, SelectedIs, DocParts
    <2> QED BY <2>1, <1>5, RecorderAssumption
<1>7. Len(e.clip) <= MaxLen
    BY <1>4, <1>5, <1>6
<1> QED BY <1>3, <1>7, StateParts

(***************************************************************************)
(* Commands.                                                               *)
(***************************************************************************)

LEMMA SendReplays ==
    ASSUME ReplayInv, NEW msg, NEW s, NEW pos, Command(msg, s, pos), msg # "GOTOLINE",
           Send(msg, s, pos)
    PROVE  DataTyped' /\ IndentIsOurs' /\ Replays'
<1>1. RecInv /\ DataTyped /\ IndentIsOurs /\ Replays
    BY DEF ReplayInv
<1>2. PICK e \in States :
          /\ e = Perform(Now, msg, s, pos) /\ e = [doc |-> e.doc, clip |-> e.clip]
          /\ e.clip \in Seq(Chars) /\ Len(e.clip) <= MaxLen /\ e.doc \in Docs
    BY <1>1, PerformedNow
<1>3. /\ Sent(Now, msg) /\ Len(e.doc.text) <= MaxLen
      /\ docs' = [docs EXCEPT ![active] = e.doc] /\ clip' = e.clip
      /\ list' = IF flag[active] THEN Recorded(list, msg, s, pos) ELSE list
      /\ Noted(msg) /\ UNCHANGED <<recording, hasRecorder, flag, indenting>>
    BY <1>2 DEF Send, Listened
<1>4. /\ disturbed' = \/ disturbed
                      \/ /\ recording # None
                         /\ \/ indenting # None
                            \/ active # recording /\ (flag[active] \/ clip' # clip)
      /\ pasted' = \/ pasted
                   \/ /\ recording # None /\ flag[active] /\ msg = "PASTE"
                      /\ list # <<>> /\ Last(list).msg = "PASTE"
      /\ begun' = begun
    BY <1>3 DEF Noted
<1>5. active \in Tab /\ docs \in [Tab -> Docs]
    BY <1>1, Tabs DEF DataTyped
<1>6. list' \in Seq(Messages)
    <2>1. list \in Seq(Messages)
        BY <1>1 DEF DataTyped
    <2>2. Recorded(list, msg, s, pos) \in Seq(Messages)
        BY <2>1, RecordedIs
    <2> QED BY <2>1, <2>2, <1>3
<1>7. DataTyped'
    BY <1>1, <1>2, <1>3, <1>4, <1>5, <1>6 DEF DataTyped
<1>8. IndentIsOurs'
    BY <1>1, <1>3, <1>4 DEF IndentIsOurs
<1>9. Replays'
    <2> SUFFICES ASSUME recording # None, ~disturbed', ~pasted' PROVE Replays'
        BY <1>3 DEF Replays
    <2>1. ~disturbed /\ ~pasted /\ indenting = None
        BY <1>4
    <2>2. Reached = Played(begun, list) /\ Reached' = Played(begun, list')
        BY <2>1, <1>3, <1>4 DEF Reached
    <2>3. CASE active = recording
        <3>1. flag[active]
            BY <2>1, <2>3, <1>1 DEF RecInv, RecordedSends
        <3>2. Played(begun, list) = Now
            BY <2>1, <2>2, <2>3, <1>1 DEF Replays, Now
        <3>3. ~(msg = "PASTE" /\ list # <<>> /\ Last(list).msg = "PASTE")
            BY <3>1, <1>4
        <3>4. Played(begun, list') = Call(Now, Heard(msg, s, pos))
            <4>1. begun \in States /\ list \in Seq(Messages)
                BY <1>1 DEF DataTyped
            <4> QED BY <4>1, <3>1, <3>2, <3>3, <1>3, PlayedRecorded
        <3>5. Call(Now, Heard(msg, s, pos)) = e
            BY <1>2, <1>3, HeardIs DEF Call
        <3>6. docs'[recording] = e.doc
            BY <2>3, <1>3, <1>5
        <3> QED BY <2>2, <3>4, <3>5, <3>6, <1>2, <1>3 DEF Replays
    <2>4. CASE active # recording
        <3>1. ~flag[active] /\ clip' = clip
            BY <2>4, <1>4
        <3>2. docs'[recording] = docs[recording]
            BY <2>4, <1>1, <1>3, <1>5, Tabs
        <3> QED BY <2>1, <2>2, <3>1, <3>2, <1>1, <1>3, ElsewhereKeeps
    <2> QED BY <2>3, <2>4
<1> QED BY <1>7, <1>8, <1>9

LEMMA GotoReplays ==
    ASSUME ReplayInv, NEW col \in 0 .. MaxLen, Goto(col)
    PROVE  DataTyped' /\ IndentIsOurs' /\ Replays'
<1>1. RecInv /\ DataTyped /\ IndentIsOurs /\ Replays
    BY DEF ReplayInv
<1>2. PICK d \in Docs : d = docs[active] /\ Len(d.text) <= MaxLen
    BY <1>1, Tabs DEF DataTyped
<1>3. PICK pos : pos = GoToCoords(d, col)
    OBVIOUS
<1>4. PICK heard : heard = IF flag[active] THEN Recorded(list, "GOTOPOS", <<>>, pos) ELSE list
    OBVIOUS
<1>5. /\ d.text # <<>> /\ docs' = [docs EXCEPT ![active] = At(d, pos)]
      /\ list' = IF recording = active THEN Recorded(heard, "GOTOLINE", <<>>, pos) ELSE heard
      /\ Noted("GOTOLINE") /\ UNCHANGED <<clip, recording, hasRecorder, flag, indenting>>
    <2>1. heard = Listened("GOTOPOS", <<>>, pos)
        BY <1>4 DEF Listened
    <2> QED BY <2>1, <1>2, <1>3 DEF Goto
<1>6. /\ ~disturbed' => /\ ~disturbed
                        /\ recording # None => indenting = None /\ (active = recording \/ ~flag[active])
      /\ ~pasted' => ~pasted
      /\ begun' = begun
    <2>1. /\ disturbed' = \/ disturbed
                          \/ /\ recording # None
                             /\ \/ indenting # None
                                \/ active # recording /\ (flag[active] \/ clip' # clip)
          /\ begun' = begun
        BY <1>5 DEF Noted
    <2>2. ~pasted' => ~pasted
        BY <1>5 DEF Noted
    <2> QED BY <2>1, <2>2
<1>7. active \in Tab /\ docs \in [Tab -> Docs] /\ clip \in Seq(Chars)
    BY <1>1, Tabs DEF DataTyped
<1>8. pos \in Nat /\ pos \in 0 .. MaxLen /\ pos < Len(d.text) /\ Len(d.text) \in Nat
    <2>1. Len(d.text) \in Nat /\ Len(d.text) > 0
        <3>1. Len(d.text) \in Nat /\ d.text \in Seq(Chars)
            BY DocParts
        <3> QED BY <3>1, <1>5, EmptySeq
    <2>2. col \in Nat /\ MaxLen \in Nat /\ col <= MaxLen
        BY RecorderAssumption
    <2>3. pos \in 0 .. col /\ pos < Len(d.text)
        BY <2>1, <2>2, <1>3, GoToCoordsIs
    <2> QED BY <2>1, <2>2, <2>3
<1>9. Command("GOTOPOS", <<>>, pos) /\ Command("GOTOLINE", <<>>, pos)
    BY <1>8 DEF Command, Commands
<1>10. list \in Seq(Messages) /\ heard \in Seq(Messages) /\ list' \in Seq(Messages)
    <2>1. list \in Seq(Messages)
        BY <1>1 DEF DataTyped
    <2>2. heard \in Seq(Messages)
        BY <2>1, <1>4, <1>9, RecordedIs
    <2>3. Recorded(heard, "GOTOLINE", <<>>, pos) \in Seq(Messages)
        BY <2>2, <1>9, RecordedIs
    <2> QED BY <2>1, <2>2, <2>3, <1>5
<1>11. /\ At(d, pos) \in Docs /\ At(d, pos).text = d.text /\ At(At(d, pos), pos) = At(d, pos)
    BY <1>8, AtIs
<1>12. DataTyped'
    BY <1>1, <1>2, <1>5, <1>6, <1>7, <1>10, <1>11 DEF DataTyped
<1>13. IndentIsOurs'
    BY <1>1, <1>5, <1>6 DEF IndentIsOurs
<1>14. Replays'
    <2> SUFFICES ASSUME recording # None, ~disturbed', ~pasted' PROVE Replays'
        BY <1>5 DEF Replays
    <2>1. ~disturbed /\ ~pasted /\ indenting = None
        BY <1>6
    <2>2. Reached = Played(begun, list) /\ Reached' = Played(begun, list')
        BY <2>1, <1>5, <1>6 DEF Reached
    <2>3. CASE active = recording
        <3> DEFINE there == [doc |-> At(d, pos), clip |-> clip]
        <3>1. flag[active]
            BY <2>1, <2>3, <1>1 DEF RecInv, RecordedSends
        <3>2. Played(begun, list) = Now /\ Now \in States /\ Now.doc = d /\ Now.clip = clip
            <4>1. Played(begun, list) = Now
                BY <2>1, <2>2, <2>3, <1>1 DEF Replays, Now
            <4> QED BY <4>1, <1>1, <1>2, NowIs
        <3>3. \A msg \in Absolute, e \in States : e.doc.text = d.text =>
                  Perform(e, msg, <<>>, pos) = [doc |-> At(e.doc, pos), clip |-> e.clip]
            <4> SUFFICES ASSUME NEW msg \in Absolute, NEW e \in States, e.doc.text = d.text
                         PROVE  Perform(e, msg, <<>>, pos) = [doc |-> At(e.doc, pos), clip |-> e.clip]
                OBVIOUS
            <4>1. Lesser(pos, Len(e.doc.text)) = pos
                BY <1>8 DEF Lesser
            <4>2. <<>> \in Seq(Chars)
                OBVIOUS
            <4>3. Perform(e, msg, <<>>, pos) =
                      [doc |-> At(e.doc, Lesser(pos, Len(e.doc.text))), clip |-> e.clip]
                BY <4>2, <1>8, Performed
            <4> QED BY <4>1, <4>3
        <3>4. there \in States /\ there.doc = At(d, pos) /\ there.clip = clip
            BY <1>7, <1>11 DEF States
        <3> HIDE DEF there
        <3>5. begun \in States
            BY <1>1 DEF DataTyped
        <3>6. Played(begun, heard) = there
            <4>1. Sent(Now, "GOTOPOS")
                BY DEF Sent
            <4>2. Played(begun, heard) = Call(Now, Heard("GOTOPOS", <<>>, pos))
                BY <4>1, <3>1, <3>2, <3>5, <1>4, <1>9, <1>10, PlayedRecorded
            <4>3. Call(Now, Heard("GOTOPOS", <<>>, pos)) = Perform(Now, "GOTOPOS", <<>>, pos)
                BY <4>1, <1>9, HeardIs DEF Call
            <4>4. Perform(Now, "GOTOPOS", <<>>, pos) = there
                BY <3>2, <3>3 DEF Absolute, there
            <4> QED BY <4>2, <4>3, <4>4
        <3>7. Played(begun, list') = there
            <4>1. Sent(there, "GOTOLINE")
                BY DEF Sent
            <4>2. list' = Recorded(heard, "GOTOLINE", <<>>, pos)
                BY <2>3, <1>5
            <4>3. Played(begun, list') = Call(there, Heard("GOTOLINE", <<>>, pos))
                BY <4>1, <4>2, <3>5, <3>6, <1>9, <1>10, PlayedRecorded
            <4>4. GoToCoords(there.doc, pos) = pos
                BY <3>4, <1>8, <1>11, GoToCoordsIs
            <4>5. Call(there, Heard("GOTOLINE", <<>>, pos)) = Perform(there, "GOTOLINE", <<>>, pos)
                BY <4>1, <4>4, <1>9, HeardIs DEF Call
            <4>6. Perform(there, "GOTOLINE", <<>>, pos) = [doc |-> At(there.doc, pos), clip |-> there.clip]
                BY <3>3, <3>4, <1>11 DEF Absolute
            <4>7. [doc |-> At(there.doc, pos), clip |-> there.clip] = there
                BY <3>4, <1>11 DEF there
            <4> QED BY <4>3, <4>5, <4>6, <4>7
        <3>8. docs'[recording] = At(d, pos) /\ clip' = clip
            BY <2>3, <1>5, <1>7
        <3> QED BY <2>2, <3>7, <3>8, <1>5 DEF Replays, there
    <2>4. CASE active # recording
        <3>1. list' = list
            BY <2>4, <1>4, <1>5, <1>6
        <3>2. docs'[recording] = docs[recording]
            BY <2>4, <1>1, <1>5, <1>7, Tabs
        <3> QED BY <2>1, <2>2, <3>1, <3>2, <1>1, <1>5, ElsewhereKeeps
    <2> QED BY <2>3, <2>4
<1> QED BY <1>12, <1>13, <1>14

(***************************************************************************)
(* The other steps.                                                        *)
(***************************************************************************)

ReplayParts == DataTyped /\ IndentIsOurs /\ Replays

\* Nothing that is recorded, and nothing of the recorded document, changes.
LEMMA AsideKeeps ==
    ASSUME ReplayInv, DataTyped', UNCHANGED <<list, begun, indenting, clip>>,
           recording' # None => recording' = recording,
           recording' # None /\ ~disturbed' => ~disturbed /\ docs'[recording] = docs[recording],
           recording' # None /\ ~pasted' => ~pasted
    PROVE  ReplayParts'
<1>1. IndentIsOurs'
    BY DEF ReplayInv, IndentIsOurs
<1>2. recording' = recording => Reached' = Reached
    BY DEF Reached
<1>3. Replays'
    BY <1>2, ElsewhereKeeps DEF ReplayInv
<1> QED BY <1>1, <1>3 DEF ReplayParts

LEMMA ClickReplays ==
    ASSUME ReplayInv, NEW caret \in 0 .. MaxLen, Click(0, caret)
    PROVE  ReplayParts'
<1>1. PICK d \in Docs : d = docs[active] /\ active \in Tab
    BY Tabs DEF ReplayInv, DataTyped
<1>2. /\ caret <= Len(d.text)
      /\ docs' = [docs EXCEPT ![active].anchor = 0, ![active].caret = caret]
      /\ disturbed' = (disturbed \/ active = recording)
      /\ UNCHANGED <<clip, recording, hasRecorder, list, indenting, begun, pasted>>
    BY <1>1 DEF Click
<1>3. PICK c : c = [d EXCEPT !.anchor = 0, !.caret = caret]
    OBVIOUS
<1>4. c \in Docs /\ c.text = d.text
    <2>1. d \in [named : BOOLEAN, dirty : BOOLEAN, text : Seq(Chars), anchor : Nat, caret : Nat]
        BY DEF Docs
    <2>2. caret \in Nat /\ Len(d.text) \in Nat
        BY DocParts
    <2>3. /\ c \in [named : BOOLEAN, dirty : BOOLEAN, text : Seq(Chars), anchor : Nat, caret : Nat]
          /\ c.text = d.text /\ c.anchor = 0 /\ c.caret = caret
        BY <2>1, <2>2, <1>3
    <2> QED BY <2>2, <2>3, <1>2 DEF Docs
<1>5. docs \in [Tab -> Docs]
    BY DEF ReplayInv, DataTyped
<1>6. docs' = [docs EXCEPT ![active] = c]
    BY <1>1, <1>2, <1>3, <1>5
<1>7. DataTyped'
    BY <1>1, <1>2, <1>4, <1>6 DEF ReplayInv, DataTyped
<1>8. active # recording /\ recording # None => docs'[recording] = docs[recording]
    BY <1>5, <1>6, Tabs DEF ReplayInv
<1>9. ~disturbed' => ~disturbed /\ active # recording
    BY <1>2
<1> QED BY <1>2, <1>7, <1>8, <1>9, AsideKeeps

LEMMA SwitchReplays ==
    ASSUME ReplayInv, NEW t, Switch(t)
    PROVE  ReplayParts'
<1>1. UNCHANGED <<docs, clip, recording, hasRecorder, list, indenting, begun, disturbed, pasted>>
    BY DEF Switch, history
<1>2. DataTyped'
    BY <1>1 DEF ReplayInv, DataTyped
<1> QED BY <1>1, <1>2, AsideKeeps

BraceTyped == Command("REPLACESEL", Brace, 0)

LEMMA BraceIsTyped == BraceTyped
<1>1. Brace \in Seq(Chars) /\ Brace # <<>>
    BY DEF Brace, Chars
<1> QED BY <1>1, RecorderAssumption DEF BraceTyped, Command, Commands

LEMMA IndentBeginReplays ==
    ASSUME ReplayInv, IndentBegin
    PROVE  ReplayParts'
<1>1. RecInv /\ DataTyped /\ IndentIsOurs /\ Replays
    BY DEF ReplayInv
<1>2. PICK e \in States :
          /\ e = Perform(Now, "REPLACESEL", Brace, 0) /\ e = [doc |-> e.doc, clip |-> e.clip]
          /\ e.doc \in Docs
    BY <1>1, BraceIsTyped, PerformedNow DEF BraceTyped
<1>3. /\ indenting = None /\ Len(e.doc.text) <= MaxLen
      /\ docs' = [docs EXCEPT ![active] = e.doc]
      /\ indenting' = [doc |-> active, recording |-> recording]
      /\ UNCHANGED <<clip, recording, hasRecorder, list, begun, disturbed, pasted>>
    BY <1>2 DEF IndentBegin, history
<1>4. active \in Tab /\ docs \in [Tab -> Docs] /\ recording \in Tab \cup {None}
    BY <1>1, Tabs DEF DataTyped
<1>5. indenting' # None
    BY <1>3, <1>4, RecorderAssumption
<1>6. DataTyped'
    BY <1>1, <1>2, <1>3, <1>4 DEF DataTyped
<1>7. IndentIsOurs'
    BY <1>3 DEF IndentIsOurs
<1>8. e.clip = clip
    <2>1. Now \in States /\ Now.clip = clip /\ Brace \in Seq(Chars) /\ 0 \in Nat
        BY <1>1, NowIs, BraceIsTyped DEF BraceTyped, Command
    <2> QED BY <2>1, <1>2, Performed
<1>9. Replays'
    <2> SUFFICES ASSUME recording # None, ~disturbed, ~pasted PROVE Replays'
        BY <1>3 DEF Replays
    <2>1. Played(begun, list) = [doc |-> docs[recording], clip |-> clip]
        BY <1>1, <1>3 DEF Replays, Reached
    <2>2. CASE active = recording
        <3>1. Reached' = Perform(Played(begun, list), "REPLACESEL", Brace, 0)
            BY <2>2, <1>3, <1>5 DEF Reached
        <3>2. Played(begun, list) = Now
            BY <2>1, <2>2 DEF Now
        <3>3. docs'[recording] = e.doc
            BY <2>2, <1>3, <1>4
        <3> QED BY <3>1, <3>2, <3>3, <1>2, <1>3, <1>8 DEF Replays
    <2>3. CASE active # recording
        <3>1. Reached' = Played(begun, list)
            BY <2>3, <1>3 DEF Reached
        <3>2. docs'[recording] = docs[recording]
            BY <2>3, <1>3, <1>4
        <3> QED BY <2>1, <3>1, <3>2, <1>3 DEF Replays
    <2> QED BY <2>2, <2>3
<1> QED BY <1>6, <1>7, <1>9 DEF ReplayParts

LEMMA IndentEndReplays ==
    ASSUME ReplayInv, IndentEnd
    PROVE  ReplayParts'
<1>1. RecInv /\ DataTyped /\ IndentIsOurs /\ Replays
    BY DEF ReplayInv
<1>2. PICK i : i = indenting
    OBVIOUS
<1>3. /\ i # None
      /\ flag' = [t \in Tab |-> flag[t] \/ t = i.recording]
      /\ list' = IF flag'[i.doc] THEN Recorded(list, "REPLACESEL", Brace, 0) ELSE list
      /\ indenting' = None
      /\ disturbed' = (disturbed \/ (recording # None /\ i.doc # recording /\ flag'[i.doc]))
      /\ UNCHANGED <<docs, clip, recording, hasRecorder, begun, pasted>>
    BY <1>2 DEF IndentEnd
<1>4. Command("REPLACESEL", Brace, 0)
    BY BraceIsTyped DEF BraceTyped
<1>5. begun \in States /\ list \in Seq(Messages)
    BY <1>1 DEF DataTyped
<1>6. Recorded(list, "REPLACESEL", Brace, 0) \in Seq(Messages)
    BY <1>4, <1>5, RecordedIs
<1>7. DataTyped'
    BY <1>1, <1>3, <1>5, <1>6 DEF DataTyped
<1>8. IndentIsOurs'
    BY <1>3 DEF IndentIsOurs
<1>9. Replays'
    <2> SUFFICES ASSUME recording # None, ~disturbed', ~pasted PROVE Replays'
        BY <1>3 DEF Replays
    <2>1. ~disturbed /\ i.recording = recording /\ recording \in Tab
        BY <1>1, <1>2, <1>3, Tabs DEF IndentIsOurs
    <2>2. Reached = [doc |-> docs[recording], clip |-> clip]
        BY <2>1, <1>1 DEF Replays
    <2>3. Reached' = Played(begun, list')
        BY <1>3 DEF Reached
    <2>4. CASE i.doc = recording
        <3>1. list' = Recorded(list, "REPLACESEL", Brace, 0)
            BY <2>1, <2>4, <1>3
        <3>2. Played(begun, list') = Call(Played(begun, list), Heard("REPLACESEL", Brace, 0))
            <4>1. Sent(Played(begun, list), "REPLACESEL")
                BY DEF Sent
            <4> QED BY <4>1, <3>1, <1>4, <1>5, PlayedRecorded
        <3>3. Call(Played(begun, list), Heard("REPLACESEL", Brace, 0)) =
                  Perform(Played(begun, list), "REPLACESEL", Brace, 0)
            BY <1>4, HeardIs DEF Call, Sent
        <3>4. Reached = Perform(Played(begun, list), "REPLACESEL", Brace, 0)
            BY <2>4, <1>2, <1>3 DEF Reached
        <3> QED BY <2>2, <2>3, <3>2, <3>3, <3>4, <1>3 DEF Replays
    <2>5. CASE i.doc # recording
        <3>1. list' = list
            BY <2>5, <1>3
        <3>2. Reached = Played(begun, list)
            BY <2>5, <1>2 DEF Reached
        <3> QED BY <2>2, <2>3, <3>1, <3>2, <1>3 DEF Replays
    <2> QED BY <2>4, <2>5
<1> QED BY <1>7, <1>8, <1>9 DEF ReplayParts

LEMMA UntitledIs == Untitled \in Docs /\ Len(Untitled.text) <= MaxLen
<1>1. /\ Untitled \in [named : BOOLEAN, dirty : BOOLEAN, text : Seq(Chars), anchor : Nat, caret : Nat]
      /\ Untitled.text = <<>> /\ Untitled.anchor = 0 /\ Untitled.caret = 0 /\ Len(<<>>) = 0
    BY DEF Untitled
<1>2. MaxLen \in Nat
    BY RecorderAssumption
<1> QED BY <1>1, <1>2 DEF Docs

LEMMA FileIs == File \in Docs /\ Len(File.text) <= MaxLen
<1>1. <<"a">> \in Seq(Chars) /\ Len(<<"a">>) = 1
    BY DEF Chars
<1>2. /\ File \in [named : BOOLEAN, dirty : BOOLEAN, text : Seq(Chars), anchor : Nat, caret : Nat]
      /\ File.text = <<"a">> /\ File.anchor = 0 /\ File.caret = 0
    BY <1>1 DEF File, Untitled
<1>3. MaxLen \in Nat /\ MaxLen >= 1
    BY RecorderAssumption
<1> QED BY <1>1, <1>2, <1>3 DEF Docs

LEMMA ToggleReplays ==
    ASSUME ReplayInv, ToggleRecorder
    PROVE  ReplayParts'
<1>1. RecInv /\ DataTyped /\ IndentIsOurs /\ Replays
    BY DEF ReplayInv
<1>2. /\ begun' = IF recording = None THEN Now ELSE Nothing
      /\ disturbed' = (recording = None /\ indenting # None)
      /\ UNCHANGED <<docs, clip, indenting, active>>
    BY DEF ToggleRecorder, window
<1>3. Now \in States /\ Nothing \in States
    <2>1. <<>> \in Seq(Chars)
        OBVIOUS
    <2> QED BY <2>1, <1>1, NowIs, UntitledIs DEF Nothing, States
<1>4. CASE StopRecorder(active)
    <2>1. recording' = None /\ UNCHANGED <<hasRecorder, list>>
        BY <1>4 DEF StopRecorder
    <2>2. DataTyped'
        BY <2>1, <1>1, <1>2, <1>3 DEF DataTyped
    <2> QED BY <2>1, <2>2 DEF ReplayParts, IndentIsOurs, Replays
<1>5. CASE StartRecorder(active)
    <2>1. recording = None /\ recording' = active /\ list' = <<>> /\ hasRecorder' = TRUE
        BY <1>5 DEF StartRecorder
    <2>2. DataTyped'
        <3>1. <<>> \in Seq(Messages)
            OBVIOUS
        <3> QED BY <2>1, <3>1, <1>1, <1>2, <1>3 DEF DataTyped
    <2>3. IndentIsOurs'
        BY <2>1, <1>2 DEF IndentIsOurs
    <2>4. Replays'
        <3> SUFFICES ASSUME ~disturbed' PROVE Replays'
            BY DEF Replays
        <3>1. indenting' = None
            BY <2>1, <1>2
        <3>2. Reached' = Played(begun', list')
            BY <3>1 DEF Reached
        <3>3. Reached' = Now
            BY <2>1, <3>2, <1>2, PlayedNothing
        <3> QED BY <2>1, <3>3, <1>2 DEF Replays, Now
    <2> QED BY <2>2, <2>3, <2>4 DEF ReplayParts
<1> QED BY <1>4, <1>5 DEF ToggleRecorder

(***************************************************************************)
(* Opening and closing.                                                    *)
(***************************************************************************)

LEMMA OpenFileReplays ==
    ASSUME ReplayInv, NEW t \in Tab, NEW named \in BOOLEAN, OpenFile(t, named)
    PROVE  ReplayParts'
<1> DEFINE first == Head(book)
           opened == [docs EXCEPT ![t] = IF named THEN File ELSE Untitled]
<1>1. /\ t \notin ToSet(book)
      /\ \/ docs' = Closed(first, opened) /\ DoneSci(first, first)
         \/ docs' = opened /\ UNCHANGED <<recording, hasRecorder, list>>
      /\ UNCHANGED <<clip, indenting, begun, disturbed, pasted>>
    BY DEF OpenFile
<1>2. /\ docs \in [Tab -> Docs] /\ \A u \in Tab : Len(docs[u].text) <= MaxLen
      /\ recording # None => recording \in Tab /\ recording # t
    BY <1>1, Tabs DEF ReplayInv, DataTyped
<1>3. PICK d \in Docs : opened = [docs EXCEPT ![t] = d] /\ Len(d.text) <= MaxLen
    BY UntitledIs, FileIs
<1> HIDE DEF opened
<1>4. /\ opened \in [Tab -> Docs] /\ \A u \in Tab : Len(opened[u].text) <= MaxLen
      /\ recording # None => opened[recording] = docs[recording]
    BY <1>2, <1>3
<1>5. CASE docs' = opened /\ UNCHANGED <<recording, hasRecorder, list>>
    <2>1. DataTyped'
        BY <1>1, <1>4, <1>5 DEF ReplayInv, DataTyped
    <2> QED BY <2>1, <1>1, <1>4, <1>5, AsideKeeps
<1>6. CASE docs' = Closed(first, opened) /\ DoneSci(first, first)
    <2>1. UNCHANGED <<hasRecorder, list>> /\ recording' = IF recording = first THEN None ELSE recording
        BY <1>6 DEF DoneSci
    <2>2. docs' = [opened EXCEPT ![first] = Untitled]
        BY <1>6 DEF Closed
    <2> HIDE DEF first
    <2>3. docs' \in [Tab -> Docs] /\ \A u \in Tab : Len(docs'[u].text) <= MaxLen
        <3>1. \A u \in Tab : docs'[u] = IF u = first THEN Untitled ELSE opened[u]
            BY <2>2, <1>4
        <3>2. docs' = [u \in Tab |-> docs'[u]]
            BY <2>2, <1>4
        <3> QED BY <3>1, <3>2, <1>4, UntitledIs
    <2>4. DataTyped'
        BY <2>1, <2>3, <1>1 DEF ReplayInv, DataTyped
    <2>5. recording' # None => recording' = recording /\ docs'[recording] = docs[recording]
        BY <2>1, <2>2, <1>2, <1>4
    <2> QED BY <2>1, <2>4, <2>5, <1>1, AsideKeeps
<1> QED BY <1>1, <1>5, <1>6

\* The active document is closed.
LEMMA CloseReplays ==
    ASSUME ReplayInv, NEW control, docs' = Closed(active, docs), DoneSci(active, control),
           UNCHANGED <<clip, indenting, begun, disturbed, pasted>>
    PROVE  ReplayParts'
<1>1. UNCHANGED <<hasRecorder, list>> /\ recording' = IF recording = active THEN None ELSE recording
    BY DEF DoneSci
<1>2. docs' = [docs EXCEPT ![active] = Untitled] /\ docs \in [Tab -> Docs] /\ active \in Tab
    BY Tabs DEF Closed, ReplayInv, DataTyped
<1>3. docs' \in [Tab -> Docs] /\ \A u \in Tab : Len(docs'[u].text) <= MaxLen
    BY <1>2, UntitledIs DEF ReplayInv, DataTyped
<1>4. DataTyped'
    BY <1>1, <1>3 DEF ReplayInv, DataTyped
<1>5. recording' # None => recording' = recording /\ docs'[recording] = docs[recording]
    <2>1. recording \in Tab \cup {None}
        BY Tabs DEF ReplayInv
    <2> QED BY <2>1, <1>1, <1>2
<1> QED BY <1>1, <1>4, <1>5, AsideKeeps

(***************************************************************************)
(* Playing into a document that still sends its commands.                  *)
(***************************************************************************)

Hearings == [now : States, list : Seq(Messages)]

LEMMA HearKeeps ==
    ASSUME NEW a \in Hearings, NEW m \in Messages
    PROVE  Hear(a, m) \in Hearings
<1>1. a.now \in States /\ a.list \in Seq(Messages) /\ a.now.doc \in Docs
    BY DEF Hearings, States
<1>2. Call(a.now, m) \in States
    BY <1>1, CallIs
<1>3. PICK p : p = GoToCoords(a.now.doc, m.pos)
    OBVIOUS
<1>4. p \in 0 .. MaxLen
    <2>1. p \in 0 .. m.pos /\ m.pos \in 0 .. MaxLen /\ m.pos \in Nat /\ MaxLen \in Nat
        BY <1>1, <1>3, MessageParts, GoToCoordsIs, RecorderAssumption
    <2> QED BY <2>1
<1>5. Command("GOTOPOS", <<>>, p) /\ Command(m.msg, m.s, m.pos)
    BY <1>4, MessageParts DEF Command, Commands
<1>6. /\ Recorded(a.list, "GOTOPOS", <<>>, p) \in Seq(Messages)
      /\ Recorded(a.list, m.msg, m.s, m.pos) \in Seq(Messages)
    BY <1>1, <1>5, RecordedIs
<1> QED BY <1>1, <1>2, <1>3, <1>6 DEF Hear, Hearings

LEMMA HearAllIsFold ==
    ASSUME NEW a, NEW m
    PROVE  HearAll(a, m) = Hearing!Left(0, a, Sends(m))
BY DEF HearAll, Hearing!Left, Hearing!IterLeft, FoldLeft, MapThenFoldSet, HearOp, Hearing!Max, Max

LEMMA HearAllKeeps ==
    ASSUME NEW a \in Hearings, NEW m \in Messages
    PROVE  HearAll(a, m) \in Hearings
<1>1. PICK n \in Nat : n = Times(m) /\ DOMAIN Sends(m) = 1 .. n /\ \A i \in 1 .. n : Sends(m)[i] = m
    BY SendsAre
<1>2. \A i \in 1 .. n, b \in Hearings : HearOp(0, b, Sends(m)[i]) \in Hearings
    BY <1>1, HearKeeps DEF HearOp
<1> QED BY <1>1, <1>2, Hearing!LeftStays, HearAllIsFold

LEMMA RecordedAgainIs ==
    ASSUME NEW l \in Seq(Messages), NEW e \in States
    PROVE  RecordedAgain(l, e) \in Seq(Messages)
<1> DEFINE start == [now |-> e, list |-> l]
<1>1. RecordedAgain(l, e) = Rerecording!Left(0, start, l).list
    BY DEF RecordedAgain, Rerecording!Left, Rerecording!IterLeft, FoldLeft, MapThenFoldSet,
           HearAllOp, Rerecording!Max, Max
<1>2. start \in Hearings
    BY DEF Hearings
<1>3. PICK n \in Nat : DOMAIN l = 1 .. n /\ \A i \in 1 .. n : l[i] \in Messages
    BY ListParts
<1>4. \A i \in 1 .. n, b \in Hearings : HearAllOp(0, b, l[i]) \in Hearings
    BY <1>3, HearAllKeeps DEF HearAllOp
<1> HIDE DEF start
<1>5. Rerecording!Left(0, start, l) \in Hearings
    BY <1>2, <1>3, <1>4, Rerecording!LeftStays
<1> QED BY <1>1, <1>5 DEF Hearings

LEMMA PlaybackReplays ==
    ASSUME ReplayInv, Playback
    PROVE  ReplayParts'
<1>1. PICK e : e = Played(Now, list)
    OBVIOUS
<1>2. /\ recording = None /\ Len(e.doc.text) <= MaxLen /\ Len(e.clip) <= MaxLen
      /\ docs' = [docs EXCEPT ![active] = e.doc] /\ clip' = e.clip
      /\ list' = IF flag[active] THEN RecordedAgain(list, Now) ELSE list
      /\ UNCHANGED <<recording, hasRecorder, indenting, begun, disturbed, pasted>>
    BY <1>1 DEF Playback, history
<1>3. Now \in States /\ list \in Seq(Messages) /\ active \in Tab /\ docs \in [Tab -> Docs]
    BY NowIs, Tabs DEF ReplayInv, DataTyped
<1>4. e \in States /\ e.doc \in Docs /\ e.clip \in Seq(Chars)
    BY <1>1, <1>3, PlayedKeeps, StateParts
<1>5. list' \in Seq(Messages)
    BY <1>2, <1>3, RecordedAgainIs
<1>6. DataTyped'
    BY <1>2, <1>3, <1>4, <1>5 DEF ReplayInv, DataTyped
<1> QED BY <1>2, <1>6 DEF ReplayParts, IndentIsOurs, Replays

(***************************************************************************)
(* The theorem about playing.                                              *)
(***************************************************************************)

LEMMA InitReplays == Init => ReplayInv
<1> SUFFICES ASSUME Init PROVE ReplayInv
    OBVIOUS
<1>1. RecInv
    BY InitRecInv
<1>2. DataTyped
    <2>1. /\ docs = [u \in Tab |-> Untitled] /\ clip = <<>> /\ list = <<>> /\ begun = Nothing
          /\ hasRecorder = FALSE
        BY DEF Init
    <2>2. <<>> \in Seq(Chars) /\ <<>> \in Seq(Messages) /\ Len(<<>>) = 0
        OBVIOUS
    <2>3. Nothing \in States
        BY <2>2, UntitledIs DEF Nothing, States
    <2>4. docs \in [Tab -> Docs] /\ \A t \in Tab : Len(docs[t].text) <= MaxLen
        BY <2>1, UntitledIs
    <2>5. Len(<<>>) <= MaxLen
        BY <2>2, RecorderAssumption
    <2> QED BY <2>1, <2>2, <2>3, <2>4, <2>5 DEF DataTyped
<1>3. IndentIsOurs /\ Replays
    BY DEF Init, IndentIsOurs, Replays
<1> QED BY <1>1, <1>2, <1>3 DEF ReplayInv

LEMMA NextReplays == ReplayInv /\ [Next]_vars => ReplayInv'
<1> SUFFICES ASSUME ReplayInv, [Next]_vars PROVE ReplayInv'
    OBVIOUS
<1>1. RecInv'
    BY NextRecInv DEF ReplayInv
<1>2. SUFFICES ReplayParts'
    BY <1>1 DEF ReplayInv, ReplayParts
<1>3. CASE \E msg \in Once \cup Counted : Key(msg)
    <2>1. PICK msg \in Once \cup Counted : Send(msg, <<>>, 0)
        BY <1>3 DEF Key
    <2>2. msg # "GOTOLINE" /\ Command(msg, <<>>, 0)
        <3>1. <<>> \in Seq(Chars) /\ 0 \in 0 .. MaxLen
            BY RecorderAssumption
        <3> QED BY <3>1 DEF Command, Commands, Once, Counted
    <2> QED BY <2>1, <2>2, SendReplays DEF ReplayParts
<1>4. CASE Type
    <2>1. Command("REPLACESEL", <<"a">>, 0)
        <3>1. <<"a">> \in Seq(Chars) /\ <<"a">> # <<>> /\ 0 \in 0 .. MaxLen
            BY RecorderAssumption DEF Chars
        <3> QED BY <3>1 DEF Command, Commands
    <2> QED BY <2>1, <1>4, SendReplays DEF Type, ReplayParts
<1>5. CASE \E col \in 0 .. MaxLen : Goto(col)
    BY <1>5, GotoReplays DEF ReplayParts
<1>6. CASE \E caret \in 0 .. MaxLen : Click(0, caret)
    BY <1>6, ClickReplays
<1>7. CASE \E t \in Tab : Switch(t)
    BY <1>7, SwitchReplays
<1>8. CASE \E t \in Tab : CloseLast(t)
    BY <1>8, CloseReplays DEF CloseLast
<1>9. CASE CloseFile
    BY <1>9, CloseReplays DEF CloseFile
<1>10. CASE UNCHANGED vars
    <2>1. UNCHANGED <<docs, clip, recording, hasRecorder, list, indenting, begun, disturbed, pasted>>
        BY <1>10 DEF vars
    <2>2. DataTyped'
        BY <2>1 DEF ReplayInv, DataTyped
    <2> QED BY <2>1, <2>2, AsideKeeps
<1>11. CASE Next
    BY <1>3, <1>4, <1>5, <1>6, <1>7, <1>8, <1>9, <1>11, OpenFileReplays, IndentBeginReplays,
       IndentEndReplays, ToggleReplays, PlaybackReplays DEF Next, Step
<1> QED BY <1>10, <1>11

LEMMA ShortText ==
    ASSUME NEW s \in Seq(Chars), Len(s) <= MaxLen
    PROVE  s \in TextType
<1>1. Len(s) \in Nat /\ s \in [1 .. Len(s) -> Chars]
    BY LenProperties
<1>2. Len(s) \in 0 .. MaxLen
    BY <1>1, RecorderAssumption
<1> QED BY <1>1, <1>2 DEF TextType, Chars

\* While nothing else was shown than what was recorded, and no two pastes came one
\* after the other, playing the list where and when the recording began gives what
\* the recorded document and the clipboard are now (MacroRecorder::record, translate).
THEOREM ReplayGivesSameHolds == Spec => []ReplayGivesSame
<1>1. ReplayInv => TypeOK
    <2> SUFFICES ASSUME ReplayInv PROVE TypeOK
        OBVIOUS
    <2>1. RecInv /\ DataTyped
        BY DEF ReplayInv
    <2>2. \A t \in Tab : DocType(docs[t])
        <3> SUFFICES ASSUME NEW t \in Tab PROVE DocType(docs[t])
            OBVIOUS
        <3>1. docs[t] \in Docs /\ Len(docs[t].text) <= MaxLen
            BY <2>1 DEF DataTyped
        <3>2. /\ docs[t].named \in BOOLEAN /\ docs[t].dirty \in BOOLEAN /\ docs[t].text \in TextType
              /\ docs[t].anchor \in 0 .. Len(docs[t].text) /\ docs[t].caret \in 0 .. Len(docs[t].text)
            BY <3>1, DocParts, ShortText
        <3> QED BY <3>2 DEF DocType
    <2>3. \A i \in 1 .. Len(list) : MessageType(list[i])
        <3>1. \A i \in 1 .. Len(list) : list[i] \in Messages
            BY <2>1, ListParts DEF DataTyped
        <3> QED BY <3>1, MessageParts DEF MessageType
    <2>4. clip \in TextType
        BY <2>1, ShortText DEF DataTyped
    <2>5. indenting # None => indenting.doc \in Tab /\ indenting.recording \in Tab \cup {None}
        BY <2>1, Tabs DEF RecInv, IndentTyped, FlagsTyped
    <2>6. active \in ToSet(book) /\ ToSet(book) \subseteq Tab
        BY <2>1, OpenTabs DEF RecInv, TabsAreOpen
    <2> QED BY <2>1, <2>2, <2>3, <2>4, <2>5, <2>6, Tabs DEF TypeOK, DataTyped, RecInv, FlagsTyped
<1>2. ReplayInv /\ ~pasted => PlayGivesSame
    BY DEF ReplayInv, Replays, Reached, PlayGivesSame
<1>3. ReplayInv => ReplayGivesSame
    BY <1>1, <1>2 DEF ReplayGivesSame
<1> QED BY InitReplays, NextReplays, <1>3, PTL DEF Spec
=============================================================================
