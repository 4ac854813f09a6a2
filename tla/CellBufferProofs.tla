-------------------------- MODULE CellBufferProofs --------------------------
(***************************************************************************)
(* Theorems about CellBuffer and UndoHistory, for texts and histories of   *)
(* every length: undo and redo find each other's places, no edit is taken  *)
(* for the text that was saved; and, of every behaviour of CellBuffer,     *)
(* that converting line ends leaves those of one kind and as many of them, *)
(* that the open groups are those of fx.batch and of failed insertions,    *)
(* that a clean document is where undo and redo find the saved text, that  *)
(* an explicit group is one step, and that all of it is what History does. *)
(* The invariant behind them says that the recorded actions, replayed from *)
(* the text the history began with, fit one after the other and give the   *)
(* text at the current place; the list of History is the texts which that  *)
(* replay has at the places where an undo stops.                           *)
(***************************************************************************)
EXTENDS CellBuffer, SequenceTheorems, FiniteSetTheorems, TLAPS

\* The folds of CellBuffer, for the lemmas of FoldProofs.
ConvertOp(c, acc, p) == Convert(acc, c.text, p, c.eol)
UndoOp(c, t, a) == PerformUndoStep(t, a)
RedoOp(c, t, a) == PerformRedoStep(t, a)
EndOp(c, b, i) == End(b)

Conversion == INSTANCE FoldProofs WITH Op <- ConvertOp
Undoing == INSTANCE FoldProofs WITH Op <- UndoOp
Redoing == INSTANCE FoldProofs WITH Op <- RedoOp
Ending == INSTANCE FoldProofs WITH Op <- EndOp

(*************************************************************************)
(* Texts.                                                                *)
(*************************************************************************)

LEMMA SequenceOf ==
    ASSUME NEW D, NEW t \in Seq(D)
    PROVE  /\ Len(t) \in Nat /\ DOMAIN t = 1 .. Len(t)
           /\ \A i \in 1 .. Len(t) : t[i] \in D
BY LenProperties, ElementOfSeq

\* r is t from m to n; r is t with s put in, or with n characters taken out.
Excerpt(r, t, m, n, D) ==
    /\ r \in Seq(D) /\ Len(r) = n - m + 1
    /\ \A i \in 1 .. n - m + 1 : r[i] = t[m + i - 1]

PutIn(r, t, pos, s, D) ==
    /\ r \in Seq(D) /\ Len(r) = Len(t) + Len(s)
    /\ \A i \in 1 .. Len(t) + Len(s) :
           r[i] = IF i <= pos THEN t[i] ELSE IF i <= pos + Len(s) THEN s[i - pos]
                  ELSE t[i - Len(s)]

TakenOut(r, t, pos, n, D) ==
    /\ r \in Seq(D) /\ Len(r) = Len(t) - n
    /\ \A i \in 1 .. Len(t) - n : r[i] = IF i <= pos THEN t[i] ELSE t[i + n]

LEMMA Piece ==
    ASSUME NEW D, NEW t \in Seq(D), NEW m \in Nat, NEW n \in Nat,
           1 <= m, m <= n + 1, n <= Len(t)
    PROVE  Excerpt(SubSeq(t, m, n), t, m, n, D)
<1>1. Len(t) \in Nat /\ \A i \in 1 .. Len(t) : t[i] \in D
    BY SequenceOf
<1>2. \A i \in m .. n : t[i] \in D
    <2>1. \A i \in m .. n : i \in 1 .. Len(t)
        BY <1>1
    <2> QED BY <1>1, <2>1
<1>3. /\ SubSeq(t, m, n) \in Seq(D)
      /\ Len(SubSeq(t, m, n)) = IF m <= n THEN n - m + 1 ELSE 0
      /\ \A i \in 1 .. n - m + 1 : SubSeq(t, m, n)[i] = t[m + i - 1]
    BY <1>2, SubSeqProperties
<1>4. (IF m <= n THEN n - m + 1 ELSE 0) = n - m + 1
    OBVIOUS
<1> QED BY <1>3, <1>4 DEF Excerpt

LEMMA InsertedIs ==
    ASSUME NEW D, NEW t \in Seq(D), NEW s \in Seq(D), NEW pos \in 0 .. Len(t)
    PROVE  PutIn(Inserted(t, pos, s), t, pos, s, D)
<1>1. PICK n \in Nat, k \in Nat : n = Len(t) /\ k = Len(s)
    BY SequenceOf
<1> DEFINE before == SubSeq(t, 1, pos)
           after == SubSeq(t, pos + 1, n)
<1>2. /\ before \in Seq(D) /\ Len(before) = pos
      /\ \A i \in 1 .. pos : before[i] = t[i]
    <2>1. pos \in Nat /\ pos <= n /\ pos - 1 + 1 = pos /\ \A i \in 1 .. pos : 1 + i - 1 = i
        BY <1>1
    <2>2. Excerpt(before, t, 1, pos, D)
        BY <1>1, <2>1, Piece
    <2> HIDE DEF before
    <2> QED BY <2>1, <2>2 DEF Excerpt
<1>3. /\ after \in Seq(D) /\ Len(after) = n - pos
      /\ \A i \in 1 .. n - pos : after[i] = t[pos + i]
    <2>1. PICK lo \in Nat :
              /\ lo = pos + 1 /\ 1 <= lo /\ lo <= n + 1 /\ n - lo + 1 = n - pos
              /\ \A i \in 1 .. n - pos : lo + i - 1 = pos + i
        BY <1>1
    <2>2. Excerpt(SubSeq(t, lo, n), t, lo, n, D)
        BY <1>1, <2>1, Piece
    <2>3. after = SubSeq(t, lo, n)
        BY <2>1
    <2> HIDE DEF after
    <2> QED BY <2>1, <2>2, <2>3 DEF Excerpt
<1>4. Inserted(t, pos, s) = (before \o s) \o after
    BY <1>1 DEF Inserted
<1> HIDE DEF before, after
<1>5. /\ before \o s \in Seq(D) /\ Len(before \o s) = pos + k
      /\ \A i \in 1 .. pos + k : (before \o s)[i] = IF i <= pos THEN t[i] ELSE s[i - pos]
    <2>1. /\ before \o s \in Seq(D) /\ Len(before \o s) = pos + k
          /\ \A i \in 1 .. pos + k : (before \o s)[i] = IF i <= pos THEN before[i] ELSE s[i - pos]
        BY <1>1, <1>2, ConcatProperties
    <2>2. \A i \in 1 .. pos + k : i <= pos => i \in 1 .. pos
        BY <1>1
    <2> QED BY <1>2, <2>1, <2>2
<1> DEFINE front == before \o s
           all == front \o after
<1>6. /\ all \in Seq(D) /\ Len(all) = pos + k + (n - pos)
      /\ \A i \in 1 .. pos + k + (n - pos) :
             all[i] = IF i <= pos + k THEN front[i] ELSE after[i - (pos + k)]
    <2>1. front \in Seq(D) /\ Len(front) = pos + k
        BY <1>5
    <2> HIDE DEF front
    <2>2. /\ front \o after \in Seq(D) /\ Len(front \o after) = Len(front) + Len(after)
          /\ \A i \in 1 .. Len(front) + Len(after) :
                 (front \o after)[i] = IF i <= Len(front) THEN front[i] ELSE after[i - Len(front)]
        BY <1>3, <2>1, ConcatProperties
    <2> QED BY <1>3, <2>1, <2>2
<1>7. pos + k + (n - pos) = n + k
    BY <1>1
<1> HIDE DEF front, all
<1>8. ASSUME NEW i \in 1 .. n + k
      PROVE  all[i] = IF i <= pos THEN t[i] ELSE IF i <= pos + k THEN s[i - pos] ELSE t[i - k]
    <2>1. CASE i <= pos + k
        <3>1. i \in 1 .. pos + k /\ pos \in Int /\ k \in Int /\ i \in Int
            BY <1>1, <2>1
        <3>2. all[i] = front[i]
            BY <1>6, <1>7, <2>1
        <3> QED BY <1>5, <3>1, <3>2, <2>1 DEF front
    <2>2. CASE ~(i <= pos + k)
        <3>1. i - (pos + k) \in 1 .. n - pos /\ pos + (i - (pos + k)) = i - k /\ ~(i <= pos)
            BY <1>1, <2>2
        <3>2. all[i] = after[i - (pos + k)]
            BY <1>6, <1>7, <2>2
        <3> QED BY <1>3, <3>1, <3>2, <2>2
    <2> QED BY <2>1, <2>2
<1> QED BY <1>1, <1>4, <1>6, <1>7, <1>8 DEF all, front, PutIn

LEMMA DeletedIs ==
    ASSUME NEW D, NEW t \in Seq(D), NEW pos \in Nat, NEW n \in Nat, pos + n <= Len(t)
    PROVE  TakenOut(Deleted(t, pos, n), t, pos, n, D)
<1>1. PICK len \in Nat : len = Len(t)
    BY SequenceOf
<1> DEFINE before == SubSeq(t, 1, pos)
           after == SubSeq(t, pos + n + 1, len)
<1>2. /\ before \in Seq(D) /\ Len(before) = pos
      /\ \A i \in 1 .. pos : before[i] = t[i]
    <2>1. pos <= len /\ pos - 1 + 1 = pos /\ \A i \in 1 .. pos : 1 + i - 1 = i
        BY <1>1
    <2>2. Excerpt(before, t, 1, pos, D)
        BY <1>1, <2>1, Piece
    <2> HIDE DEF before
    <2> QED BY <2>1, <2>2 DEF Excerpt
<1>3. /\ after \in Seq(D) /\ Len(after) = len - (pos + n)
      /\ \A i \in 1 .. len - (pos + n) : after[i] = t[pos + n + i]
    <2>1. PICK lo \in Nat :
              /\ lo = pos + n + 1 /\ 1 <= lo /\ lo <= len + 1
              /\ len - lo + 1 = len - (pos + n)
              /\ \A i \in 1 .. len - (pos + n) : lo + i - 1 = pos + n + i
        BY <1>1
    <2>2. Excerpt(SubSeq(t, lo, len), t, lo, len, D)
        BY <1>1, <2>1, Piece
    <2>3. after = SubSeq(t, lo, len)
        BY <2>1
    <2> HIDE DEF after
    <2> QED BY <2>1, <2>2, <2>3 DEF Excerpt
<1>4. Deleted(t, pos, n) = before \o after
    BY <1>1 DEF Deleted
<1> HIDE DEF before, after
<1> DEFINE all == before \o after
<1>5. /\ all \in Seq(D) /\ Len(all) = pos + (len - (pos + n))
      /\ \A i \in 1 .. pos + (len - (pos + n)) :
             all[i] = IF i <= pos THEN before[i] ELSE after[i - pos]
    <2>0. before \in Seq(D) /\ after \in Seq(D)
        BY <1>2, <1>3
    <2>1. /\ all \in Seq(D) /\ Len(all) = Len(before) + Len(after)
          /\ \A i \in 1 .. Len(before) + Len(after) :
                 all[i] = IF i <= Len(before) THEN before[i] ELSE after[i - Len(before)]
        BY <2>0, ConcatProperties
    <2> HIDE DEF all
    <2> QED BY <1>2, <1>3, <2>1
<1>6. pos + (len - (pos + n)) = len - n
    BY <1>1
<1> HIDE DEF all
<1>7. ASSUME NEW i \in 1 .. len - n
      PROVE  all[i] = IF i <= pos THEN t[i] ELSE t[i + n]
    <2>1. CASE i <= pos
        <3>1. i \in 1 .. pos
            BY <2>1
        <3> QED BY <1>2, <1>5, <1>6, <2>1, <3>1
    <2>2. CASE ~(i <= pos)
        <3>1. i - pos \in 1 .. len - (pos + n) /\ pos + n + (i - pos) = i + n
            BY <1>1, <2>2
        <3>2. all[i] = after[i - pos]
            BY <1>5, <1>6, <2>2
        <3> QED BY <1>3, <3>1, <3>2, <2>2
    <2> QED BY <2>1, <2>2
<1> QED BY <1>1, <1>4, <1>5, <1>6, <1>7 DEF all, TakenOut

\* What was inserted can be taken out, and what was taken out put back.
LEMMA InsertedDeleted ==
    ASSUME NEW D, NEW t \in Seq(D), NEW s \in Seq(D), NEW pos \in 0 .. Len(t)
    PROVE  Deleted(Inserted(t, pos, s), pos, Len(s)) = t
<1>1. PICK n \in Nat, k \in Nat : n = Len(t) /\ k = Len(s)
    BY SequenceOf
<1> DEFINE u == Inserted(t, pos, s)
           v == Deleted(u, pos, k)
<1>2. /\ u \in Seq(D) /\ Len(u) = n + k
      /\ \A i \in 1 .. n + k : u[i] = IF i <= pos THEN t[i]
                                      ELSE IF i <= pos + k THEN s[i - pos] ELSE t[i - k]
    <2>1. PutIn(u, t, pos, s, D)
        BY InsertedIs
    <2> HIDE DEF u
    <2> QED BY <1>1, <2>1 DEF PutIn
<1> HIDE DEF u
<1>3. pos \in Nat /\ pos + k <= n + k /\ n + k - k = n
    BY <1>1
<1>4. /\ v \in Seq(D) /\ Len(v) = n
      /\ \A i \in 1 .. n : v[i] = IF i <= pos THEN u[i] ELSE u[i + k]
    <2>1. PICK w \in Seq(D) : w = u
        BY <1>2
    <2>2. w \in Seq(D) /\ pos \in Nat /\ k \in Nat /\ pos + k <= Len(w)
        BY <1>2, <1>3, <2>1
    <2>3. TakenOut(Deleted(w, pos, k), w, pos, k, D)
        BY <2>2, DeletedIs
    <2>4. v = Deleted(w, pos, k)
        BY <2>1
    <2>5. Len(w) - k = n
        BY <1>2, <1>3, <2>1
    <2> HIDE DEF v
    <2> QED BY <2>1, <2>3, <2>4, <2>5 DEF TakenOut
<1> HIDE DEF v
<1>5. ASSUME NEW i \in 1 .. n PROVE v[i] = t[i]
    <2>1. /\ i \in 1 .. n + k /\ i + k \in 1 .. n + k /\ i + k - k = i
          /\ (i <= pos \/ (~(i + k <= pos) /\ ~(i + k <= pos + k)))
        BY <1>1, <1>3
    <2>2. CASE i <= pos
        BY <1>2, <1>4, <2>1, <2>2
    <2>3. CASE ~(i <= pos)
        <3>1. v[i] = u[i + k]
            BY <1>4, <2>3
        <3>2. u[i + k] = t[i + k - k]
            BY <1>2, <2>1, <2>3
        <3> QED BY <2>1, <3>1, <3>2
    <2> QED BY <2>2, <2>3
<1>6. v = t
    BY <1>1, <1>4, <1>5, SeqEqual
<1> QED BY <1>1, <1>6 DEF v, u

LEMMA DeletedInserted ==
    ASSUME NEW D, NEW t \in Seq(D), NEW pos \in Nat, NEW n \in Nat, pos + n <= Len(t)
    PROVE  /\ SubSeq(t, pos + 1, pos + n) \in Seq(D)
           /\ Len(SubSeq(t, pos + 1, pos + n)) = n
           /\ Inserted(Deleted(t, pos, n), pos, SubSeq(t, pos + 1, pos + n)) = t
<1>1. PICK len \in Nat : len = Len(t) /\ pos + n <= len
    BY SequenceOf
<1> DEFINE s == SubSeq(t, pos + 1, pos + n)
           u == Deleted(t, pos, n)
           v == Inserted(u, pos, s)
<1>2. /\ s \in Seq(D) /\ Len(s) = n /\ \A i \in 1 .. n : s[i] = t[pos + i]
    <2>1. PICK lo \in Nat, hi \in Nat :
              /\ lo = pos + 1 /\ hi = pos + n
              /\ 1 <= lo /\ lo <= hi + 1 /\ hi <= Len(t) /\ hi - lo + 1 = n
              /\ \A i \in 1 .. n : lo + i - 1 = pos + i
        BY <1>1
    <2>2. Excerpt(SubSeq(t, lo, hi), t, lo, hi, D)
        BY <2>1, Piece
    <2>3. s = SubSeq(t, lo, hi)
        BY <2>1
    <2> HIDE DEF s
    <2> QED BY <2>1, <2>2, <2>3 DEF Excerpt
<1>3. /\ u \in Seq(D) /\ Len(u) = len - n
      /\ \A i \in 1 .. len - n : u[i] = IF i <= pos THEN t[i] ELSE t[i + n]
    <2>1. TakenOut(u, t, pos, n, D)
        BY DeletedIs
    <2> HIDE DEF u
    <2> QED BY <1>1, <2>1 DEF TakenOut
<1> HIDE DEF s, u
<1>4. /\ v \in Seq(D) /\ Len(v) = len
      /\ \A i \in 1 .. len : v[i] = IF i <= pos THEN u[i]
                                    ELSE IF i <= pos + n THEN s[i - pos] ELSE u[i - n]
    <2>1. pos \in 0 .. len - n /\ len - n + n = len
        BY <1>1
    <2>2. pos \in 0 .. Len(u) /\ u \in Seq(D) /\ s \in Seq(D)
        BY <1>2, <1>3, <2>1
    <2>3. PutIn(v, u, pos, s, D)
        BY <2>2, InsertedIs
    <2> HIDE DEF v
    <2> QED BY <1>2, <1>3, <2>1, <2>3 DEF PutIn
<1> HIDE DEF v
<1>5. ASSUME NEW i \in 1 .. len PROVE v[i] = t[i]
    <2>1. CASE i <= pos
        <3>1. i \in 1 .. len - n
            BY <1>1, <2>1
        <3> QED BY <1>3, <1>4, <2>1, <3>1
    <2>2. CASE ~(i <= pos) /\ i <= pos + n
        <3>1. i - pos \in 1 .. n /\ pos + (i - pos) = i
            BY <2>2
        <3>2. v[i] = s[i - pos]
            BY <1>4, <2>2
        <3> QED BY <1>2, <3>1, <3>2
    <2>3. CASE ~(i <= pos) /\ ~(i <= pos + n)
        <3>1. i - n \in 1 .. len - n /\ (i - n) + n = i /\ ~(i - n <= pos)
            BY <1>1, <2>3
        <3>2. v[i] = u[i - n]
            BY <1>4, <2>3
        <3>3. u[i - n] = t[(i - n) + n]
            BY <1>3, <3>1
        <3> QED BY <3>1, <3>2, <3>3
    <2> QED BY <2>1, <2>2, <2>3
<1>6. v = t
    BY <1>1, <1>4, <1>5, SeqEqual
<1> QED BY <1>2, <1>6 DEF s, u, v

(*************************************************************************)
(* Histories.                                                            *)
(*************************************************************************)

IsStart(u, i) == u.acts[i + 1].at = "start"

Actions(Data) ==
    [at : {"start", "insert", "remove"}, pos : Int, data : Seq(Data), coal : BOOLEAN]

\* The array begins and ends with a start action, and one is at the current place.
WellFormed(u, Data) ==
    /\ u \in [acts : Seq(Actions(Data)), cur : Nat, depth : Nat, save : Int]
    /\ u.cur \in 0 .. LastPlace(u)
    /\ u.save \in -1 .. LastPlace(u)
    /\ IsStart(u, 0) /\ IsStart(u, u.cur) /\ IsStart(u, LastPlace(u))

(***************************************************************************)
(* Undo and redo.                                                          *)
(***************************************************************************)

\* Undoing stops at the start action before the current place and at no earlier
\* one (UndoHistory::StartUndo).
THEOREM UndoLands ==
    ASSUME NEW Data, NEW u, WellFormed(u, Data), CanUndo(u)
    PROVE  /\ UndoTo(u) \in 0 .. u.cur - 1
           /\ IsStart(u, UndoTo(u))
           /\ \A j \in UndoTo(u) + 1 .. u.cur - 1 : ~IsStart(u, j)
<1> DEFINE T == {i \in 0 .. u.cur - 1 : IsStart(u, i)}
<1>1. u.cur \in Nat /\ u.cur > 0 /\ IsStart(u, 0)
    BY DEF WellFormed, CanUndo
<1>2. T \subseteq 0 .. u.cur /\ 0 \in T
    BY <1>1
<1>3. PICK m \in T : \A n \in T : n <= m
    <2> HIDE DEF T
    <2> QED BY <1>1, <1>2, Undoing!GreatestOf
<1>4. m \in 0 .. u.cur - 1 /\ IsStart(u, m) /\ \A j \in m + 1 .. u.cur - 1 : ~IsStart(u, j)
    <2>1. \A j \in m + 1 .. u.cur - 1 : j \in 0 .. u.cur - 1 /\ ~(j <= m)
        BY <1>1
    <2> QED BY <1>3, <2>1
<1> QED BY <1>4 DEF UndoTo, IsStart

\* Redoing stops at the next start action (UndoHistory::StartRedo).
THEOREM RedoLands ==
    ASSUME NEW Data, NEW u, WellFormed(u, Data), CanRedo(u)
    PROVE  /\ RedoTo(u) \in u.cur + 1 .. LastPlace(u)
           /\ IsStart(u, RedoTo(u))
           /\ \A j \in u.cur + 1 .. RedoTo(u) - 1 : ~IsStart(u, j)
<1> DEFINE T == {i \in u.cur + 1 .. LastPlace(u) : IsStart(u, i)}
<1>1. /\ u.cur \in Nat /\ LastPlace(u) \in Int /\ u.cur < LastPlace(u)
      /\ IsStart(u, LastPlace(u))
    <2>1. Len(u.acts) \in Nat
        BY LenProperties DEF WellFormed
    <2> QED BY <2>1 DEF WellFormed, CanRedo, LastPlace
<1>2. T \subseteq Nat /\ LastPlace(u) \in T
    BY <1>1
<1>3. PICK m \in T : \A n \in T : m <= n
    <2> HIDE DEF T
    <2> QED BY <1>2, Undoing!LeastOf
<1>4. /\ m \in u.cur + 1 .. LastPlace(u) /\ IsStart(u, m)
      /\ \A j \in u.cur + 1 .. m - 1 : ~IsStart(u, j)
    <2>1. \A j \in u.cur + 1 .. m - 1 : j \in u.cur + 1 .. LastPlace(u) /\ ~(m <= j)
        BY <1>1
    <2> QED BY <1>3, <2>1
<1> QED BY <1>4 DEF RedoTo, IsStart

At(u, i) == [u EXCEPT !.cur = i]

\* After an undo a redo leads back to where the undo began.
THEOREM RedoFindsUndone ==
    ASSUME NEW Data, NEW u, WellFormed(u, Data), CanUndo(u)
    PROVE  LET v == At(u, UndoTo(u))
           IN  WellFormed(v, Data) /\ CanRedo(v) /\ RedoTo(v) = u.cur
<1> DEFINE v == At(u, UndoTo(u))
<1>1. Len(u.acts) \in Nat
    BY LenProperties DEF WellFormed
<1>2. /\ UndoTo(u) \in 0 .. u.cur - 1 /\ IsStart(u, UndoTo(u))
      /\ \A j \in UndoTo(u) + 1 .. u.cur - 1 : ~IsStart(u, j)
    BY UndoLands
<1>3. /\ v.acts = u.acts /\ v.save = u.save /\ v.depth = u.depth /\ v.cur = UndoTo(u)
      /\ v \in [acts : Seq(Actions(Data)), cur : Nat, depth : Nat, save : Int]
    BY <1>2 DEF WellFormed, At
<1> HIDE DEF v
<1>4. WellFormed(v, Data) /\ CanRedo(v)
    BY <1>1, <1>2, <1>3 DEF WellFormed, CanRedo, IsStart, LastPlace
<1>5. /\ RedoTo(v) \in UndoTo(u) + 1 .. LastPlace(u) /\ IsStart(u, RedoTo(v))
      /\ \A j \in UndoTo(u) + 1 .. RedoTo(v) - 1 : ~IsStart(u, j)
    <2>1. /\ RedoTo(v) \in v.cur + 1 .. LastPlace(v) /\ IsStart(v, RedoTo(v))
          /\ \A j \in v.cur + 1 .. RedoTo(v) - 1 : ~IsStart(v, j)
        BY <1>4, RedoLands
    <2>2. LastPlace(v) = LastPlace(u) /\ \A j : IsStart(v, j) <=> IsStart(u, j)
        BY <1>3 DEF IsStart, LastPlace
    <2> QED BY <1>3, <2>1, <2>2
<1>6. RedoTo(v) = u.cur
    <2>1. u.cur \in Nat /\ IsStart(u, u.cur) /\ LastPlace(u) \in Int
        BY <1>1 DEF WellFormed, LastPlace
    <2>2. ~(RedoTo(v) < u.cur)
        BY <1>2, <1>5, <2>1
    <2>3. ~(u.cur < RedoTo(v))
        BY <1>2, <1>5, <2>1
    <2> QED BY <1>2, <1>5, <2>1, <2>2, <2>3
<1> QED BY <1>4, <1>6 DEF v

\* After a redo an undo leads back to where the redo began.
THEOREM UndoFindsRedone ==
    ASSUME NEW Data, NEW u, WellFormed(u, Data), CanRedo(u)
    PROVE  LET v == At(u, RedoTo(u))
           IN  WellFormed(v, Data) /\ CanUndo(v) /\ UndoTo(v) = u.cur
<1> DEFINE v == At(u, RedoTo(u))
<1>1. Len(u.acts) \in Nat
    BY LenProperties DEF WellFormed
<1>2. /\ RedoTo(u) \in u.cur + 1 .. LastPlace(u) /\ IsStart(u, RedoTo(u))
      /\ \A j \in u.cur + 1 .. RedoTo(u) - 1 : ~IsStart(u, j)
    BY RedoLands
<1>3. RedoTo(u) \in Nat
    BY <1>1, <1>2 DEF WellFormed, LastPlace
<1>4. /\ v.acts = u.acts /\ v.save = u.save /\ v.depth = u.depth /\ v.cur = RedoTo(u)
      /\ v \in [acts : Seq(Actions(Data)), cur : Nat, depth : Nat, save : Int]
    BY <1>3 DEF WellFormed, At
<1> HIDE DEF v
<1>5. WellFormed(v, Data) /\ CanUndo(v)
    BY <1>1, <1>2, <1>3, <1>4 DEF WellFormed, CanUndo, IsStart, LastPlace
<1>6. /\ UndoTo(v) \in 0 .. RedoTo(u) - 1 /\ IsStart(u, UndoTo(v))
      /\ \A j \in UndoTo(v) + 1 .. RedoTo(u) - 1 : ~IsStart(u, j)
    BY <1>4, <1>5, UndoLands DEF IsStart
<1>7. UndoTo(v) = u.cur
    <2>1. u.cur \in Nat /\ IsStart(u, u.cur)
        BY DEF WellFormed
    <2>2. ~(UndoTo(v) < u.cur)
        BY <1>2, <1>3, <1>6, <2>1, <1>1 DEF LastPlace
    <2>3. ~(u.cur < UndoTo(v))
        BY <1>2, <1>3, <1>6, <2>1
    <2> QED BY <1>3, <1>6, <2>1, <2>2, <2>3
<1> QED BY <1>5, <1>7 DEF v

(***************************************************************************)
(* Edits.                                                                  *)
(***************************************************************************)

\* Where the action goes: behind the current start action, or over it.
AppendedAt(u, at, pos, data) ==
    IF StartsSequence(u, at, pos, data) THEN u.cur + 1 ELSE u.cur

LEMMA AppendedPlace ==
    ASSUME NEW Data, NEW u, WellFormed(u, Data), NEW at, NEW pos, NEW data
    PROVE  /\ AppendedAt(u, at, pos, data) \in 1 .. Len(u.acts)
           /\ AppendedAt(u, at, pos, data) \in {u.cur, u.cur + 1}
<1>1. Len(u.acts) \in Nat
    BY LenProperties DEF WellFormed
<1> QED BY <1>1 DEF AppendedAt, StartsSequence, WellFormed, LastPlace

\* An edit is never taken for the text that was saved, wherever in the history it
\* is done and whether or not it joins the group before (UndoHistory::AppendAction).
THEOREM EditLeavesSavePoint ==
    ASSUME NEW Data, NEW u, WellFormed(u, Data), NEW at, NEW pos, NEW data
    PROVE  ~IsSavePoint(AppendAction(u, at, pos, data))
<1> DEFINE k == AppendedAt(u, at, pos, data)
           v == AppendAction(u, at, pos, data)
<1>1. k \in {u.cur, u.cur + 1} /\ u.cur \in Nat /\ u.save \in Int
    BY AppendedPlace DEF WellFormed
<1>2. v.cur = k + 1 /\ v.save = IF u.cur < u.save THEN -1 ELSE u.save
    BY DEF AppendAction, AppendedAt, WellFormed
<1> HIDE DEF k, v
<1>3. v.save # v.cur
    BY <1>1, <1>2
<1> QED BY <1>3 DEF IsSavePoint, v

LEMMA Pair ==
    ASSUME NEW S, NEW a \in S, NEW b \in S
    PROVE  <<a, b>> \in Seq(S) /\ Len(<<a, b>>) = 2 /\ <<a, b>>[1] = a /\ <<a, b>>[2] = b
OBVIOUS

Action(at, pos, data) == [at |-> at, pos |-> pos, data |-> data, coal |-> TRUE]

\* v is u with an action at k and a start action behind it.
ExtendsTo(u, v, k, a, Data) ==
    /\ k \in {u.cur, u.cur + 1} /\ k \in Nat /\ k > 0
    /\ v.cur = k + 1 /\ v.depth = u.depth
    /\ v.save = IF u.cur < u.save THEN -1 ELSE u.save
    /\ v.acts \in Seq(Actions(Data)) /\ Len(v.acts) = k + 2
    /\ \A i \in 1 .. k : v.acts[i] = u.acts[i]
    /\ v.acts[k + 1] = a /\ v.acts[k + 2] = StartAction(TRUE)
    /\ v \in [acts : Seq(Actions(Data)), cur : Nat, depth : Nat, save : Int]

LEMMA AppendedIs ==
    ASSUME NEW Data, NEW u, WellFormed(u, Data),
           NEW at \in {"insert", "remove"}, NEW pos \in Int, NEW data \in Seq(Data)
    PROVE  ExtendsTo(u, AppendAction(u, at, pos, data), AppendedAt(u, at, pos, data),
                     Action(at, pos, data), Data)
<1> DEFINE k == AppendedAt(u, at, pos, data)
           v == AppendAction(u, at, pos, data)
           kept == SubSeq(u.acts, 1, k)
           a == Action(at, pos, data)
           more == <<a, StartAction(TRUE)>>
<1>1. /\ Len(u.acts) \in Nat /\ k \in 1 .. Len(u.acts) /\ k \in {u.cur, u.cur + 1}
      /\ u.acts \in Seq(Actions(Data)) /\ u.cur \in Nat /\ u.save \in Int /\ u.depth \in Nat
      /\ u.save \in -1 .. Len(u.acts) - 1
    BY AppendedPlace, LenProperties DEF WellFormed, LastPlace
<1>2. more \in Seq(Actions(Data)) /\ Len(more) = 2 /\ more[1] = a /\ more[2] = StartAction(TRUE)
    <2>1. a \in Actions(Data)
        BY DEF Actions, Action
    <2>2. StartAction(TRUE) \in Actions(Data)
        BY DEF Actions, StartAction
    <2> HIDE DEF a
    <2> QED BY <2>1, <2>2, Pair
<1>3. /\ kept \in Seq(Actions(Data)) /\ Len(kept) = k
      /\ \A i \in 1 .. k : kept[i] = u.acts[i]
    <2> HIDE DEF k
    <2>1. 1 \in Int /\ k \in Int /\ \A i \in 1 .. k : u.acts[i] \in Actions(Data)
        BY <1>1, ElementOfSeq
    <2>2. /\ SubSeq(u.acts, 1, k) \in Seq(Actions(Data))
          /\ Len(SubSeq(u.acts, 1, k)) = IF 1 <= k THEN k - 1 + 1 ELSE 0
          /\ \A i \in 1 .. k - 1 + 1 : SubSeq(u.acts, 1, k)[i] = u.acts[1 + i - 1]
        BY <2>1, SubSeqProperties
    <2> QED BY <2>1, <2>2, <1>1
<1>4. v = [u EXCEPT !.acts = kept \o more, !.cur = k + 1,
                    !.save = IF u.cur < u.save THEN -1 ELSE u.save]
    BY DEF AppendAction, AppendedAt, Action
<1> HIDE DEF k, v, a, kept, more
<1>5. /\ v.acts = kept \o more /\ v.cur = k + 1 /\ v.depth = u.depth
      /\ v.save = IF u.cur < u.save THEN -1 ELSE u.save
    BY <1>4 DEF WellFormed
<1>6. /\ v.acts \in Seq(Actions(Data)) /\ Len(v.acts) = k + 2
      /\ \A i \in 1 .. k : v.acts[i] = u.acts[i]
      /\ v.acts[k + 1] = a /\ v.acts[k + 2] = StartAction(TRUE)
    <2> DEFINE w == kept \o more
    <2>1. k \in Nat
        BY <1>1
    <2>2. /\ w \in Seq(Actions(Data)) /\ Len(w) = Len(kept) + Len(more)
          /\ \A i \in 1 .. Len(kept) + Len(more) :
                 w[i] = IF i <= Len(kept) THEN kept[i] ELSE more[i - Len(kept)]
        BY <1>2, <1>3, ConcatProperties
    <2> HIDE DEF w
    <2>3. Len(w) = k + 2 /\ \A i \in 1 .. k : w[i] = u.acts[i]
        BY <2>1, <2>2, <1>2, <1>3
    <2>4. w[k + 2] = StartAction(TRUE)
        <3>1. w[k + 2] = more[k + 2 - k]
            BY <2>1, <2>2, <1>2, <1>3
        <3>2. k + 2 - k = 2
            BY <2>1
        <3> QED BY <3>1, <3>2, <1>2
    <2>6. w[k + 1] = a
        <3>1. w[k + 1] = more[k + 1 - k]
            BY <2>1, <2>2, <1>2, <1>3
        <3>2. k + 1 - k = 1
            BY <2>1
        <3> QED BY <3>1, <3>2, <1>2
    <2>5. v.acts = w
        BY <1>5 DEF w
    <2> QED BY <2>2, <2>3, <2>4, <2>5, <2>6
<1>7. v \in [acts : Seq(Actions(Data)), cur : Nat, depth : Nat, save : Int]
    <2>1. v.cur \in Nat /\ v.save \in Int /\ v.depth \in Nat
        BY <1>1, <1>5
    <2>2. v = [acts |-> v.acts, cur |-> v.cur, depth |-> v.depth, save |-> v.save]
        BY <1>4 DEF WellFormed
    <2> QED BY <2>1, <2>2, <1>6
<1>8. k \in Nat /\ k > 0
    BY <1>1
<1>9. ExtendsTo(u, v, k, a, Data)
    BY <1>1, <1>5, <1>6, <1>7, <1>8 DEF ExtendsTo
<1> QED BY <1>9 DEF k, v, a

\* An edit leaves the array in order: what was undone is cut off, and the last
\* start action is the current one (UndoHistory::AppendAction).
THEOREM EditKeepsShape ==
    ASSUME NEW Data, NEW u, WellFormed(u, Data),
           NEW at \in {"insert", "remove"}, NEW pos \in Int, NEW data \in Seq(Data)
    PROVE  WellFormed(AppendAction(u, at, pos, data), Data)
<1> DEFINE k == AppendedAt(u, at, pos, data)
           v == AppendAction(u, at, pos, data)
<1>1. /\ k \in {u.cur, u.cur + 1} /\ k \in Nat /\ k > 0
      /\ v.cur = k + 1
      /\ v.save = IF u.cur < u.save THEN -1 ELSE u.save
      /\ Len(v.acts) = k + 2 /\ \A i \in 1 .. k : v.acts[i] = u.acts[i]
      /\ v.acts[k + 2] = StartAction(TRUE)
      /\ v \in [acts : Seq(Actions(Data)), cur : Nat, depth : Nat, save : Int]
    <2>1. ExtendsTo(u, v, k, Action(at, pos, data), Data)
        BY AppendedIs
    <2> HIDE DEF k, v
    <2> QED BY <2>1 DEF ExtendsTo
<1> HIDE DEF k, v
<1>2. u.cur \in Nat /\ u.save \in Int /\ -1 <= u.save
    BY DEF WellFormed, LastPlace
<1>3. LastPlace(v) = k + 1
    BY <1>1 DEF LastPlace
<1>4. v.cur \in 0 .. LastPlace(v) /\ v.save \in -1 .. LastPlace(v)
    BY <1>1, <1>2, <1>3, SMTT(30)
<1>5. IsStart(v, 0) /\ IsStart(v, v.cur) /\ IsStart(v, LastPlace(v))
    <2>1. v.acts[1].at = "start"
        <3>1. u.acts[0 + 1].at = "start"
            BY DEF WellFormed, IsStart
        <3>2. 1 \in 1 .. k /\ 0 + 1 = 1
            BY <1>1
        <3>3. v.acts[1] = u.acts[1]
            BY <1>1, <3>2
        <3> QED BY <3>1, <3>2, <3>3, Zenon
    <2>2. v.acts[k + 2].at = "start"
        BY <1>1 DEF StartAction
    <2>3. v.cur + 1 = k + 2 /\ LastPlace(v) + 1 = k + 2
        BY <1>1, <1>3
    <2> QED BY <2>1, <2>2, <2>3 DEF IsStart
<1> QED BY <1>1, <1>4, <1>5 DEF WellFormed, v

(***************************************************************************)
(* Groups and the save point.                                              *)
(***************************************************************************)

\* The same actions, whatever may join them.
SameActions(u, v) ==
    /\ v.cur = u.cur /\ v.save = u.save /\ LastPlace(v) = LastPlace(u)
    /\ \A i \in 1 .. Len(u.acts) : /\ v.acts[i].at = u.acts[i].at
                                  /\ v.acts[i].pos = u.acts[i].pos
                                  /\ v.acts[i].data = u.acts[i].data

LEMMA FenceKeepsShape ==
    ASSUME NEW Data, NEW u, WellFormed(u, Data)
    PROVE  /\ WellFormed(Fence(u), Data) /\ Fence(u).depth = u.depth
           /\ SameActions(u, Fence(u))
           /\ \A i \in 1 .. Len(u.acts) :
                  Fence(u).acts[i].coal <=> i # u.cur + 1 /\ u.acts[i].coal
<1> DEFINE n == u.cur + 1
           a == [u.acts[n] EXCEPT !.coal = FALSE]
           s == [u.acts EXCEPT ![n] = a]
           v == Fence(u)
<1>1. /\ Len(u.acts) \in Nat /\ n \in 1 .. Len(u.acts) /\ u.acts \in Seq(Actions(Data))
      /\ u.acts[n] \in Actions(Data)
    BY LenProperties, ElementOfSeq DEF WellFormed, LastPlace
<1>2. /\ a \in Actions(Data) /\ a.at = u.acts[n].at
      /\ a.pos = u.acts[n].pos /\ a.data = u.acts[n].data /\ a.coal = FALSE
    BY <1>1 DEF Actions
<1>3. v = [u EXCEPT !.acts = s]
    BY DEF Fence
<1> HIDE DEF n, a, v
<1>4. s \in Seq(Actions(Data)) /\ Len(s) = Len(u.acts)
      /\ \A i \in 1 .. Len(u.acts) : s[i] = IF i = n THEN a ELSE u.acts[i]
    BY <1>1, <1>2, ExceptSeq
<1> HIDE DEF s
<1>5. /\ v.acts = s /\ v.cur = u.cur /\ v.depth = u.depth /\ v.save = u.save
      /\ v \in [acts : Seq(Actions(Data)), cur : Nat, depth : Nat, save : Int]
    BY <1>3, <1>4 DEF WellFormed
<1>6. \A i \in 1 .. Len(u.acts) :
          /\ v.acts[i].at = u.acts[i].at
          /\ v.acts[i].pos = u.acts[i].pos
          /\ v.acts[i].data = u.acts[i].data
    BY <1>2, <1>4, <1>5
<1>7. LastPlace(v) = LastPlace(u) /\ Len(v.acts) = Len(u.acts)
    BY <1>4, <1>5 DEF LastPlace
<1>8. IsStart(v, 0) /\ IsStart(v, v.cur) /\ IsStart(v, LastPlace(v))
    <2>1. \A i \in 0 .. LastPlace(u) : IsStart(v, i) <=> IsStart(u, i)
        BY <1>1, <1>6 DEF IsStart, LastPlace
    <2>2. LastPlace(u) \in Nat
        BY <1>1 DEF LastPlace, n
    <2> QED BY <2>1, <2>2, <1>5, <1>7 DEF WellFormed
<1>9. v.cur \in 0 .. LastPlace(v) /\ v.save \in -1 .. LastPlace(v)
    BY <1>5, <1>7 DEF WellFormed
<1>10. SameActions(u, v)
    BY <1>5, <1>6, <1>7 DEF SameActions
<1>11. \A i \in 1 .. Len(u.acts) : v.acts[i].coal <=> i # u.cur + 1 /\ u.acts[i].coal
    <2>1. TAKE i \in 1 .. Len(u.acts)
    <2>2. CASE i = n
        BY <1>2, <1>4, <1>5, <2>2 DEF n
    <2>3. CASE i # n
        BY <1>4, <1>5, <2>3 DEF n
    <2> QED BY <2>2, <2>3
<1>12. WellFormed(v, Data)
    BY <1>5, <1>8, <1>9 DEF WellFormed
<1> QED BY <1>5, <1>10, <1>11, <1>12 DEF v

LEMMA DepthKeepsShape ==
    ASSUME NEW Data, NEW u, WellFormed(u, Data), NEW d \in Nat
    PROVE  WellFormed([u EXCEPT !.depth = d], Data)
BY DEF WellFormed, LastPlace, IsStart

\* Groups that begin and end, in whatever nesting, and a save keep the array in
\* order (UndoHistory::BeginUndoAction, EndUndoAction, SetSavePoint).
THEOREM GroupsKeepShape ==
    ASSUME NEW Data, NEW u, WellFormed(u, Data)
    PROVE  /\ WellFormed(BeginUndoAction(u), Data)
           /\ u.depth > 0 => WellFormed(EndUndoAction(u), Data)
           /\ WellFormed(SetSavePoint(u), Data)
<1>1. u.depth \in Nat
    BY DEF WellFormed
<1>2. WellFormed(BeginUndoAction(u), Data)
    <2> DEFINE w == IF u.depth = 0 THEN Fence(u) ELSE u
    <2>1. WellFormed(w, Data) /\ w.depth = u.depth
        BY FenceKeepsShape
    <2>2. BeginUndoAction(u) = [w EXCEPT !.depth = w.depth + 1]
        BY DEF BeginUndoAction
    <2> HIDE DEF w
    <2>3. w.depth + 1 \in Nat
        BY <1>1, <2>1
    <2> QED BY <2>1, <2>2, <2>3, DepthKeepsShape
<1>3. u.depth > 0 => WellFormed(EndUndoAction(u), Data)
    <2> HAVE u.depth > 0
    <2> DEFINE w == IF u.depth = 1 THEN Fence(u) ELSE u
    <2>1. WellFormed(w, Data) /\ w.depth = u.depth
        BY FenceKeepsShape
    <2>2. EndUndoAction(u) = [w EXCEPT !.depth = w.depth - 1]
        BY DEF EndUndoAction
    <2> HIDE DEF w
    <2>3. w.depth - 1 \in Nat
        BY <1>1, <2>1
    <2> QED BY <2>1, <2>2, <2>3, DepthKeepsShape
<1>4. WellFormed(SetSavePoint(u), Data)
    <2> DEFINE w == SetSavePoint(u)
    <2>1. /\ w.acts = u.acts /\ w.cur = u.cur /\ w.save = u.cur
          /\ w \in [acts : Seq(Actions(Data)), cur : Nat, depth : Nat, save : Int]
        BY DEF WellFormed, SetSavePoint
    <2> HIDE DEF w
    <2>2. w.save \in -1 .. LastPlace(w)
        BY <2>1 DEF WellFormed, LastPlace
    <2> QED BY <2>1, <2>2 DEF WellFormed, LastPlace, IsStart, w
<1> QED BY <1>2, <1>3, <1>4

(*************************************************************************)
(* Histories as texts, one for every place.                              *)
(*************************************************************************)

Chars == {CR, LF, Letter}
Histories == [acts : Seq(Actions(Chars)), cur : Nat, depth : Nat, save : Int]
Buffers == [text : Seq(Chars), uh : Histories, group : [from : Int, to : Int]]

\* Can the action be performed on t, and is what it removes there?
Fits(t, a) ==
    /\ a.at = "insert" => a.pos \in 0 .. Len(t)
    /\ a.at = "remove" => /\ a.pos \in Nat /\ a.pos + Len(a.data) <= Len(t)
                          /\ a.data = SubSeq(t, a.pos + 1, a.pos + Len(a.data))

Performed(t, a) == IF a.at = "start" THEN t ELSE PerformRedoStep(t, a)

\* T[i] is the text at place i of the history.
Replays(T, u, first) ==
    /\ T \in [0 .. LastPlace(u) -> Seq(Chars)]
    /\ T[0] = first
    /\ \A i \in 1 .. LastPlace(u) :
           Fits(T[i - 1], u.acts[i]) /\ T[i] = Performed(T[i - 1], u.acts[i])

HasReplay(u, text, first) == \E T : Replays(T, u, first) /\ T[u.cur] = text

\* Between two places nothing starts.
Whole(u, from, to) ==
    /\ from \in 0 .. to /\ to \in 0 .. LastPlace(u)
    /\ IsStart(u, from) /\ IsStart(u, to)
    /\ \A i \in from + 1 .. to - 1 : ~IsStart(u, i)

\* What follows an explicit group cannot join it, and while it is open everything
\* does.
GoodGroup(u, g) ==
    /\ g.to = Opened => u.depth > 0
    /\ g.from # None =>
           IF g.to = Opened
           THEN Whole(u, g.from, u.cur) /\ (u.acts[u.cur + 1].coal <=> u.cur # g.from)
           ELSE Whole(u, g.from, g.to) /\ ~u.acts[g.to + 1].coal

GoodBuffer(b, first) ==
    /\ b \in Buffers
    /\ WellFormed(b.uh, Chars)
    /\ HasReplay(b.uh, b.text, first)
    /\ GoodGroup(b.uh, b.group)

SameAction(a, b) == a.at = b.at /\ a.pos = b.pos /\ a.data = b.data

\* v goes on as u up to place w - 1, and has one place more.
Grown(u, v, w) ==
    /\ w \in {u.cur, u.cur + 1} /\ w > 0
    /\ LastPlace(v) = v.cur /\ v.cur > w
    /\ \A i \in 1 .. w : SameAction(v.acts[i], u.acts[i])
    /\ \A i \in w .. v.cur - 1 : ~IsStart(v, i)
    /\ v.save = IF u.cur < u.save THEN -1 ELSE u.save

\* Does what follows go into the group that is open?
Joining(u) == u.cur > 0 /\ u.depth > 0 /\ Current(u).coal

\* v is u, or u with actions that are undone at once.
Extended(u, v) ==
    \/ SameActions(u, v) /\ (Current(v).coal <=> Current(u).coal)
    \/ /\ Current(v).coal
       /\ \E w : /\ Grown(u, v, w)
                 /\ ~Current(u).coal => w = u.cur + 1
                 /\ Joining(u) => w = u.cur

\* Changes of a document may leave everything as it is, and otherwise go forwards;
\* in an open group they are undone at once.
Edited(b, c, first) ==
    /\ GoodBuffer(c, first)
    /\ c.uh.depth = b.uh.depth
    /\ c.uh.cur >= b.uh.cur
    /\ c.uh.cur = b.uh.cur => c.uh.save = b.uh.save
    /\ b.uh.depth > 0 => Extended(b.uh, c.uh)

LEMMA HistoryParts ==
    ASSUME NEW Data, NEW u, WellFormed(u, Data)
    PROVE  /\ Len(u.acts) \in Nat /\ u.cur \in Nat /\ u.depth \in Nat /\ u.save \in Int
           /\ u.acts \in Seq(Actions(Data))
           /\ LastPlace(u) \in Nat /\ Len(u.acts) = LastPlace(u) + 1
           /\ u.cur <= LastPlace(u) /\ -1 <= u.save /\ u.save <= LastPlace(u)
<1>1. Len(u.acts) \in Nat /\ u.acts \in Seq(Actions(Data))
    BY LenProperties DEF WellFormed
<1>2. /\ u.cur \in Nat /\ u.depth \in Nat /\ u.save \in Int
      /\ u.cur \in 0 .. LastPlace(u) /\ u.save \in -1 .. LastPlace(u)
    BY DEF WellFormed
<1>3. LastPlace(u) = Len(u.acts) - 1
    BY DEF LastPlace
<1>4. LastPlace(u) \in Nat /\ Len(u.acts) = LastPlace(u) + 1
    BY <1>1, <1>2, <1>3
<1> QED BY <1>1, <1>2, <1>4

\* An action that is appended replays after what was there.
LEMMA ReplayGrows ==
    ASSUME NEW first, NEW u, NEW v, NEW k, NEW text, NEW a,
           WellFormed(u, Chars), ExtendsTo(u, v, k, a, Chars),
           HasReplay(u, text, first),
           Fits(text, a), Performed(text, a) \in Seq(Chars)
    PROVE  HasReplay(v, Performed(text, a), first)
<1>1. PICK T : Replays(T, u, first) /\ T[u.cur] = text
    BY DEF HasReplay
<1>2. PICK last \in Nat, cur \in Nat :
          last = LastPlace(u) /\ cur = u.cur /\ cur <= last /\ Len(u.acts) = last + 1
    BY HistoryParts
<1>3. /\ T \in [0 .. last -> Seq(Chars)] /\ T[0] = first /\ T[cur] = text
      /\ \A i \in 1 .. last : Fits(T[i - 1], u.acts[i]) /\ T[i] = Performed(T[i - 1], u.acts[i])
    BY <1>1, <1>2 DEF Replays
<1>4. /\ k \in {cur, cur + 1} /\ k \in Nat /\ k > 0
      /\ v.cur = k + 1 /\ Len(v.acts) = k + 2
      /\ \A i \in 1 .. k : v.acts[i] = u.acts[i]
      /\ v.acts[k + 1] = a
    BY <1>2 DEF ExtendsTo
<1>5. LastPlace(v) = k + 1
    BY <1>4 DEF LastPlace
<1> DEFINE R == [i \in 0 .. k + 1 |-> IF i <= cur THEN T[i]
                                      ELSE IF i = k + 1 THEN Performed(text, a) ELSE text]
<1>6. \A i \in 0 .. k + 1 : R[i] \in Seq(Chars)
    <2>1. \A i \in 0 .. k + 1 : i <= cur => T[i] \in Seq(Chars)
        BY <1>2, <1>3
    <2>2. text \in Seq(Chars)
        BY <1>2, <1>3
    <2> QED BY <2>1, <2>2
<1>7. /\ \A i \in 0 .. cur : R[i] = T[i]
      /\ R[0] = first /\ R[k] = text /\ R[k + 1] = Performed(text, a)
    <2>1. \A i \in 0 .. cur : i \in 0 .. k + 1 /\ i <= cur
        BY <1>4
    <2>2. /\ 0 \in 0 .. cur /\ k \in 0 .. k + 1 /\ k + 1 \in 0 .. k + 1
          /\ ~(k + 1 <= cur) /\ k # k + 1 /\ (k <= cur => k = cur)
        BY <1>4
    <2>3. \A i \in 0 .. cur : R[i] = T[i]
        BY <2>1
    <2>4. R[k] = text
        BY <1>3, <2>2
    <2>5. R[k + 1] = Performed(text, a)
        BY <2>2
    <2> HIDE DEF R
    <2> QED BY <1>3, <2>2, <2>3, <2>4, <2>5
<1>8. R = [i \in 0 .. k + 1 |-> R[i]]
    OBVIOUS
<1> HIDE DEF R
<1>9. ASSUME NEW i \in 1 .. k + 1
      PROVE  Fits(R[i - 1], v.acts[i]) /\ R[i] = Performed(R[i - 1], v.acts[i])
    <2>1. CASE i <= cur
        <3>1. k >= cur /\ last >= cur
            BY <1>2, <1>4
        <3>2. i \in 1 .. last /\ i \in 1 .. k /\ i \in 0 .. cur /\ i - 1 \in 0 .. cur
            BY <1>2, <1>4, <2>1, <3>1
        <3>3. R[i - 1] = T[i - 1] /\ R[i] = T[i] /\ v.acts[i] = u.acts[i]
            BY <1>4, <1>7, <3>2
        <3> QED BY <1>3, <3>2, <3>3
    <2>2. CASE i = k + 1
        <3>1. i - 1 = k
            BY <1>4, <2>2
        <3> QED BY <1>4, <1>7, <2>2, <3>1
    <2>3. CASE i > cur /\ i # k + 1
        <3>1. k = cur + 1 /\ i = k /\ i - 1 = cur /\ cur \in 0 .. cur
            BY <1>4, <2>3
        <3>2. v.acts[i].at = "start"
            <4>1. v.acts[i] = u.acts[cur + 1]
                BY <1>4, <3>1
            <4>2. IsStart(u, cur)
                BY <1>2 DEF WellFormed
            <4> QED BY <4>1, <4>2 DEF IsStart
        <3>3. R[i - 1] = text /\ R[i] = text
            BY <1>3, <1>7, <3>1
        <3>4. Fits(text, v.acts[i]) /\ Performed(text, v.acts[i]) = text
            BY <3>2 DEF Fits, Performed
        <3> QED BY <3>3, <3>4
    <2> QED BY <1>2, <2>1, <2>2, <2>3
<1>10. Replays(R, v, first)
    BY <1>5, <1>6, <1>7, <1>8, <1>9 DEF Replays
<1> QED BY <1>4, <1>7, <1>10 DEF HasReplay

\* Histories that differ in what may join which group replay alike.
LEMMA ReplayStays ==
    ASSUME NEW first, NEW u, NEW v, NEW text, HasReplay(u, text, first),
           WellFormed(u, Chars), SameActions(u, v)
    PROVE  HasReplay(v, text, first)
<1>1. PICK T : Replays(T, u, first) /\ T[u.cur] = text
    BY DEF HasReplay
<1>2. \A i \in 1 .. LastPlace(u) : i \in 1 .. Len(u.acts)
    BY HistoryParts
<1>3. ASSUME NEW i \in 1 .. LastPlace(u)
      PROVE  Fits(T[i - 1], v.acts[i]) /\ T[i] = Performed(T[i - 1], v.acts[i])
    <2>1. Fits(T[i - 1], u.acts[i]) /\ T[i] = Performed(T[i - 1], u.acts[i])
        BY <1>1 DEF Replays
    <2>2. /\ v.acts[i].at = u.acts[i].at /\ v.acts[i].pos = u.acts[i].pos
          /\ v.acts[i].data = u.acts[i].data
        BY <1>2 DEF SameActions
    <2> QED BY <2>1, <2>2 DEF Fits, Performed, PerformRedoStep
<1>4. Replays(T, v, first)
    BY <1>1, <1>3 DEF Replays, SameActions
<1> QED BY <1>1, <1>4 DEF HasReplay, SameActions

(*************************************************************************)
(* Edits and groups of the buffer.                                       *)
(*************************************************************************)

\* An explicit group that is over when an action is appended is not touched; one
\* that is open takes the action in.
LEMMA GroupGrows ==
    ASSUME NEW u, NEW v, NEW k, NEW a, NEW g \in [from : Int, to : Int],
           WellFormed(u, Chars), ExtendsTo(u, v, k, a, Chars), a.at # "start",
           ~Current(u).coal => k = u.cur + 1,
           Current(u).coal /\ u.depth > 0 /\ u.cur > 0 => k = u.cur,
           GoodGroup(u, g)
    PROVE  GoodGroup(v, IF u.cur < g.to THEN NoGroup ELSE g)
<1>1. PICK last \in Nat, cur \in Nat :
          last = LastPlace(u) /\ cur = u.cur /\ cur <= last /\ Len(u.acts) = last + 1
    BY HistoryParts
<1>2. /\ k \in {cur, cur + 1} /\ k \in Nat /\ k > 0
      /\ v.cur = k + 1 /\ v.depth = u.depth /\ Len(v.acts) = k + 2
      /\ \A i \in 1 .. k : v.acts[i] = u.acts[i]
      /\ v.acts[k + 1] = a /\ v.acts[k + 2] = StartAction(TRUE)
    BY <1>1 DEF ExtendsTo
<1>3. LastPlace(v) = k + 1
    BY <1>2 DEF LastPlace
<1>4. /\ \A i \in 0 .. k - 1 : IsStart(v, i) <=> IsStart(u, i)
      /\ ~IsStart(v, k) /\ IsStart(v, k + 1)
    <2>1. \A i \in 0 .. k - 1 : i + 1 \in 1 .. k
        BY <1>2
    <2>2. (k + 1) + 1 = k + 2
        BY <1>2
    <2> QED BY <1>2, <2>1, <2>2 DEF IsStart, StartAction
<1>5. CASE u.cur < g.to
    <2>1. NoGroup.from = None /\ NoGroup.to # Opened
        BY DEF NoGroup, None, Opened
    <2> QED BY <1>5, <2>1 DEF GoodGroup
<1>6. CASE ~(u.cur < g.to) /\ g.to = Opened
    <2>1. v.depth > 0
        BY <1>2, <1>6 DEF GoodGroup
    <2>2. ASSUME g.from # None
          PROVE  Whole(v, g.from, v.cur) /\ v.acts[v.cur + 1].coal /\ v.cur # g.from
        <3>1. /\ g.from \in 0 .. cur /\ IsStart(u, g.from)
              /\ \A i \in g.from + 1 .. cur - 1 : ~IsStart(u, i)
              /\ u.acts[cur + 1].coal <=> cur # g.from
              /\ u.depth > 0
            BY <1>1, <1>6, <2>2 DEF GoodGroup, Whole
        <3>2. /\ cur = g.from => k = cur + 1
              /\ cur # g.from => k = cur
            BY <1>1, <3>1 DEF Current
        <3>3. g.from \in 0 .. k - 1 /\ g.from \in 0 .. k + 1 /\ k + 1 \in 0 .. k + 1 /\ k + 1 # g.from
            BY <1>2, <3>1, <3>2
        <3>4. ASSUME NEW i \in g.from + 1 .. (k + 1) - 1 PROVE ~IsStart(v, i)
            <4>1. i = k \/ (i \in 0 .. k - 1 /\ i \in g.from + 1 .. cur - 1)
                BY <1>2, <3>1, <3>2
            <4> QED BY <1>4, <3>1, <4>1
        <3>5. v.acts[v.cur + 1].coal
            <4>1. (k + 1) + 1 = k + 2
                BY <1>2
            <4> QED BY <1>2, <4>1 DEF StartAction
        <3>6. Whole(v, g.from, v.cur)
            BY <1>2, <1>3, <1>4, <3>1, <3>3, <3>4 DEF Whole
        <3> QED BY <1>2, <3>3, <3>5, <3>6
    <2> QED BY <1>6, <2>1, <2>2 DEF GoodGroup
<1>7. CASE ~(u.cur < g.to) /\ g.to # Opened
    <2>1. ASSUME g.from # None
          PROVE  Whole(v, g.from, g.to) /\ ~v.acts[g.to + 1].coal
        <3>1. /\ g.from \in 0 .. g.to /\ g.to \in 0 .. last
              /\ IsStart(u, g.from) /\ IsStart(u, g.to)
              /\ \A i \in g.from + 1 .. g.to - 1 : ~IsStart(u, i)
              /\ ~u.acts[g.to + 1].coal
            BY <1>1, <1>7, <2>1 DEF GoodGroup, Whole
        <3>2. g.to < cur \/ (g.to = cur /\ k = cur + 1)
            BY <1>1, <1>7, <3>1 DEF Current
        <3>3. g.to \in 0 .. k - 1
            BY <1>2, <3>1, <3>2
        <3>4. g.from \in 0 .. k - 1 /\ g.to \in 0 .. k + 1 /\ g.to + 1 \in 1 .. k
            BY <1>2, <3>1, <3>3
        <3>6. \A i \in g.from + 1 .. g.to - 1 : i \in 0 .. k - 1
            BY <1>2, <3>3, <3>4
        <3>5. Whole(v, g.from, g.to)
            BY <1>3, <1>4, <3>1, <3>3, <3>4, <3>6 DEF Whole
        <3> QED BY <1>2, <3>1, <3>4, <3>5
    <2> QED BY <1>7, <2>1 DEF GoodGroup
<1> QED BY <1>5, <1>6, <1>7

\* An action that is appended extends the history.
LEMMA AppendedExtends ==
    ASSUME NEW u, NEW v, NEW k, NEW a, WellFormed(u, Chars), ExtendsTo(u, v, k, a, Chars),
           a.at # "start", ~Current(u).coal => k = u.cur + 1, Joining(u) => k = u.cur
    PROVE  Extended(u, v)
<1>1. PICK cur \in Nat : cur = u.cur
    BY HistoryParts
<1>2. /\ k \in {cur, cur + 1} /\ k \in Nat /\ k > 0 /\ v.cur = k + 1
      /\ Len(v.acts) = k + 2 /\ \A i \in 1 .. k : v.acts[i] = u.acts[i]
      /\ v.acts[k + 1] = a /\ v.acts[k + 2] = StartAction(TRUE)
      /\ v.save = IF u.cur < u.save THEN -1 ELSE u.save
    BY <1>1 DEF ExtendsTo
<1>3. LastPlace(v) = v.cur /\ v.cur > k
    BY <1>2 DEF LastPlace
<1>4. \A i \in k .. v.cur - 1 : ~IsStart(v, i)
    <2>1. \A i \in k .. v.cur - 1 : i = k
        BY <1>2
    <2> QED BY <1>2, <2>1 DEF IsStart
<1>5. \A i \in 1 .. k : SameAction(v.acts[i], u.acts[i])
    BY <1>2 DEF SameAction
<1>6. Grown(u, v, k)
    BY <1>1, <1>2, <1>3, <1>4, <1>5 DEF Grown
<1>7. Current(v).coal
    <2>1. v.acts[v.cur + 1] = StartAction(TRUE)
        <3>1. v.cur + 1 = k + 2
            BY <1>2
        <3> QED BY <1>2, <3>1
    <2> QED BY <2>1 DEF Current, StartAction
<1> QED BY <1>6, <1>7 DEF Extended

LEMMA SameActionsTwice ==
    ASSUME NEW u, NEW v, NEW x, WellFormed(u, Chars), WellFormed(v, Chars),
           SameActions(u, v), SameActions(v, x)
    PROVE  SameActions(u, x)
<1>1. Len(u.acts) = Len(v.acts)
    BY HistoryParts DEF SameActions
<1> QED BY <1>1 DEF SameActions

\* What extends a history does not depend on what may join it.
LEMMA GrownStays ==
    ASSUME NEW u, NEW u1, NEW v, NEW v1, NEW w,
           WellFormed(u, Chars), WellFormed(u1, Chars), WellFormed(v, Chars), WellFormed(v1, Chars),
           SameActions(u, u1), Grown(u1, v1, w), SameActions(v1, v)
    PROVE  Grown(u, v, w)
<1>1. PICK cur \in Nat, last \in Nat, end \in Nat :
          /\ cur = u.cur /\ cur = u1.cur /\ cur <= last /\ Len(u.acts) = last + 1
          /\ end = v1.cur /\ end = v.cur /\ end = LastPlace(v1) /\ end = LastPlace(v)
          /\ Len(v1.acts) = end + 1
    BY HistoryParts DEF SameActions, Grown
<1>2. w \in {cur, cur + 1} /\ w > 0 /\ end > w
    BY <1>1 DEF Grown
<1>3. \A i \in 1 .. w : SameAction(v.acts[i], u.acts[i])
    <2>1. \A i \in 1 .. w : i \in 1 .. last + 1 /\ i \in 1 .. end + 1
        BY <1>1, <1>2
    <2> QED BY <1>1, <2>1 DEF Grown, SameActions, SameAction
<1>4. \A i \in w .. end - 1 : ~IsStart(v, i)
    <2>1. \A i \in w .. end - 1 : i + 1 \in 1 .. end + 1
        BY <1>1, <1>2
    <2> QED BY <1>1, <2>1 DEF Grown, SameActions, IsStart
<1>5. v.save = IF u.cur < u.save THEN -1 ELSE u.save
    BY DEF Grown, SameActions
<1> QED BY <1>1, <1>2, <1>3, <1>4, <1>5 DEF Grown

\* What follows in an open group is part of it.
LEMMA GrownTwice ==
    ASSUME NEW u, NEW v, NEW x, NEW w, WellFormed(u, Chars), WellFormed(v, Chars),
           WellFormed(x, Chars), Grown(u, v, w), Grown(v, x, v.cur)
    PROVE  Grown(u, x, w)
<1>1. PICK cur \in Nat, mid \in Nat, end \in Nat :
          /\ cur = u.cur /\ mid = v.cur /\ end = x.cur /\ end = LastPlace(x) /\ mid = LastPlace(v)
          /\ w \in {cur, cur + 1} /\ w > 0 /\ mid > w /\ end > mid
    BY HistoryParts DEF Grown
<1>2. \A i \in 1 .. mid : SameAction(x.acts[i], v.acts[i])
    BY <1>1 DEF Grown
<1>3. \A i \in 1 .. w : SameAction(x.acts[i], u.acts[i])
    <2>1. \A i \in 1 .. w : i \in 1 .. mid
        BY <1>1
    <2> QED BY <1>2, <2>1 DEF Grown, SameAction
<1>4. ASSUME NEW i \in w .. end - 1 PROVE ~IsStart(x, i)
    <2>1. CASE i \in w .. mid - 1
        <3>1. i + 1 \in 1 .. mid /\ ~IsStart(v, i)
            BY <1>1, <2>1 DEF Grown
        <3> QED BY <1>2, <3>1 DEF IsStart, SameAction
    <2>2. CASE i \in mid .. end - 1
        BY <1>1, <2>2 DEF Grown
    <2> QED BY <1>1, <2>1, <2>2
<1>5. x.save = IF u.cur < u.save THEN -1 ELSE u.save
    <2>1. v.save <= mid /\ v.save \in Int
        BY <1>1, HistoryParts
    <2>2. x.save = v.save
        BY <1>1, <2>1 DEF Grown
    <2> QED BY <2>2 DEF Grown
<1> QED BY <1>1, <1>3, <1>4, <1>5 DEF Grown

LEMMA ExtendedTwice ==
    ASSUME NEW u, NEW v, NEW x, WellFormed(u, Chars), WellFormed(v, Chars), WellFormed(x, Chars),
           u.depth > 0, v.depth = u.depth, Extended(u, v), Extended(v, x)
    PROVE  Extended(u, x)
<1>1. SameActions(u, u) /\ SameActions(v, v) /\ SameActions(x, x)
    BY DEF SameActions
<1>2. CASE SameActions(u, v) /\ (Current(v).coal <=> Current(u).coal)
    <2>1. v.cur = u.cur /\ (Joining(v) <=> Joining(u))
        BY <1>2 DEF SameActions, Joining
    <2>2. CASE SameActions(v, x) /\ (Current(x).coal <=> Current(v).coal)
        BY <1>2, <2>2, SameActionsTwice DEF Extended
    <2>3. CASE /\ Current(x).coal
               /\ \E w : /\ Grown(v, x, w)
                         /\ ~Current(v).coal => w = v.cur + 1
                         /\ Joining(v) => w = v.cur
        <3>1. PICK w : /\ Grown(v, x, w)
                       /\ ~Current(v).coal => w = v.cur + 1
                       /\ Joining(v) => w = v.cur
            BY <2>3
        <3>2. Grown(u, x, w)
            BY <1>1, <1>2, <3>1, GrownStays
        <3> QED BY <1>2, <2>1, <2>3, <3>1, <3>2 DEF Extended
    <2> QED BY <2>2, <2>3 DEF Extended
<1>3. CASE /\ Current(v).coal
           /\ \E w : /\ Grown(u, v, w)
                     /\ ~Current(u).coal => w = u.cur + 1
                     /\ Joining(u) => w = u.cur
    <2>1. PICK w : /\ Grown(u, v, w)
                   /\ ~Current(u).coal => w = u.cur + 1
                   /\ Joining(u) => w = u.cur
        BY <1>3
    <2>2. Joining(v)
        <3>1. v.cur > w /\ w > 0 /\ v.cur \in Nat /\ w \in Nat
            BY <2>1, HistoryParts DEF Grown
        <3>2. v.cur > 0
            BY <3>1
        <3> QED BY <1>3, <3>2 DEF Joining
    <2>3. CASE SameActions(v, x) /\ (Current(x).coal <=> Current(v).coal)
        <3>1. Grown(u, x, w)
            BY <1>1, <2>1, <2>3, GrownStays
        <3> QED BY <1>3, <2>1, <2>3, <3>1 DEF Extended
    <2>4. CASE /\ Current(x).coal
               /\ \E k : Grown(v, x, k) /\ (Joining(v) => k = v.cur)
        <3>1. Grown(v, x, v.cur)
            BY <2>2, <2>4
        <3>2. Grown(u, x, w)
            BY <2>1, <3>1, GrownTwice
        <3> QED BY <2>1, <2>4, <3>2 DEF Extended
    <2> QED BY <2>3, <2>4 DEF Extended
<1> QED BY <1>2, <1>3 DEF Extended

LEMMA RecordedIs ==
    ASSUME NEW first, NEW b, GoodBuffer(b, first),
           NEW at \in {"insert", "remove"}, NEW pos \in Int, NEW data \in Seq(Chars),
           NEW text \in Seq(Chars),
           Fits(b.text, Action(at, pos, data)),
           Performed(b.text, Action(at, pos, data)) = text
    PROVE  LET c == Recorded([b EXCEPT !.text = text], at, pos, data)
           IN  /\ Edited(b, c, first) /\ c.text = text /\ c.uh.cur > b.uh.cur
               /\ Extended(b.uh, c.uh)
<1> DEFINE c == Recorded([b EXCEPT !.text = text], at, pos, data)
           a == Action(at, pos, data)
           k == AppendedAt(b.uh, at, pos, data)
           v == AppendAction(b.uh, at, pos, data)
           g == IF b.uh.cur < b.group.to THEN NoGroup ELSE b.group
<1>1. /\ WellFormed(b.uh, Chars) /\ HasReplay(b.uh, b.text, first)
      /\ GoodGroup(b.uh, b.group) /\ b \in Buffers
    BY DEF GoodBuffer
<1>2. c = [b EXCEPT !.text = text, !.uh = v, !.group = g]
    BY <1>1 DEF Recorded, Buffers
<1>3. c.text = text /\ c.uh = v /\ c.group = g /\ b.group \in [from : Int, to : Int]
    BY <1>1, <1>2 DEF Buffers
<1>4. ExtendsTo(b.uh, v, k, a, Chars)
    BY <1>1, AppendedIs
<1>5. /\ ~Current(b.uh).coal => k = b.uh.cur + 1
      /\ Current(b.uh).coal /\ b.uh.depth > 0 /\ b.uh.cur > 0 => k = b.uh.cur
    BY <1>1 DEF AppendedAt, StartsSequence, WellFormed
<1>6. a.at # "start"
    BY DEF Action
<1>7. WellFormed(v, Chars)
    BY <1>1, EditKeepsShape
<1> HIDE DEF c, a, k, v, g
<1>8. GoodGroup(v, g)
    BY <1>1, <1>3, <1>4, <1>5, <1>6, GroupGrows DEF g
<1>9. HasReplay(v, text, first)
    BY <1>1, <1>4, ReplayGrows DEF a
<1>10. g \in [from : Int, to : Int]
    BY <1>3 DEF g, NoGroup, None
<1>11. c \in Buffers
    <2>1. v \in Histories
        BY <1>7 DEF WellFormed, Histories
    <2> QED BY <1>1, <1>2, <1>10, <2>1 DEF Buffers
<1>12. GoodBuffer(c, first)
    BY <1>3, <1>7, <1>8, <1>9, <1>11 DEF GoodBuffer
<1>13. v.depth = b.uh.depth /\ v.cur > b.uh.cur
    <2>1. b.uh.cur \in Nat
        BY <1>1, HistoryParts
    <2> QED BY <2>1, <1>4 DEF ExtendsTo
<1>14. b.uh.cur \in Nat /\ v.cur \in Nat
    BY <1>1, <1>7, HistoryParts
<1>15. Extended(b.uh, v)
    <2>1. Joining(b.uh) => k = b.uh.cur
        BY <1>5 DEF Joining
    <2> QED BY <1>1, <1>4, <1>5, <1>6, <2>1, AppendedExtends
<1>16. Edited(b, c, first)
    BY <1>3, <1>12, <1>13, <1>14, <1>15 DEF Edited
<1> QED BY <1>3, <1>13, <1>15, <1>16 DEF c

LEMMA EditedOnce ==
    ASSUME NEW first, NEW b, GoodBuffer(b, first)
    PROVE  Edited(b, b, first) /\ Extended(b.uh, b.uh)
<1>1. b.uh.cur \in Nat
    BY HistoryParts DEF GoodBuffer
<1>2. Extended(b.uh, b.uh)
    BY DEF Extended, SameActions
<1> QED BY <1>1, <1>2 DEF Edited

LEMMA EditedTwice ==
    ASSUME NEW first, NEW b, NEW c, NEW d, GoodBuffer(b, first),
           Edited(b, c, first), Edited(c, d, first)
    PROVE  Edited(b, d, first)
<1>1. b.uh.cur \in Nat /\ c.uh.cur \in Nat /\ d.uh.cur \in Nat
    BY HistoryParts DEF GoodBuffer, Edited
<1>2. WellFormed(b.uh, Chars) /\ WellFormed(c.uh, Chars) /\ WellFormed(d.uh, Chars)
    BY DEF GoodBuffer, Edited
<1>3. ASSUME b.uh.depth > 0 PROVE Extended(b.uh, d.uh)
    <2>1. c.uh.depth = b.uh.depth /\ Extended(b.uh, c.uh) /\ Extended(c.uh, d.uh)
        BY <1>3 DEF Edited
    <2> QED BY <1>2, <1>3, <2>1, ExtendedTwice
<1> QED BY <1>1, <1>3 DEF Edited

LEMMA InsertStringIs ==
    ASSUME NEW first, NEW b, GoodBuffer(b, first), NEW s \in Seq(Chars),
           NEW pos \in 0 .. Len(b.text)
    PROVE  /\ Edited(b, InsertString(b, pos, s), first)
           /\ Extended(b.uh, InsertString(b, pos, s).uh)
           /\ InsertString(b, pos, s).text = Inserted(b.text, pos, s)
           /\ InsertString(b, pos, s).text \in Seq(Chars)
           /\ Len(InsertString(b, pos, s).text) = Len(b.text) + Len(s)
<1>1. b.text \in Seq(Chars)
    BY DEF GoodBuffer, Buffers
<1> DEFINE text == Inserted(b.text, pos, s)
<1>2. PutIn(text, b.text, pos, s, Chars)
    BY <1>1, InsertedIs
<1>5. text \in Seq(Chars) /\ Len(text) = Len(b.text) + Len(s)
    BY <1>2 DEF PutIn
<1>3. CASE s = <<>>
    <2>1. text = b.text
        <3>1. PICK n \in Nat : n = Len(b.text)
            BY <1>1, SequenceOf
        <3>2. Len(s) = 0 /\ Len(text) = n
            BY <1>3, <1>5, <3>1
        <3> HIDE DEF text
        <3>3. ASSUME NEW i \in 1 .. n PROVE text[i] = b.text[i]
            <4>1. i \in 1 .. n + 0 /\ n + 0 = n /\ i - 0 = i /\ pos + 0 = pos
                BY <3>1
            <4> QED BY <1>2, <3>1, <3>2, <4>1 DEF PutIn
        <3> QED BY <1>1, <1>5, <3>1, <3>2, <3>3, SeqEqual
    <2>2. InsertString(b, pos, s) = b
        BY <1>3 DEF InsertString
    <2>3. Edited(b, b, first) /\ Extended(b.uh, b.uh)
        BY EditedOnce
    <2> QED BY <1>5, <2>1, <2>2, <2>3
<1>4. CASE s # <<>>
    <2> DEFINE a == Action("insert", pos, s)
    <2>1. InsertString(b, pos, s) = Recorded([b EXCEPT !.text = text], "insert", pos, s)
        BY <1>4 DEF InsertString
    <2>2. a.at = "insert" /\ a.pos = pos /\ a.data = s /\ pos \in Int
        BY DEF Action
    <2> HIDE DEF a
    <2>3. Fits(b.text, a)
        BY <2>2 DEF Fits
    <2>4. Performed(b.text, a) = text
        BY <2>2 DEF Performed, PerformRedoStep
    <2> HIDE DEF text
    <2>5. LET c == Recorded([b EXCEPT !.text = text], "insert", pos, s)
          IN  Edited(b, c, first) /\ c.text = text /\ Extended(b.uh, c.uh)
        BY <1>5, <2>2, <2>3, <2>4, RecordedIs DEF a
    <2> QED BY <1>5, <2>1, <2>5 DEF text
<1> QED BY <1>3, <1>4

LEMMA DeleteCharsIs ==
    ASSUME NEW first, NEW b, GoodBuffer(b, first), NEW pos \in Nat, NEW len \in Nat,
           pos + len <= Len(b.text)
    PROVE  /\ Edited(b, DeleteChars(b, pos, len), first)
           /\ Extended(b.uh, DeleteChars(b, pos, len).uh)
           /\ DeleteChars(b, pos, len).text = Deleted(b.text, pos, len)
           /\ DeleteChars(b, pos, len).text \in Seq(Chars)
           /\ Len(DeleteChars(b, pos, len).text) = Len(b.text) - len
<1>1. b.text \in Seq(Chars)
    BY DEF GoodBuffer, Buffers
<1> DEFINE text == Deleted(b.text, pos, len)
           data == SubSeq(b.text, pos + 1, pos + len)
<1>2. TakenOut(text, b.text, pos, len, Chars)
    BY <1>1, DeletedIs
<1>5. text \in Seq(Chars) /\ Len(text) = Len(b.text) - len
    BY <1>2 DEF TakenOut
<1>3. CASE len = 0
    <2>1. text = b.text
        <3>1. PICK n \in Nat : n = Len(b.text)
            BY <1>1, SequenceOf
        <3>2. Len(text) = n
            BY <1>3, <1>5, <3>1
        <3> HIDE DEF text
        <3>3. ASSUME NEW i \in 1 .. n PROVE text[i] = b.text[i]
            <4>1. i \in 1 .. n - 0 /\ n - 0 = n /\ i + 0 = i
                BY <3>1
            <4> QED BY <1>2, <1>3, <3>1, <4>1 DEF TakenOut
        <3> QED BY <1>1, <1>5, <3>1, <3>2, <3>3, SeqEqual
    <2>2. DeleteChars(b, pos, len) = b
        BY <1>3 DEF DeleteChars
    <2>3. Edited(b, b, first) /\ Extended(b.uh, b.uh)
        BY EditedOnce
    <2> QED BY <1>5, <2>1, <2>2, <2>3
<1>4. CASE len # 0
    <2> DEFINE a == Action("remove", pos, data)
    <2>1. DeleteChars(b, pos, len) = Recorded([b EXCEPT !.text = text], "remove", pos, data)
        BY <1>4 DEF DeleteChars
    <2>2. a.at = "remove" /\ a.pos = pos /\ a.data = data /\ pos \in Int
        BY DEF Action
    <2>3. data \in Seq(Chars) /\ Len(data) = len
        BY <1>1, DeletedInserted
    <2> HIDE DEF a, text
    <2>4. Fits(b.text, a)
        <3> HIDE DEF data
        <3>1. a.data = SubSeq(b.text, a.pos + 1, a.pos + Len(a.data))
            BY <2>2, <2>3 DEF data
        <3> QED BY <2>2, <2>3, <3>1 DEF Fits
    <2> HIDE DEF data
    <2>5. Performed(b.text, a) = text
        BY <2>2, <2>3 DEF Performed, PerformRedoStep, text
    <2>6. LET c == Recorded([b EXCEPT !.text = text], "remove", pos, data)
          IN  Edited(b, c, first) /\ c.text = text /\ Extended(b.uh, c.uh)
        BY <1>5, <2>2, <2>3, <2>4, <2>5, RecordedIs DEF a
    <2> QED BY <1>5, <2>1, <2>6 DEF text
<1> QED BY <1>3, <1>4

LEMMA WholeStays ==
    ASSUME NEW u, NEW v, WellFormed(u, Chars), SameActions(u, v), NEW from \in Int, NEW to \in Int
    PROVE  Whole(v, from, to) <=> Whole(u, from, to)
<1>1. PICK last \in Nat :
          last = LastPlace(u) /\ last = LastPlace(v) /\ Len(u.acts) = last + 1
    BY HistoryParts DEF SameActions
<1>2. \A i \in 0 .. last : IsStart(v, i) <=> IsStart(u, i)
    <2>1. \A i \in 0 .. last : i + 1 \in 1 .. last + 1
        OBVIOUS
    <2> QED BY <1>1, <2>1 DEF SameActions, IsStart
<1>3. ASSUME from \in 0 .. to, to \in 0 .. last
      PROVE  /\ IsStart(v, from) <=> IsStart(u, from)
             /\ IsStart(v, to) <=> IsStart(u, to)
             /\ \A i \in from + 1 .. to - 1 : IsStart(v, i) <=> IsStart(u, i)
    <2>1. from \in 0 .. last /\ \A i \in from + 1 .. to - 1 : i \in 0 .. last
        BY <1>1, <1>3
    <2> QED BY <1>2, <1>3, <2>1
<1> QED BY <1>1, <1>3 DEF Whole

\* What Begin and End leave as it is.
SameText(b, c) == c.text = b.text /\ SameActions(b.uh, c.uh)

\* What comes next cannot join what was before v, if f; else if it could before.
Fenced(f, u, v) == Current(v).coal <=> ~f /\ Current(u).coal

\* A buffer with the same actions but other groups.
LEMMA Regrouped ==
    ASSUME NEW first, NEW b, GoodBuffer(b, first), NEW v, NEW g \in [from : Int, to : Int],
           WellFormed(v, Chars), SameActions(b.uh, v), GoodGroup(v, g)
    PROVE  LET c == [b EXCEPT !.uh = v, !.group = g]
           IN  GoodBuffer(c, first) /\ SameText(b, c)
<1> DEFINE c == [b EXCEPT !.uh = v, !.group = g]
<1>1. /\ WellFormed(b.uh, Chars) /\ HasReplay(b.uh, b.text, first) /\ b \in Buffers
    BY DEF GoodBuffer
<1>2. c.text = b.text /\ c.uh = v /\ c.group = g
    BY <1>1 DEF Buffers
<1>3. c \in Buffers
    <2>1. v \in Histories
        BY DEF WellFormed, Histories
    <2> QED BY <1>1, <2>1 DEF Buffers
<1> HIDE DEF c
<1>4. HasReplay(v, b.text, first)
    BY <1>1, ReplayStays
<1> QED BY <1>2, <1>3, <1>4 DEF GoodBuffer, SameText, c

LEMMA BeginIs ==
    ASSUME NEW first, NEW b, GoodBuffer(b, first)
    PROVE  /\ GoodBuffer(Begin(b), first) /\ SameText(b, Begin(b))
           /\ Begin(b).uh.depth = b.uh.depth + 1
           /\ Fenced(b.uh.depth = 0, b.uh, Begin(b).uh)
<1> DEFINE u == b.uh
           w == IF u.depth = 0 THEN Fence(u) ELSE u
           v == BeginUndoAction(u)
           g == IF u.depth = 0 THEN [from |-> u.cur, to |-> Opened] ELSE b.group
<1>1. /\ WellFormed(u, Chars) /\ b \in Buffers /\ GoodGroup(u, b.group)
    BY DEF GoodBuffer
<1>2. u.depth \in Nat /\ u.cur \in Nat /\ b.group \in [from : Int, to : Int]
    BY <1>1 DEF WellFormed, Buffers
<1>3. Begin(b) = [b EXCEPT !.uh = v, !.group = g]
    BY <1>1 DEF Begin, Buffers
<1>4. w.depth = u.depth /\ SameActions(u, w) /\ WellFormed(w, Chars)
    <2>1. SameActions(u, u)
        BY DEF SameActions
    <2>2. Fence(u).depth = u.depth /\ SameActions(u, Fence(u)) /\ WellFormed(Fence(u), Chars)
        BY <1>1, FenceKeepsShape
    <2> QED BY <1>1, <2>1, <2>2
<1>5. v = [w EXCEPT !.depth = u.depth + 1] /\ v.depth = u.depth + 1 /\ v.acts = w.acts
      /\ v.cur = u.cur
    BY <1>1, <1>4 DEF BeginUndoAction, WellFormed, SameActions
<1>6. SameActions(u, v)
    <2>1. v.cur = w.cur /\ v.save = w.save /\ v.acts = w.acts
        BY <1>4, <1>5 DEF WellFormed
    <2> HIDE DEF v, w, u
    <2> QED BY <1>4, <2>1 DEF SameActions, LastPlace
<1>7. WellFormed(v, Chars)
    BY <1>1, GroupsKeepShape
<1>8. g \in [from : Int, to : Int]
    BY <1>2 DEF Opened
<1>9. GoodGroup(v, g)
    <2>1. CASE u.depth = 0
        <3>1. w = Fence(u) /\ g.from = u.cur /\ g.to = Opened
            BY <2>1
        <3>2. u.cur + 1 \in 1 .. Len(u.acts)
            BY <1>1, HistoryParts
        <3>3. ~v.acts[v.cur + 1].coal
            <4>1. \A i \in 1 .. Len(u.acts) :
                      Fence(u).acts[i].coal <=> i # u.cur + 1 /\ u.acts[i].coal
                BY <1>1, FenceKeepsShape
            <4>2. v.acts = Fence(u).acts /\ v.cur = u.cur
                BY <1>5, <3>1
            <4> HIDE DEF v, w, u, g
            <4> QED BY <3>2, <4>1, <4>2
        <3>4. Whole(u, u.cur, u.cur)
            <4>1. u.cur \in 0 .. u.cur /\ u.cur \in 0 .. LastPlace(u) /\ IsStart(u, u.cur)
                  /\ (u.cur + 1 .. u.cur - 1) = {}
                BY <1>1, <1>2, HistoryParts DEF WellFormed
            <4> QED BY <4>1 DEF Whole
        <3>5. Whole(v, g.from, v.cur)
            BY <1>1, <1>2, <1>5, <1>6, <3>1, <3>4, WholeStays
        <3>6. v.depth > 0
            BY <1>2, <1>5
        <3> HIDE DEF v, w, u, g
        <3> QED BY <1>5, <3>1, <3>3, <3>5, <3>6 DEF GoodGroup
    <2>2. CASE u.depth # 0
        <3>1. w = u /\ g = b.group /\ v.acts = u.acts /\ v.cur = u.cur
            BY <1>5, <2>2
        <3>2. u.depth > 0 /\ v.depth > 0
            BY <1>2, <1>5, <2>2
        <3>3. \A from, to : Whole(v, from, to) <=> Whole(u, from, to)
            BY <3>1 DEF Whole, LastPlace, IsStart
        <3> HIDE DEF v, w, u, g
        <3> QED BY <1>1, <3>1, <3>2, <3>3 DEF GoodGroup
    <2> QED BY <2>1, <2>2
<1>11. Fenced(u.depth = 0, u, v)
    <2>1. u.cur + 1 \in 1 .. Len(u.acts)
        BY <1>1, HistoryParts
    <2>2. \A i \in 1 .. Len(u.acts) : Fence(u).acts[i].coal <=> i # u.cur + 1 /\ u.acts[i].coal
        BY <1>1, FenceKeepsShape
    <2>3. u.depth = 0 => v.acts = Fence(u).acts
        BY <1>5
    <2>4. u.depth # 0 => v.acts = u.acts
        BY <1>5
    <2>5. v.cur = u.cur
        BY <1>5
    <2> HIDE DEF v, w, u, g
    <2> QED BY <2>1, <2>2, <2>3, <2>4, <2>5 DEF Fenced, Current
<1> HIDE DEF v, g, w
<1>10. LET c == [b EXCEPT !.uh = v, !.group = g]
       IN  GoodBuffer(c, first) /\ SameText(b, c) /\ c.uh = v
    <2>1. LET c == [b EXCEPT !.uh = v, !.group = g]
          IN  GoodBuffer(c, first) /\ SameText(b, c)
        BY <1>6, <1>7, <1>8, <1>9, Regrouped
    <2> QED BY <1>1, <2>1 DEF Buffers
<1> QED BY <1>3, <1>5, <1>10, <1>11

LEMMA EndIs ==
    ASSUME NEW first, NEW b, GoodBuffer(b, first), b.uh.depth > 0
    PROVE  /\ GoodBuffer(End(b), first) /\ SameText(b, End(b))
           /\ End(b).uh.depth = b.uh.depth - 1
           /\ Fenced(b.uh.depth = 1, b.uh, End(b).uh)
<1> DEFINE u == b.uh
           w == IF u.depth = 1 THEN Fence(u) ELSE u
           v == EndUndoAction(u)
           g == [b.group EXCEPT !.to = IF u.depth = 1 /\ b.group.to = Opened
                                       THEN u.cur ELSE b.group.to]
<1>1. /\ WellFormed(u, Chars) /\ b \in Buffers /\ GoodGroup(u, b.group)
    BY DEF GoodBuffer
<1>2. u.depth \in Nat /\ u.cur \in Nat /\ b.group \in [from : Int, to : Int]
    BY <1>1 DEF WellFormed, Buffers
<1>3. End(b) = [b EXCEPT !.uh = v, !.group = g]
    BY <1>1 DEF End, Buffers
<1>4. w.depth = u.depth /\ SameActions(u, w) /\ WellFormed(w, Chars)
    <2>1. SameActions(u, u)
        BY DEF SameActions
    <2>2. Fence(u).depth = u.depth /\ SameActions(u, Fence(u)) /\ WellFormed(Fence(u), Chars)
        BY <1>1, FenceKeepsShape
    <2> QED BY <1>1, <2>1, <2>2
<1>5. v = [w EXCEPT !.depth = u.depth - 1] /\ v.depth = u.depth - 1 /\ v.acts = w.acts
      /\ v.cur = u.cur
    BY <1>1, <1>4 DEF EndUndoAction, WellFormed, SameActions
<1>6. SameActions(u, v)
    <2>1. v.cur = w.cur /\ v.save = w.save /\ v.acts = w.acts
        BY <1>4, <1>5 DEF WellFormed
    <2> HIDE DEF v, w, u
    <2> QED BY <1>4, <2>1 DEF SameActions, LastPlace
<1>7. WellFormed(v, Chars)
    BY <1>1, GroupsKeepShape
<1>8. /\ g \in [from : Int, to : Int] /\ g.from = b.group.from
      /\ g.to = IF u.depth = 1 /\ b.group.to = Opened THEN u.cur ELSE b.group.to
    BY <1>2
<1>9. GoodGroup(v, g)
    <2>1. CASE u.depth = 1
        <3>1. w = Fence(u)
            BY <2>1
        <3>2. u.cur + 1 \in 1 .. Len(u.acts)
            BY <1>1, HistoryParts
        <3>3. \A i \in 1 .. Len(u.acts) : v.acts[i].coal <=> i # u.cur + 1 /\ u.acts[i].coal
            <4>1. \A i \in 1 .. Len(u.acts) :
                      Fence(u).acts[i].coal <=> i # u.cur + 1 /\ u.acts[i].coal
                BY <1>1, FenceKeepsShape
            <4>2. v.acts = Fence(u).acts
                BY <1>5, <3>1
            <4> QED BY <4>1, <4>2
        <3>4. g.to # Opened
            BY <1>2, <1>8, <2>1 DEF Opened
        <3>5. ASSUME g.from # None
              PROVE  Whole(v, g.from, g.to) /\ ~v.acts[g.to + 1].coal
            <4>1. CASE b.group.to = Opened
                <5>1. g.to = u.cur /\ Whole(u, g.from, u.cur)
                    BY <1>1, <1>8, <2>1, <3>5, <4>1 DEF GoodGroup
                <5>2. Whole(v, g.from, g.to)
                    <6>1. g.from \in Int /\ g.to \in Int
                        BY <1>8
                    <6> HIDE DEF v, w, u, g
                    <6> QED BY <1>1, <1>6, <5>1, <6>1, WholeStays
                <5> QED BY <3>2, <3>3, <5>1, <5>2
            <4>2. CASE b.group.to # Opened
                <5>1. g.to = b.group.to /\ Whole(u, g.from, g.to) /\ ~u.acts[g.to + 1].coal
                    BY <1>1, <1>8, <3>5, <4>2 DEF GoodGroup
                <5>2. g.to + 1 \in 1 .. Len(u.acts)
                    <6>1. g.to \in 0 .. LastPlace(u)
                        BY <5>1 DEF Whole
                    <6> HIDE DEF v, w, u, g
                    <6> QED BY <1>1, <6>1, HistoryParts
                <5>3. Whole(v, g.from, g.to)
                    <6>1. g.from \in Int /\ g.to \in Int
                        BY <1>8
                    <6> HIDE DEF v, w, u, g
                    <6> QED BY <1>1, <1>6, <5>1, <6>1, WholeStays
                <5> QED BY <3>3, <5>1, <5>2, <5>3
            <4> QED BY <4>1, <4>2
        <3> HIDE DEF v, w, u, g
        <3> QED BY <3>4, <3>5 DEF GoodGroup
    <2>2. CASE u.depth # 1
        <3>1. w = u /\ v.acts = u.acts /\ v.cur = u.cur
            BY <1>5, <2>2
        <3>2. u.depth > 0 /\ v.depth > 0
            BY <1>2, <1>5, <2>2
        <3>3. \A from, to : Whole(v, from, to) <=> Whole(u, from, to)
            BY <3>1 DEF Whole, LastPlace, IsStart
        <3>4. g.from = b.group.from /\ g.to = b.group.to
            BY <1>8, <2>2
        <3> HIDE DEF v, w, u, g
        <3> QED BY <1>1, <3>1, <3>2, <3>3, <3>4 DEF GoodGroup
    <2> QED BY <2>1, <2>2
<1>11. Fenced(u.depth = 1, u, v)
    <2>1. u.cur + 1 \in 1 .. Len(u.acts)
        BY <1>1, HistoryParts
    <2>2. \A i \in 1 .. Len(u.acts) : Fence(u).acts[i].coal <=> i # u.cur + 1 /\ u.acts[i].coal
        BY <1>1, FenceKeepsShape
    <2>3. u.depth = 1 => v.acts = Fence(u).acts
        BY <1>5
    <2>4. u.depth # 1 => v.acts = u.acts
        BY <1>5
    <2>5. v.cur = u.cur
        BY <1>5
    <2> HIDE DEF v, w, u, g
    <2> QED BY <2>1, <2>2, <2>3, <2>4, <2>5 DEF Fenced, Current
<1> HIDE DEF v, g, w
<1>10. LET c == [b EXCEPT !.uh = v, !.group = g]
       IN  GoodBuffer(c, first) /\ SameText(b, c) /\ c.uh = v
    <2>1. LET c == [b EXCEPT !.uh = v, !.group = g]
          IN  GoodBuffer(c, first) /\ SameText(b, c)
        BY <1>6, <1>7, <1>8, <1>9, Regrouped
    <2> QED BY <1>1, <2>1 DEF Buffers
<1> QED BY <1>3, <1>5, <1>10, <1>11

\* What a change within a group of its own is, if no group was open: nothing, or a
\* group that nothing joins.
Apart(u, v) ==
    u.depth = 0 => ~Current(v).coal /\ (SameActions(u, v) \/ Grown(u, v, u.cur + 1))

LEMMA Enclosed ==
    ASSUME NEW first, NEW b, GoodBuffer(b, first), NEW c, Edited(Begin(b), c, first)
    PROVE  Edited(b, End(c), first) /\ Apart(b.uh, End(c).uh) /\ End(c).text = c.text
<1> DEFINE u == b.uh
           u1 == Begin(b).uh
           v1 == c.uh
           v == End(c).uh
<1>1. /\ u1.depth = u.depth + 1 /\ SameText(b, Begin(b)) /\ GoodBuffer(Begin(b), first)
      /\ Fenced(u.depth = 0, u, u1)
    BY BeginIs
<1>2. PICK depth \in Nat : depth = u.depth
    BY HistoryParts DEF GoodBuffer
<1>3. /\ GoodBuffer(c, first) /\ v1.depth = depth + 1 /\ v1.cur >= u.cur
      /\ v1.cur = u.cur => v1.save = u.save
    BY <1>1, <1>2 DEF Edited, SameText, SameActions
<1>4. v1.depth > 0 /\ v1.depth - 1 = depth /\ (v1.depth = 1 <=> u.depth = 0)
    BY <1>2, <1>3
<1>5. /\ GoodBuffer(End(c), first) /\ SameText(c, End(c)) /\ v.depth = depth
      /\ Fenced(v1.depth = 1, v1, v)
    BY <1>3, <1>4, EndIs
<1>6. Extended(u1, v1)
    BY <1>1, <1>2 DEF Edited
<1>7. /\ SameActions(u, u1) /\ SameActions(v1, v) /\ WellFormed(u, Chars)
      /\ WellFormed(u1, Chars) /\ WellFormed(v1, Chars) /\ WellFormed(v, Chars)
    BY <1>1, <1>3, <1>5 DEF SameText, GoodBuffer
<1>8. v.cur >= u.cur /\ (v.cur = u.cur => v.save = u.save)
    BY <1>3, <1>7 DEF SameActions
<1>9. u1.cur = u.cur
    BY <1>7 DEF SameActions
<1> HIDE DEF u, u1, v1, v
<1>10. SameActions(u1, v1) => SameActions(u, v)
    <2>1. SameActions(u1, v1) => SameActions(u, v1)
        BY <1>7, SameActionsTwice
    <2> QED BY <1>7, <2>1, SameActionsTwice
<1>11. \A w : Grown(u1, v1, w) => Grown(u, v, w)
    BY <1>7, GrownStays
<1>12. ASSUME u.depth > 0 PROVE Extended(u, v)
    <2>1. (Current(u1).coal <=> Current(u).coal) /\ (Current(v).coal <=> Current(v1).coal)
        BY <1>1, <1>2, <1>4, <1>5, <1>12 DEF Fenced
    <2>2. Joining(u) => Joining(u1)
        BY <1>1, <1>2, <1>9, <2>1 DEF Joining
    <2> QED BY <1>6, <1>9, <1>10, <1>11, <2>1, <2>2 DEF Extended
<1>13. Apart(u, v)
    <2>1. ASSUME u.depth = 0 PROVE ~Current(v).coal /\ ~Current(u1).coal
        BY <1>1, <1>4, <1>5, <2>1 DEF Fenced
    <2> QED BY <1>6, <1>9, <1>10, <1>11, <2>1 DEF Extended, Apart
<1>14. Edited(b, End(c), first)
    BY <1>2, <1>5, <1>8, <1>12 DEF Edited, u, v
<1> QED BY <1>5, <1>13, <1>14 DEF SameText, u, v

(*************************************************************************)
(* Line ends are converted one after the other.                          *)
(*************************************************************************)

LEMMA EolIs ==
    ASSUME NEW eol \in EolModes
    PROVE  /\ eol \in Seq(Chars)
           /\ eol # CRLF => Len(eol) = 1
<1>1. CASE eol = CRLF
    <2>1. <<CR, LF>> \in Seq(Chars)
        <3>1. CR \in Chars /\ LF \in Chars
            BY DEF Chars
        <3> HIDE DEF Chars
        <3> QED BY <3>1, Pair
    <2> QED BY <1>1, <2>1 DEF CRLF
<1>2. CASE eol = <<CR>>
    <2>1. CR \in Chars
        BY DEF Chars
    <2> QED BY <1>2, <2>1
<1>3. CASE eol = <<LF>>
    <2>1. LF \in Chars
        BY DEF Chars
    <2> QED BY <1>3, <2>1
<1> QED BY <1>1, <1>2, <1>3 DEF EolModes

\* Rewriting one line end is an edit, and takes away one character at most.
LEMMA ConvertEndIs ==
    ASSUME NEW first, NEW b, GoodBuffer(b, first), NEW p \in Nat, p < Len(b.text),
           NEW end, end = CRLF => p + 2 <= Len(b.text), NEW eol \in EolModes
    PROVE  /\ Edited(b, ConvertEnd(b, p, end, eol), first)
           /\ Len(ConvertEnd(b, p, end, eol).text) >= Len(b.text) - 1
<1> DEFINE c == ConvertEnd(b, p, end, eol)
<1>1. PICK n \in Nat : n = Len(b.text)
    BY SequenceOf DEF GoodBuffer, Buffers
<1>2. CASE end = eol
    <2>1. c = b
        BY <1>2 DEF ConvertEnd
    <2> QED BY <1>1, <2>1, EditedOnce
<1>3. CASE end # eol /\ end = CRLF
    <2>1. PICK q \in {p, p + 1} : c = DeleteChars(b, q, 1)
        BY <1>3 DEF ConvertEnd
    <2>2. q \in Nat /\ q + 1 <= n /\ 1 \in Nat
        BY <1>1, <1>3, <2>1
    <2>3. Edited(b, c, first) /\ Len(c.text) = n - 1
        BY <1>1, <2>1, <2>2, DeleteCharsIs
    <2> QED BY <1>1, <2>3
<1>4. CASE end # eol /\ end # CRLF /\ eol = CRLF
    <2>1. /\ <<CR>> \in Seq(Chars) /\ <<LF>> \in Seq(Chars)
          /\ Len(<<CR>>) = 1 /\ Len(<<LF>>) = 1
        BY EolIs DEF EolModes, Chars
    <2>2. PICK q \in {p, p + 1}, s \in {<<CR>>, <<LF>>} : c = InsertString(b, q, s)
        BY <1>4 DEF ConvertEnd
    <2>3. q \in 0 .. n
        BY <1>1, <2>2
    <2>5. s \in Seq(Chars) /\ Len(s) = 1
        BY <2>1, <2>2
    <2>4. /\ Edited(b, InsertString(b, q, s), first)
          /\ Len(InsertString(b, q, s).text) = n + Len(s)
        BY <1>1, <2>3, <2>5, InsertStringIs
    <2>6. Edited(b, c, first) /\ Len(c.text) = n + 1
        BY <2>2, <2>4, <2>5
    <2> QED BY <1>1, <2>6
<1>5. CASE end # eol /\ end # CRLF /\ eol # CRLF
    <2> DEFINE d == InsertString(b, p, eol)
    <2>1. c = DeleteChars(d, p + 1, 1)
        BY <1>5 DEF ConvertEnd
    <2>2. p \in 0 .. n /\ eol \in Seq(Chars) /\ Len(eol) = 1
        BY <1>1, <1>5, EolIs
    <2>3. Edited(b, d, first) /\ Len(d.text) = n + 1
        BY <1>1, <2>2, InsertStringIs
    <2> HIDE DEF d
    <2>4. GoodBuffer(d, first) /\ p + 1 \in Nat /\ 1 \in Nat /\ p + 1 + 1 <= Len(d.text)
        BY <1>1, <2>3 DEF Edited
    <2>5. Edited(d, c, first) /\ Len(c.text) = n + 1 - 1
        BY <2>1, <2>3, <2>4, DeleteCharsIs
    <2>6. Edited(b, c, first)
        BY <2>3, <2>5, EditedTwice
    <2> QED BY <1>1, <2>5, <2>6
<1> QED BY <1>2, <1>3, <1>4, <1>5

\* One character of the text after the other is looked at; h[i] is the buffer after i.
Converts(h, b, eol, first) ==
    /\ h[0] = Begin(b) /\ ConvertLineEnds(b, eol) = End(h[Len(b.text)])
    /\ \A i \in 0 .. Len(b.text) : Edited(Begin(b), h[i], first)
    /\ \A i \in 0 .. Len(b.text) - 1 : h[i + 1] = Convert(h[i], b.text, i, eol)

LEMMA ConversionPasses ==
    ASSUME NEW first, NEW b, GoodBuffer(b, first), NEW eol \in EolModes
    PROVE  \E h : Converts(h, b, eol, first)
<1> DEFINE t == b.text
           begun == Begin(b)
           seq == [i \in DOMAIN b.text |-> i - 1]
           con == [text |-> b.text, eol |-> eol]
<1>1. PICK n \in Nat : n = Len(t) /\ DOMAIN t = 1 .. n
    BY SequenceOf DEF GoodBuffer, Buffers
<1>2. /\ GoodBuffer(begun, first) /\ begun.uh.depth = b.uh.depth + 1
      /\ begun.text = t
    BY BeginIs DEF SameText
<1>3. ConvertLineEnds(b, eol) = End(Conversion!Left(con, begun, seq))
    BY DEF ConvertLineEnds, Conversion!Left, Conversion!IterLeft, FoldLeft, MapThenFoldSet,
           ConvertOp, Conversion!Max, Max
<1>4. DOMAIN seq = 1 .. n /\ \A i \in 1 .. n : seq[i] = i - 1
    BY <1>1
<1>5. con.text = t /\ con.eol = eol
    OBVIOUS
<1> HIDE DEF seq, con, begun, t
<1>6. PICK h : Conversion!PassesLeft(h, con, begun, seq, n)
    BY <1>4, Conversion!FoldLeftPasses
<1>7. /\ h[0] = begun /\ h[n] = Conversion!Left(con, begun, seq)
      /\ \A i \in 1 .. n : h[i] = Convert(h[i - 1], t, i - 1, eol)
    BY <1>4, <1>5, <1>6 DEF Conversion!PassesLeft, ConvertOp
<1> DEFINE Good(i) == /\ Edited(begun, h[i], first)
                      /\ Len(h[i].text) \in Nat
                      /\ Len(h[i].text) - n + i >= 0
           T == {i \in 0 .. n : Good(i)}
<1>8. 0 \in T
    <2>1. Edited(begun, begun, first)
        BY <1>2, EditedOnce
    <2> QED BY <1>1, <1>2, <1>7, <2>1
<1>9. ASSUME NEW i \in 0 .. n - 1, i \in T PROVE i + 1 \in T
    <2>1. PICK len \in Nat :
              len = Len(h[i].text) /\ len - n + i >= 0 /\ Edited(begun, h[i], first)
        BY <1>9
    <2>6. i \in Int /\ n \in Int /\ len - n + i >= 0
        BY <2>1
    <2>7. len - n + (i + 1) >= 0
        BY <2>6
    <2> DEFINE p == i + len - n
    <2>2. i + 1 \in 1 .. n /\ (i + 1) - 1 = i /\ p \in Nat /\ p < len
        BY <2>1
    <2>3. h[i + 1] = Convert(h[i], t, i, eol)
        <3>1. h[i + 1] = Convert(h[(i + 1) - 1], t, (i + 1) - 1, eol)
            BY <1>7, <2>2
        <3> QED BY <2>2, <3>1
    <2>4. CASE i \notin LineEnds(t)
        <3>1. h[i + 1] = h[i]
            BY <2>3, <2>4 DEF Convert
        <3> QED BY <2>1, <2>2, <2>7, <3>1
    <2>5. CASE i \in LineEnds(t)
        <3>1. h[i + 1] = ConvertEnd(h[i], p, EndAt(t, i), eol)
            BY <1>1, <2>1, <2>3, <2>5 DEF Convert
        <3>2. EndAt(t, i) = CRLF => p + 2 <= len
            <4>1. ASSUME EndAt(t, i) = CRLF PROVE i + 1 \in 0 .. n - 1
                <5>1. CASE CharAt(t, i + 1) = LF
                    BY <1>1, <2>2, <5>1 DEF CharAt, LF
                <5>2. CASE CharAt(t, i + 1) # LF
                    <6>1. EndAt(t, i) = <<CharAt(t, i)>>
                        BY <5>2 DEF EndAt
                    <6>2. Len(<<CharAt(t, i)>>) = 1 /\ Len(<<CR, LF>>) = 2
                        OBVIOUS
                    <6> QED BY <4>1, <6>1, <6>2 DEF CRLF
                <5> QED BY <5>1, <5>2
            <4> QED BY <2>1, <4>1
        <3>3. GoodBuffer(h[i], first)
            BY <2>1 DEF Edited
        <3> HIDE DEF p
        <3>4. /\ Edited(h[i], h[i + 1], first)
              /\ Len(h[i + 1].text) >= len - 1
            BY <2>1, <2>2, <3>1, <3>2, <3>3, ConvertEndIs
        <3>5. Edited(begun, h[i + 1], first)
            BY <1>2, <2>1, <3>4, EditedTwice
        <3>6. Len(h[i + 1].text) \in Nat
            BY <3>4, SequenceOf DEF Edited, GoodBuffer, Buffers
        <3>7. PICK m \in Nat : m = Len(h[i + 1].text) /\ m >= len - 1
            BY <3>4, <3>6
        <3>8. m - n + (i + 1) >= 0
            <4>1. m \in Int /\ len \in Int /\ m >= len - 1
                BY <3>7
            <4> QED BY <2>6, <4>1
        <3>9. Good(i + 1)
            BY <3>5, <3>7, <3>8
        <3>10. i + 1 \in 0 .. n
            BY <2>6
        <3> QED BY <3>9, <3>10
    <2> QED BY <2>4, <2>5
<1>10. 0 .. n \subseteq T
    <2> HIDE DEF T
    <2> QED BY <1>8, <1>9, Conversion!UpTo
<1>11. \A i \in 0 .. n : Edited(begun, h[i], first)
    BY <1>10
<1>12. ASSUME NEW i \in 0 .. n - 1 PROVE h[i + 1] = Convert(h[i], t, i, eol)
    <2>1. i + 1 \in 1 .. n /\ (i + 1) - 1 = i
        BY <1>1
    <2>2. h[i + 1] = Convert(h[(i + 1) - 1], t, (i + 1) - 1, eol)
        BY <1>7, <2>1
    <2> QED BY <2>1, <2>2
<1>13. Converts(h, b, eol, first)
    BY <1>1, <1>3, <1>7, <1>11, <1>12 DEF Converts, begun, t
<1> QED BY <1>13

LEMMA ConvertLineEndsIs ==
    ASSUME NEW first, NEW b, GoodBuffer(b, first), NEW eol \in EolModes
    PROVE  /\ Edited(b, ConvertLineEnds(b, eol), first)
           /\ Apart(b.uh, ConvertLineEnds(b, eol).uh)
<1>1. PICK h : Converts(h, b, eol, first)
    BY ConversionPasses
<1>2. PICK n \in Nat : n = Len(b.text)
    BY SequenceOf DEF GoodBuffer, Buffers
<1>3. n \in 0 .. n
    OBVIOUS
<1>4. Edited(Begin(b), h[n], first) /\ ConvertLineEnds(b, eol) = End(h[n])
    BY <1>1, <1>2, <1>3 DEF Converts
<1>5. Edited(b, End(h[n]), first) /\ Apart(b.uh, End(h[n]).uh)
    BY <1>4, Enclosed
<1> QED BY <1>4, <1>5

(*************************************************************************)
(* Groups are undone and redone.                                         *)
(*************************************************************************)

\* An action that was performed can be undone (PerformUndoStep, PerformRedoStep).
LEMMA StepUndone ==
    ASSUME NEW t \in Seq(Chars), NEW a \in Actions(Chars), a.at # "start", Fits(t, a)
    PROVE  PerformUndoStep(PerformRedoStep(t, a), a) = t
<1>1. a.at \in {"insert", "remove"} /\ a.data \in Seq(Chars)
    BY DEF Actions
<1>2. CASE a.at = "insert"
    <2>1. a.pos \in 0 .. Len(t)
        BY <1>2 DEF Fits
    <2>2. Deleted(Inserted(t, a.pos, a.data), a.pos, Len(a.data)) = t
        BY <1>1, <2>1, InsertedDeleted
    <2> QED BY <1>2, <2>2 DEF PerformUndoStep, PerformRedoStep
<1>3. CASE a.at = "remove"
    <2>1. PICK n \in Nat : n = Len(a.data)
        BY <1>1, SequenceOf
    <2>2. a.pos \in Nat /\ a.pos + n <= Len(t) /\ a.data = SubSeq(t, a.pos + 1, a.pos + n)
        BY <1>3, <2>1 DEF Fits
    <2>3. Inserted(Deleted(t, a.pos, n), a.pos, SubSeq(t, a.pos + 1, a.pos + n)) = t
        BY <2>2, DeletedInserted
    <2>4. PerformRedoStep(t, a) = Deleted(t, a.pos, n)
        BY <1>3, <2>1 DEF PerformRedoStep
    <2>5. PerformUndoStep(Deleted(t, a.pos, n), a) = Inserted(Deleted(t, a.pos, n), a.pos, a.data)
        BY <1>3 DEF PerformUndoStep
    <2> QED BY <2>2, <2>3, <2>4, <2>5
<1> QED BY <1>1, <1>2, <1>3

LEMMA StepsAre ==
    ASSUME NEW u, WellFormed(u, Chars), NEW from \in Nat, NEW to \in Nat,
           from < to, to <= LastPlace(u)
    PROVE  /\ DOMAIN Steps(u, from, to) = 1 .. to - from - 1
           /\ \A i \in 1 .. to - from - 1 : Steps(u, from, to)[i] = u.acts[from + 1 + i]
<1>1. PICK last \in Nat : last = LastPlace(u) /\ Len(u.acts) = last + 1
    BY HistoryParts
<1>2. /\ from + 2 \in Nat /\ 1 <= from + 2 /\ from + 2 <= to + 1 /\ to <= last + 1
      /\ to - (from + 2) + 1 = to - from - 1
      /\ \A i \in 1 .. to - from - 1 : from + 2 + i - 1 = from + 1 + i
    BY <1>1
<1>3. u.acts \in Seq(Actions(Chars))
    BY HistoryParts
<1> DEFINE s == SubSeq(u.acts, from + 2, to)
<1>4. /\ s \in Seq(Actions(Chars))
      /\ Len(s) = to - (from + 2) + 1
      /\ \A i \in 1 .. to - (from + 2) + 1 : s[i] = u.acts[from + 2 + i - 1]
    <2>1. PICK t \in Seq(Actions(Chars)), m \in Nat : t = u.acts /\ m = from + 2
        BY <1>2, <1>3
    <2>2. 1 <= m /\ m <= to + 1 /\ to <= Len(t)
        BY <1>1, <1>2, <2>1
    <2>3. Excerpt(SubSeq(t, m, to), t, m, to, Actions(Chars))
        BY <2>2, Piece
    <2> QED BY <2>1, <2>3 DEF Excerpt
<1>5. s = Steps(u, from, to)
    BY DEF Steps
<1> HIDE DEF s
<1>6. DOMAIN s = 1 .. Len(s)
    BY <1>4, SequenceOf
<1> QED BY <1>2, <1>4, <1>5, <1>6

\* What the actions of the history are, and that each can be undone.
LEMMA ActionsFit ==
    ASSUME NEW u, NEW T, NEW first, WellFormed(u, Chars), Replays(T, u, first),
           NEW i \in 0 .. LastPlace(u) - 1
    PROVE  /\ T[i] \in Seq(Chars)
           /\ IsStart(u, i) => T[i + 1] = T[i]
           /\ ~IsStart(u, i) => /\ T[i + 1] = PerformRedoStep(T[i], u.acts[i + 1])
                                /\ PerformUndoStep(T[i + 1], u.acts[i + 1]) = T[i]
<1>1. PICK last \in Nat : last = LastPlace(u) /\ Len(u.acts) = last + 1
    BY HistoryParts
<1>2. i + 1 \in 1 .. last /\ (i + 1) - 1 = i /\ i \in 0 .. last /\ i + 1 \in 1 .. Len(u.acts)
    BY <1>1
<1>3. T[i] \in Seq(Chars)
    BY <1>1, <1>2 DEF Replays
<1>4. Fits(T[i], u.acts[i + 1]) /\ T[i + 1] = Performed(T[i], u.acts[i + 1])
    <2>1. Fits(T[(i + 1) - 1], u.acts[i + 1]) /\ T[i + 1] = Performed(T[(i + 1) - 1], u.acts[i + 1])
        BY <1>1, <1>2 DEF Replays
    <2> QED BY <1>2, <2>1
<1>5. u.acts[i + 1] \in Actions(Chars)
    BY <1>2, HistoryParts, SequenceOf
<1>6. ASSUME ~IsStart(u, i)
      PROVE  PerformUndoStep(PerformRedoStep(T[i], u.acts[i + 1]), u.acts[i + 1]) = T[i]
    BY <1>3, <1>4, <1>5, <1>6, StepUndone DEF IsStart
<1> QED BY <1>3, <1>4, <1>6 DEF IsStart, Performed

\* Undoing a group gives the text of the place before it.
LEMMA UndoneText ==
    ASSUME NEW first, NEW b, GoodBuffer(b, first), CanUndo(b.uh),
           NEW T, Replays(T, b.uh, first), T[b.uh.cur] = b.text
    PROVE  UndoGroup(b).text = T[UndoTo(b.uh)]
<1> DEFINE u == b.uh
           seq == Steps(u, UndoTo(u), u.cur)
<1>1. WellFormed(u, Chars) /\ b \in Buffers
    BY DEF GoodBuffer
<1>2. PICK last \in Nat, cur \in Nat : last = LastPlace(u) /\ cur = u.cur /\ cur <= last
    BY <1>1, HistoryParts
<1>3. PICK to \in Nat : /\ to = UndoTo(u) /\ to < cur /\ IsStart(u, to)
                        /\ \A j \in to + 1 .. cur - 1 : ~IsStart(u, j)
    <2>1. /\ UndoTo(u) \in 0 .. u.cur - 1 /\ IsStart(u, UndoTo(u))
          /\ \A j \in UndoTo(u) + 1 .. u.cur - 1 : ~IsStart(u, j)
        BY <1>1, UndoLands
    <2>2. UndoTo(u) \in Nat /\ UndoTo(u) < cur
        BY <1>2, <2>1
    <2> QED BY <1>2, <2>1, <2>2
<1>4. PICK m \in Nat : m = cur - to - 1
    BY <1>3
<1>5. UndoGroup(b).text = Undoing!Right(0, b.text, seq)
    <2>1. UndoGroup(b).text = FoldRight(LAMBDA a, t : PerformUndoStep(t, a), seq, b.text)
        BY <1>1 DEF UndoGroup, Buffers
    <2> QED BY <2>1 DEF Undoing!Right, Undoing!IterRight, FoldRight, MapThenFoldSet, UndoOp,
                        Undoing!Min, Min
<1>6. DOMAIN seq = 1 .. m /\ \A i \in 1 .. m : seq[i] = u.acts[to + 1 + i]
    <2>1. to < cur /\ cur <= LastPlace(u)
        BY <1>2, <1>3
    <2>2. /\ DOMAIN Steps(u, to, cur) = 1 .. cur - to - 1
          /\ \A i \in 1 .. cur - to - 1 : Steps(u, to, cur)[i] = u.acts[to + 1 + i]
        BY <1>1, <2>1, StepsAre
    <2>3. seq = Steps(u, to, cur)
        BY <1>2, <1>3
    <2> QED BY <1>4, <2>2, <2>3
<1> HIDE DEF u, seq
<1>7. PICK h : Undoing!PassesRight(h, 0, b.text, seq, m)
    BY <1>6, Undoing!FoldRightPasses
<1>8. /\ h[m] = b.text /\ h[0] = Undoing!Right(0, b.text, seq)
      /\ \A i \in 1 .. m : h[i - 1] = PerformUndoStep(h[i], u.acts[to + 1 + i])
    BY <1>6, <1>7 DEF Undoing!PassesRight, UndoOp
<1> DEFINE S == {k \in 0 .. m : h[m - k] = T[cur - k]}
<1>9. 0 \in S
    <2>1. m - 0 = m /\ cur - 0 = cur
        OBVIOUS
    <2> QED BY <1>2, <1>8, <2>1 DEF u
<1>10. ASSUME NEW k \in 0 .. m - 1, k \in S PROVE k + 1 \in S
    <2>1. PICK i \in 1 .. m : i = m - k
        <3>1. m - k \in 1 .. m
            OBVIOUS
        <3> QED BY <3>1
    <2>2. PICK j \in Nat : j = to + i
        BY <2>1
    <2>3. /\ to + 1 + i = j + 1 /\ cur - k = j + 1 /\ cur - (k + 1) = j /\ m - (k + 1) = i - 1
          /\ j \in to + 1 .. cur - 1 /\ j \in 0 .. last - 1
        BY <1>2, <1>3, <1>4, <2>1, <2>2
    <2>4. h[i] = T[j + 1]
        BY <1>10, <2>1, <2>3
    <2>5. h[i - 1] = PerformUndoStep(h[i], u.acts[j + 1])
        BY <1>8, <2>3
    <2>6. PerformUndoStep(T[j + 1], u.acts[j + 1]) = T[j]
        <3>1. j \in 0 .. LastPlace(u) - 1 /\ ~IsStart(u, j)
            BY <1>2, <1>3, <2>3
        <3> QED BY <1>1, <3>1, ActionsFit DEF u
    <2>7. h[m - (k + 1)] = T[cur - (k + 1)]
        BY <2>3, <2>4, <2>5, <2>6
    <2> QED BY <2>7
<1>11. h[0] = T[to + 1]
    <2>1. 0 .. m \subseteq S
        <3> HIDE DEF S
        <3> QED BY <1>9, <1>10, Undoing!UpTo
    <2>2. m \in 0 .. m /\ m - m = 0 /\ cur - m = to + 1
        BY <1>3, <1>4
    <2>3. h[m - m] = T[cur - m]
        BY <2>1, <2>2
    <2> QED BY <2>2, <2>3
<1>12. T[to + 1] = T[to]
    <2>1. to \in 0 .. last - 1
        BY <1>2, <1>3
    <2> QED BY <1>1, <1>2, <1>3, <2>1, ActionsFit DEF u
<1> QED BY <1>3, <1>5, <1>8, <1>11, <1>12 DEF u

\* Redoing a group gives the text of the place behind it.
LEMMA RedoneText ==
    ASSUME NEW first, NEW b, GoodBuffer(b, first), CanRedo(b.uh),
           NEW T, Replays(T, b.uh, first), T[b.uh.cur] = b.text
    PROVE  RedoGroup(b).text = T[RedoTo(b.uh)]
<1> DEFINE u == b.uh
           seq == Steps(u, u.cur, RedoTo(u))
<1>1. WellFormed(u, Chars) /\ b \in Buffers
    BY DEF GoodBuffer
<1>2. PICK last \in Nat, cur \in Nat :
          last = LastPlace(u) /\ cur = u.cur /\ cur <= last /\ IsStart(u, cur)
    BY <1>1, HistoryParts DEF WellFormed
<1>3. PICK to \in Nat : /\ to = RedoTo(u) /\ cur < to /\ to <= last
                        /\ \A j \in cur + 1 .. to - 1 : ~IsStart(u, j)
    <2>1. /\ RedoTo(u) \in u.cur + 1 .. LastPlace(u)
          /\ \A j \in u.cur + 1 .. RedoTo(u) - 1 : ~IsStart(u, j)
        BY <1>1, RedoLands
    <2>2. RedoTo(u) \in Nat /\ cur < RedoTo(u) /\ RedoTo(u) <= last
        BY <1>2, <2>1
    <2> QED BY <1>2, <2>1, <2>2
<1>4. PICK m \in Nat : m = to - cur - 1
    BY <1>3
<1>5. RedoGroup(b).text = Redoing!Left(0, b.text, seq)
    <2>1. RedoGroup(b).text = FoldLeft(PerformRedoStep, b.text, seq)
        BY <1>1 DEF RedoGroup, Buffers
    <2> QED BY <2>1 DEF Redoing!Left, Redoing!IterLeft, FoldLeft, MapThenFoldSet, RedoOp,
                        Redoing!Max, Max
<1>6. DOMAIN seq = 1 .. m /\ \A i \in 1 .. m : seq[i] = u.acts[cur + 1 + i]
    <2>1. cur < to /\ to <= LastPlace(u)
        BY <1>2, <1>3
    <2>2. /\ DOMAIN Steps(u, cur, to) = 1 .. to - cur - 1
          /\ \A i \in 1 .. to - cur - 1 : Steps(u, cur, to)[i] = u.acts[cur + 1 + i]
        BY <1>1, <2>1, StepsAre
    <2>3. seq = Steps(u, cur, to)
        BY <1>2, <1>3
    <2> QED BY <1>4, <2>2, <2>3
<1> HIDE DEF u, seq
<1>7. PICK h : Redoing!PassesLeft(h, 0, b.text, seq, m)
    BY <1>6, Redoing!FoldLeftPasses
<1>8. /\ h[0] = b.text /\ h[m] = Redoing!Left(0, b.text, seq)
      /\ \A i \in 1 .. m : h[i] = PerformRedoStep(h[i - 1], u.acts[cur + 1 + i])
    BY <1>6, <1>7 DEF Redoing!PassesLeft, RedoOp
<1> DEFINE S == {k \in 0 .. m : h[k] = T[cur + 1 + k]}
<1>9. 0 \in S
    <2>1. cur + 1 + 0 = cur + 1 /\ cur \in 0 .. last - 1
        BY <1>2, <1>3
    <2>2. T[cur + 1] = T[cur]
        BY <1>1, <1>2, <2>1, ActionsFit DEF u
    <2> QED BY <1>2, <1>8, <2>1, <2>2 DEF u
<1>10. ASSUME NEW k \in 0 .. m - 1, k \in S PROVE k + 1 \in S
    <2>1. PICK j \in Nat : j = cur + 1 + k
        BY <1>10
    <2>2. /\ k + 1 \in 1 .. m /\ (k + 1) - 1 = k
          /\ cur + 1 + (k + 1) = j + 1
          /\ j \in cur + 1 .. to - 1 /\ j \in 0 .. last - 1
        BY <1>2, <1>3, <1>4, <2>1
    <2>3. h[k] = T[j]
        BY <1>10, <2>1
    <2>4. h[k + 1] = PerformRedoStep(h[k], u.acts[j + 1])
        <3>1. h[k + 1] = PerformRedoStep(h[(k + 1) - 1], u.acts[cur + 1 + (k + 1)])
            BY <1>8, <2>2
        <3> QED BY <2>2, <3>1
    <2>5. T[j + 1] = PerformRedoStep(T[j], u.acts[j + 1])
        BY <1>1, <1>2, <1>3, <2>2, ActionsFit DEF u
    <2>6. h[k + 1] = T[cur + 1 + (k + 1)]
        BY <2>2, <2>3, <2>4, <2>5
    <2> QED BY <2>6
<1>11. h[m] = T[to]
    <2>1. 0 .. m \subseteq S
        <3> HIDE DEF S
        <3> QED BY <1>9, <1>10, Redoing!UpTo
    <2>2. m \in S /\ cur + 1 + m = to
        BY <1>3, <1>4, <2>1
    <2> QED BY <2>2
<1> QED BY <1>3, <1>5, <1>8, <1>11 DEF u

\* The buffer at another place of its history.
LEMMA Travels ==
    ASSUME NEW first, NEW b, GoodBuffer(b, first), NEW to, NEW T,
           Replays(T, b.uh, first), WellFormed(At(b.uh, to), Chars)
    PROVE  GoodBuffer([b EXCEPT !.text = T[to], !.uh.cur = to, !.group = Travelled(@)], first)
<1> DEFINE v == At(b.uh, to)
           g == Travelled(b.group)
           c == [b EXCEPT !.text = T[to], !.uh.cur = to, !.group = Travelled(@)]
<1>1. /\ WellFormed(b.uh, Chars) /\ b \in Buffers /\ GoodGroup(b.uh, b.group)
    BY DEF GoodBuffer
<1>2. /\ v.acts = b.uh.acts /\ v.cur = to /\ v.depth = b.uh.depth /\ v.save = b.uh.save
    BY <1>1 DEF At, WellFormed
<1>3. c.text = T[to] /\ c.uh = v /\ c.group = g /\ c = [b EXCEPT !.text = T[to], !.uh = v, !.group = g]
    BY <1>1 DEF Buffers, At
<1>4. g \in [from : Int, to : Int]
    BY <1>1 DEF Buffers, Travelled, NoGroup, None
<1>5. T[to] \in Seq(Chars)
    <2>1. LastPlace(v) = LastPlace(b.uh)
        BY <1>2 DEF LastPlace
    <2>2. to \in 0 .. LastPlace(b.uh)
        BY <1>2, <2>1 DEF WellFormed
    <2> QED BY <2>2 DEF Replays
<1> HIDE DEF v, g, c
<1>6. c \in Buffers
    <2>1. v \in Histories
        BY DEF WellFormed, Histories, v
    <2> QED BY <1>1, <1>3, <1>4, <1>5, <2>1 DEF Buffers
<1>7. HasReplay(v, T[to], first)
    <2>1. Replays(T, v, first)
        BY <1>2 DEF Replays, LastPlace
    <2> QED BY <1>2, <2>1 DEF HasReplay
<1>8. GoodGroup(v, g)
    <2>1. CASE b.group.to = Opened
        <3>1. g.from = None /\ g.to # Opened
            BY <2>1 DEF g, Travelled, NoGroup, None, Opened
        <3> QED BY <3>1 DEF GoodGroup
    <2>2. CASE b.group.to # Opened
        <3>1. g = b.group
            BY <2>2 DEF g, Travelled
        <3>2. \A from, end : Whole(v, from, end) <=> Whole(b.uh, from, end)
            BY <1>2 DEF Whole, LastPlace, IsStart
        <3> QED BY <1>1, <1>2, <2>2, <3>1, <3>2 DEF GoodGroup
    <2> QED BY <2>1, <2>2
<1>9. WellFormed(v, Chars)
    BY DEF v
<1> QED BY <1>3, <1>6, <1>7, <1>8, <1>9 DEF GoodBuffer, c

LEMMA UndoGroupIs ==
    ASSUME NEW first, NEW b, GoodBuffer(b, first), CanUndo(b.uh)
    PROVE  /\ GoodBuffer(UndoGroup(b), first)
           /\ UndoGroup(b).uh.depth = b.uh.depth
<1>1. WellFormed(b.uh, Chars) /\ b \in Buffers /\ HasReplay(b.uh, b.text, first)
    BY DEF GoodBuffer
<1>2. PICK T : Replays(T, b.uh, first) /\ T[b.uh.cur] = b.text
    BY <1>1 DEF HasReplay
<1> DEFINE to == UndoTo(b.uh)
           c == UndoGroup(b)
<1>3. c.text = T[to]
    BY <1>2, UndoneText
<1>4. c = [b EXCEPT !.text = T[to], !.uh.cur = to, !.group = Travelled(@)]
    <2>1. c = [b EXCEPT !.text = c.text, !.uh.cur = to, !.group = Travelled(@)]
        BY <1>1 DEF UndoGroup, Buffers
    <2> QED BY <1>3, <2>1
<1>5. WellFormed(At(b.uh, to), Chars)
    BY <1>1, RedoFindsUndone
<1>6. c.uh.depth = b.uh.depth
    BY <1>1, <1>4 DEF Buffers, Histories
<1> HIDE DEF c, to
<1>7. GoodBuffer(c, first)
    BY <1>2, <1>4, <1>5, Travels
<1> QED BY <1>6, <1>7 DEF c

LEMMA RedoGroupIs ==
    ASSUME NEW first, NEW b, GoodBuffer(b, first), CanRedo(b.uh)
    PROVE  /\ GoodBuffer(RedoGroup(b), first)
           /\ RedoGroup(b).uh.depth = b.uh.depth
<1>1. WellFormed(b.uh, Chars) /\ b \in Buffers /\ HasReplay(b.uh, b.text, first)
    BY DEF GoodBuffer
<1>2. PICK T : Replays(T, b.uh, first) /\ T[b.uh.cur] = b.text
    BY <1>1 DEF HasReplay
<1> DEFINE to == RedoTo(b.uh)
           c == RedoGroup(b)
<1>3. c.text = T[to]
    BY <1>2, RedoneText
<1>4. c = [b EXCEPT !.text = T[to], !.uh.cur = to, !.group = Travelled(@)]
    <2>1. c = [b EXCEPT !.text = c.text, !.uh.cur = to, !.group = Travelled(@)]
        BY <1>1 DEF RedoGroup, Buffers
    <2> QED BY <1>3, <2>1
<1>5. WellFormed(At(b.uh, to), Chars)
    BY <1>1, UndoFindsRedone
<1>6. c.uh.depth = b.uh.depth
    BY <1>1, <1>4 DEF Buffers, Histories
<1> HIDE DEF c, to
<1>7. GoodBuffer(c, first)
    BY <1>2, <1>4, <1>5, Travels
<1> QED BY <1>6, <1>7 DEF c

(*************************************************************************)
(* Loading, saving and ending groups.                                    *)
(*************************************************************************)

\* Groups that end one after the other.
LEMMA EndsAre ==
    ASSUME NEW first, NEW b, GoodBuffer(b, first), NEW n \in Nat, n <= b.uh.depth
    PROVE  LET c == FoldLeft(LAMBDA d, i : End(d), b, [i \in 1 .. n |-> i])
           IN  GoodBuffer(c, first) /\ SameText(b, c) /\ c.uh.depth = b.uh.depth - n
<1> DEFINE seq == [i \in 1 .. n |-> i]
           c == FoldLeft(LAMBDA d, i : End(d), b, seq)
<1>1. PICK depth \in Nat : depth = b.uh.depth /\ n <= depth
    BY HistoryParts DEF GoodBuffer
<1>2. c = Ending!Left(0, b, seq)
    BY DEF Ending!Left, Ending!IterLeft, FoldLeft, MapThenFoldSet, EndOp, Ending!Max, Max
<1>3. DOMAIN seq = 1 .. n
    OBVIOUS
<1> HIDE DEF seq, c
<1>4. PICK h : Ending!PassesLeft(h, 0, b, seq, n)
    BY <1>3, Ending!FoldLeftPasses
<1>5. h[0] = b /\ h[n] = c /\ \A i \in 1 .. n : h[i] = End(h[i - 1])
    BY <1>2, <1>4 DEF Ending!PassesLeft, EndOp
<1> DEFINE S == {i \in 0 .. n : /\ GoodBuffer(h[i], first) /\ SameText(b, h[i])
                                /\ h[i].uh.depth = depth - i}
<1>6. 0 \in S
    BY <1>1, <1>5 DEF SameText, SameActions
<1>7. ASSUME NEW i \in 0 .. n - 1, i \in S PROVE i + 1 \in S
    <2>1. i + 1 \in 1 .. n /\ (i + 1) - 1 = i /\ depth - i > 0 /\ depth - i - 1 = depth - (i + 1)
        BY <1>1
    <2>2. h[i + 1] = End(h[i])
        <3>1. h[i + 1] = End(h[(i + 1) - 1])
            BY <1>5, <2>1
        <3> QED BY <2>1, <3>1
    <2>3. GoodBuffer(h[i], first) /\ SameText(b, h[i]) /\ h[i].uh.depth = depth - i
        BY <1>7
    <2>4. /\ GoodBuffer(End(h[i]), first) /\ SameText(h[i], End(h[i]))
          /\ End(h[i]).uh.depth = depth - i - 1
        BY <2>1, <2>3, EndIs
    <2>5. i + 1 \in 0 .. n
        OBVIOUS
    <2>6. SameText(b, End(h[i]))
        <3>1. WellFormed(b.uh, Chars) /\ WellFormed(h[i].uh, Chars)
            BY <2>3 DEF GoodBuffer
        <3> QED BY <2>3, <2>4, <3>1, SameActionsTwice DEF SameText
    <2> QED BY <2>1, <2>2, <2>4, <2>5, <2>6
<1>8. 0 .. n \subseteq S
    <2> HIDE DEF S
    <2> QED BY <1>6, <1>7, Ending!UpTo
<1>9. n \in S
    BY <1>8
<1> QED BY <1>1, <1>5, <1>9 DEF c, seq

LEMMA SavedIs ==
    ASSUME NEW first, NEW b, GoodBuffer(b, first)
    PROVE  LET c == [b EXCEPT !.uh = SetSavePoint(@)]
           IN  GoodBuffer(c, first) /\ c.uh.depth = b.uh.depth /\ IsSavePoint(c.uh)
<1> DEFINE v == SetSavePoint(b.uh)
           c == [b EXCEPT !.uh = SetSavePoint(@)]
<1>1. /\ WellFormed(b.uh, Chars) /\ b \in Buffers /\ GoodGroup(b.uh, b.group)
      /\ HasReplay(b.uh, b.text, first)
    BY DEF GoodBuffer
<1>2. WellFormed(v, Chars)
    BY <1>1, GroupsKeepShape
<1>3. v.acts = b.uh.acts /\ v.cur = b.uh.cur /\ v.depth = b.uh.depth /\ v.save = v.cur
    BY <1>1 DEF SetSavePoint, WellFormed
<1>4. c = [b EXCEPT !.uh = v] /\ c.uh = v /\ c.text = b.text /\ c.group = b.group
    BY <1>1 DEF Buffers
<1> HIDE DEF v
<1>5. c \in Buffers
    <2>1. v \in Histories
        BY <1>2 DEF WellFormed, Histories
    <2> QED BY <1>1, <1>4, <2>1 DEF Buffers
<1> HIDE DEF c
<1>6. HasReplay(v, b.text, first)
    <2>1. PICK T : Replays(T, b.uh, first) /\ T[b.uh.cur] = b.text
        BY <1>1 DEF HasReplay
    <2>2. Replays(T, v, first)
        BY <1>3, <2>1 DEF Replays, LastPlace
    <2> QED BY <1>3, <2>1, <2>2 DEF HasReplay
<1>7. GoodGroup(v, b.group)
    <2>1. \A from, to : Whole(v, from, to) <=> Whole(b.uh, from, to)
        BY <1>3 DEF Whole, LastPlace, IsStart
    <2> QED BY <1>1, <1>3, <2>1 DEF GoodGroup
<1>8. GoodBuffer(c, first)
    BY <1>2, <1>4, <1>5, <1>6, <1>7 DEF GoodBuffer
<1> QED BY <1>3, <1>4, <1>8 DEF IsSavePoint, c

LEMMA Single ==
    ASSUME NEW S, NEW a \in S
    PROVE  <<a>> \in Seq(S) /\ Len(<<a>>) = 1 /\ <<a>>[1] = a
OBVIOUS

LEMMA EmptyHistory ==
    ASSUME NEW acts, NEW depth
    PROVE  LET u == [[acts |-> acts, cur |-> 0, depth |-> 0, save |-> 0] EXCEPT !.depth = depth]
           IN  /\ u.acts = acts /\ u.cur = 0 /\ u.save = 0 /\ u.depth = depth
               /\ u = [acts |-> acts, cur |-> 0, depth |-> depth, save |-> 0]
OBVIOUS

\* The first place of a history has the text the history began with.
LEMMA EmptiedIs ==
    ASSUME NEW text \in Seq(Chars), NEW depth \in Nat, NEW b,
           b = [text |-> text, uh |-> [NewHistory EXCEPT !.depth = depth], group |-> NoGroup]
    PROVE  GoodBuffer(b, text) /\ b.uh.depth = depth /\ IsSavePoint(b.uh)
<1> DEFINE u == [NewHistory EXCEPT !.depth = depth]
<1>1. /\ u.acts = <<StartAction(TRUE)>> /\ u.cur = 0 /\ u.save = 0 /\ u.depth = depth
      /\ u = [acts |-> <<StartAction(TRUE)>>, cur |-> 0, depth |-> depth, save |-> 0]
    BY EmptyHistory DEF NewHistory
<1>2. u.acts \in Seq(Actions(Chars)) /\ Len(u.acts) = 1 /\ u.acts[1].at = "start"
    <2>1. StartAction(TRUE) \in Actions(Chars) /\ StartAction(TRUE).at = "start"
        BY DEF StartAction, Actions
    <2> DEFINE a == StartAction(TRUE)
    <2> HIDE DEF a
    <2>2. <<a>> \in Seq(Actions(Chars)) /\ Len(<<a>>) = 1 /\ <<a>>[1] = a
        <3>1. a \in Actions(Chars)
            BY <2>1 DEF a
        <3> QED BY <3>1, Single
    <2> QED BY <1>1, <2>1, <2>2 DEF a
<1>3. b.text = text /\ b.uh = u /\ b.group = NoGroup
    OBVIOUS
<1>4. u \in Histories
    BY <1>1, <1>2 DEF Histories
<1> HIDE DEF u
<1>5. LastPlace(u) = 0
    BY <1>2 DEF LastPlace
<1>6. WellFormed(u, Chars)
    <2>1. IsStart(u, 0)
        <3>1. 0 + 1 = 1
            OBVIOUS
        <3> QED BY <1>2, <3>1 DEF IsStart
    <2>2. 0 \in 0 .. 0 /\ 0 \in -1 .. 0
        OBVIOUS
    <2> QED BY <1>1, <1>4, <1>5, <2>1, <2>2, Zenon DEF WellFormed, Histories
<1>7. HasReplay(u, text, text)
    <2> DEFINE T == [i \in 0 .. 0 |-> text]
    <2>1. T \in [0 .. LastPlace(u) -> Seq(Chars)] /\ T[0] = text /\ (1 .. LastPlace(u)) = {}
        BY <1>5
    <2> HIDE DEF T
    <2>2. Replays(T, u, text)
        BY <2>1 DEF Replays
    <2> QED BY <1>1, <2>1, <2>2 DEF HasReplay
<1>8. GoodGroup(u, NoGroup)
    BY DEF GoodGroup, NoGroup, None, Opened
<1>9. b \in Buffers
    BY <1>4, <1>3 DEF Buffers, NoGroup, None
<1>10. GoodBuffer(b, text)
    BY <1>3, <1>6, <1>7, <1>8, <1>9 DEF GoodBuffer
<1> QED BY <1>1, <1>3, <1>10 DEF IsSavePoint

LEMMA ClearedIs ==
    ASSUME NEW first, NEW b, GoodBuffer(b, first)
    PROVE  Edited(b, Cleared(b), first) /\ Apart(b.uh, Cleared(b).uh) /\ Cleared(b).text = <<>>
<1> DEFINE begun == Begin(b)
           c == DeleteChars(begun, 0, Len(b.text))
<1>1. GoodBuffer(begun, first) /\ begun.text = b.text
    BY BeginIs DEF SameText
<1>2. PICK n \in Nat : n = Len(b.text)
    BY SequenceOf DEF GoodBuffer, Buffers
<1> HIDE DEF begun
<1>3. Edited(begun, c, first) /\ c.text \in Seq(Chars) /\ Len(c.text) = n - n
    <2>1. 0 \in Nat /\ 0 + n <= Len(begun.text)
        BY <1>1, <1>2
    <2> QED BY <1>1, <1>2, <2>1, DeleteCharsIs
<1>5. c.text = <<>>
    <2>1. Len(c.text) = 0
        BY <1>2, <1>3
    <2> QED BY <1>3, <2>1, EmptySeq
<1>4. Cleared(b) = End(c)
    BY DEF Cleared, begun
<1> HIDE DEF c
<1> QED BY <1>3, <1>4, <1>5, Enclosed DEF begun

\* What is read into the buffer first goes where everything was.
LEMMA ReadIs ==
    ASSUME NEW first, NEW b, GoodBuffer(b, first), NEW t \in Seq(Chars)
    PROVE  Edited(b, InsertString(Cleared(b), 0, t), first)
<1> DEFINE c == Cleared(b)
<1>1. Edited(b, c, first) /\ GoodBuffer(c, first)
    BY ClearedIs DEF Edited
<1>2. 0 \in 0 .. Len(c.text)
    BY <1>1, SequenceOf DEF GoodBuffer, Buffers
<1> HIDE DEF c
<1>3. Edited(c, InsertString(c, 0, t), first)
    BY <1>1, <1>2, InsertStringIs
<1> QED BY <1>1, <1>3, EditedTwice DEF c

(*************************************************************************)
(* The invariant.                                                        *)
(*************************************************************************)

\* What holds of every reachable state: the buffer, the groups that are open, and
\* what a clean document is.
Inv ==
    /\ GoodBuffer(buf, base)
    /\ base \in Seq(Chars)
    /\ dirty \in BOOLEAN /\ torn \in BOOLEAN
    /\ batch \in 0 .. MaxBatch /\ leaks \in 0 .. MaxLeaks
    /\ buf.uh.depth = batch + leaks
    /\ ~dirty /\ ~torn => IsSavePoint(buf.uh)

LEMMA Bounds ==
    /\ MaxBatch \in Nat /\ MaxLeaks \in Nat
    /\ Texts \subseteq Seq(Chars) /\ Strings \subseteq Seq(Chars)
    /\ Lengths \subseteq Nat /\ Eols \subseteq EolModes
BY CellBufferAssumption DEF Chars

LEMMA InitGood == Init => Inv
<1> SUFFICES ASSUME Init PROVE Inv
    OBVIOUS
<1>1. /\ buf = [text |-> <<>>, uh |-> NewHistory, group |-> NoGroup]
      /\ dirty = FALSE /\ batch = 0 /\ leaks = 0 /\ base = <<>> /\ torn = FALSE
    BY DEF Init
<1>2. NewHistory = [NewHistory EXCEPT !.depth = 0]
    BY EmptyHistory DEF NewHistory
<1> DEFINE nothing == <<>>
<1>3. nothing \in Seq(Chars)
    OBVIOUS
<1>4. buf.uh = NewHistory /\ buf.text = nothing /\ base = nothing
    BY <1>1
<1> HIDE DEF nothing
<1>5. buf = [text |-> nothing, uh |-> [NewHistory EXCEPT !.depth = 0], group |-> NoGroup]
    BY <1>1, <1>2 DEF nothing
<1>6. GoodBuffer(buf, nothing) /\ buf.uh.depth = 0 /\ IsSavePoint(buf.uh)
    <2>1. 0 \in Nat
        OBVIOUS
    <2> QED BY <1>3, <1>5, <2>1, EmptiedIs
<1>7. 0 \in 0 .. MaxBatch /\ 0 \in 0 .. MaxLeaks /\ 0 = 0 + 0
    BY Bounds
<1> QED BY <1>1, <1>3, <1>4, <1>6, <1>7 DEF Inv

\* An edit leaves a document clean only where it changed nothing.
LEMMA ChangeGood ==
    ASSUME Inv, NEW b, Edited(buf, b, base), Change(b)
    PROVE  Inv'
<1>1. /\ buf' = b /\ (dirty' <=> dirty \/ Left(b))
      /\ batch' = batch /\ leaks' = leaks /\ base' = base /\ torn' = torn
    BY DEF Change
<1>2. dirty' \in BOOLEAN
    BY DEF Change, Inv, Left
<1>3. GoodBuffer(buf', base') /\ buf'.uh.depth = buf.uh.depth
    BY <1>1 DEF Edited
<1>4. ~dirty' /\ ~torn' => IsSavePoint(buf'.uh)
    BY <1>1 DEF Inv, Edited, Left, IsSavePoint
<1> QED BY <1>1, <1>2, <1>3, <1>4 DEF Inv

LEMMA TypeGood == Inv /\ Type => Inv'
<1> SUFFICES ASSUME Inv, Type PROVE Inv'
    OBVIOUS
<1>1. PICK pos \in 0 .. Len(buf.text), s \in Strings : Change(InsertString(buf, pos, s))
    BY DEF Type
<1>2. s \in Seq(Chars)
    BY Bounds
<1>3. GoodBuffer(buf, base)
    BY DEF Inv
<1>4. Edited(buf, InsertString(buf, pos, s), base)
    BY <1>2, <1>3, InsertStringIs
<1> QED BY <1>1, <1>4, ChangeGood

LEMMA SelectionIs ==
    ASSUME Inv, NEW pos \in 0 .. Len(buf.text), NEW len \in {0} \cup Selections(pos)
    PROVE  pos \in Nat /\ len \in Nat /\ pos + len <= Len(buf.text)
<1>1. Len(buf.text) \in Nat
    BY SequenceOf DEF Inv, GoodBuffer, Buffers
<1>2. len \in Nat
    BY Bounds DEF Selections
<1> QED BY <1>1, <1>2 DEF Selections

LEMMA EraseGood == Inv /\ Erase => Inv'
<1> SUFFICES ASSUME Inv, Erase PROVE Inv'
    OBVIOUS
<1>1. PICK pos \in 0 .. Len(buf.text) - 1 :
          \E len \in Selections(pos) : Change(DeleteChars(buf, pos, len))
    BY DEF Erase
<1>2. PICK len \in Selections(pos) : Change(DeleteChars(buf, pos, len))
    BY <1>1
<1>3. pos \in Nat /\ len \in Nat /\ pos + len <= Len(buf.text)
    <2>1. Len(buf.text) \in Nat
        BY SequenceOf DEF Inv, GoodBuffer, Buffers
    <2>2. pos \in 0 .. Len(buf.text)
        BY <2>1
    <2> QED BY <2>2, SelectionIs
<1>4. GoodBuffer(buf, base)
    BY DEF Inv
<1>5. Edited(buf, DeleteChars(buf, pos, len), base)
    BY <1>3, <1>4, DeleteCharsIs
<1> QED BY <1>2, <1>5, ChangeGood

LEMMA ConvertEolsGood == Inv /\ ConvertEols => Inv'
<1> SUFFICES ASSUME Inv, ConvertEols PROVE Inv'
    OBVIOUS
<1>1. PICK eol \in Eols : Change(ConvertLineEnds(buf, eol))
    BY DEF ConvertEols
<1>2. eol \in EolModes
    BY Bounds
<1>3. GoodBuffer(buf, base)
    BY DEF Inv
<1>4. Edited(buf, ConvertLineEnds(buf, eol), base)
    BY <1>2, <1>3, ConvertLineEndsIs
<1> QED BY <1>1, <1>4, ChangeGood

\* Undo and redo tell the document when they pass the save point.
LEMMA TravelGood ==
    ASSUME Inv, NEW b, GoodBuffer(b, base), b.uh.depth = buf.uh.depth, Travel(b)
    PROVE  Inv'
<1>1. /\ buf' = b /\ batch' = batch /\ leaks' = leaks /\ base' = base /\ torn' = torn
      /\ dirty' = IF IsSavePoint(buf.uh) = IsSavePoint(b.uh) THEN dirty ELSE ~IsSavePoint(b.uh)
    BY DEF Travel
<1>2. dirty' \in BOOLEAN
    BY <1>1 DEF Inv, IsSavePoint
<1>3. ~dirty' /\ ~torn' => IsSavePoint(buf'.uh)
    BY <1>1 DEF Inv, IsSavePoint
<1> QED BY <1>1, <1>2, <1>3 DEF Inv

LEMMA UndoGood == Inv /\ Undo => Inv'
<1> SUFFICES ASSUME Inv, Undo PROVE Inv'
    OBVIOUS
<1>1. CanUndo(buf.uh) /\ Travel(UndoGroup(buf)) /\ GoodBuffer(buf, base)
    BY DEF Undo, Inv
<1>2. GoodBuffer(UndoGroup(buf), base) /\ UndoGroup(buf).uh.depth = buf.uh.depth
    BY <1>1, UndoGroupIs
<1> QED BY <1>1, <1>2, TravelGood

LEMMA RedoGood == Inv /\ Redo => Inv'
<1> SUFFICES ASSUME Inv, Redo PROVE Inv'
    OBVIOUS
<1>1. CanRedo(buf.uh) /\ Travel(RedoGroup(buf)) /\ GoodBuffer(buf, base)
    BY DEF Redo, Inv
<1>2. GoodBuffer(RedoGroup(buf), base) /\ RedoGroup(buf).uh.depth = buf.uh.depth
    BY <1>1, RedoGroupIs
<1> QED BY <1>1, <1>2, TravelGood

LEMMA SaveGood == Inv /\ Save => Inv'
<1> SUFFICES ASSUME Inv, Save PROVE Inv'
    OBVIOUS
<1>1. /\ buf' = [buf EXCEPT !.uh = SetSavePoint(@)] /\ dirty' = FALSE /\ torn' = FALSE
      /\ batch' = batch /\ leaks' = leaks /\ base' = base
    BY DEF Save
<1>2. GoodBuffer(buf', base) /\ buf'.uh.depth = buf.uh.depth /\ IsSavePoint(buf'.uh)
    BY <1>1, SavedIs DEF Inv
<1> QED BY <1>1, <1>2 DEF Inv

LEMMA PushGood == Inv /\ PushUndoLevel => Inv'
<1> SUFFICES ASSUME Inv, PushUndoLevel PROVE Inv'
    OBVIOUS
<1>1. /\ batch < MaxBatch /\ batch' = batch + 1 /\ buf' = Begin(buf)
      /\ dirty' = dirty /\ leaks' = leaks /\ base' = base /\ torn' = torn
    BY DEF PushUndoLevel
<1>2. /\ GoodBuffer(buf', base) /\ SameText(buf, buf')
      /\ buf'.uh.depth = buf.uh.depth + 1
    BY <1>1, BeginIs DEF Inv
<1>3. batch' \in 0 .. MaxBatch /\ buf'.uh.depth = batch' + leaks'
    <2>1. /\ batch \in Nat /\ leaks \in Nat /\ MaxBatch \in Nat
          /\ buf.uh.depth = batch + leaks
        BY Bounds DEF Inv
    <2> QED BY <1>1, <1>2, <2>1
<1>4. IsSavePoint(buf.uh) => IsSavePoint(buf'.uh)
    BY <1>2 DEF SameText, SameActions, IsSavePoint
<1> QED BY <1>1, <1>2, <1>3, <1>4 DEF Inv

LEMMA PopGood ==
    ASSUME Inv, NEW n \in 1 .. batch, PopUndoLevels(n)
    PROVE  Inv'
<1>1. /\ batch' = batch - n
      /\ buf' = FoldLeft(LAMBDA b, i : End(b), buf, [i \in 1 .. n |-> i])
      /\ dirty' = dirty /\ leaks' = leaks /\ base' = base /\ torn' = torn
    BY DEF PopUndoLevels
<1>2. /\ batch \in Nat /\ leaks \in Nat /\ MaxBatch \in Nat /\ batch <= MaxBatch
      /\ buf.uh.depth = batch + leaks /\ GoodBuffer(buf, base)
    BY Bounds DEF Inv
<1>3. n \in Nat /\ n <= buf.uh.depth
    BY <1>2
<1>4. /\ GoodBuffer(buf', base) /\ SameText(buf, buf')
      /\ buf'.uh.depth = buf.uh.depth - n
    BY <1>1, <1>2, <1>3, EndsAre
<1>5. batch' \in 0 .. MaxBatch /\ buf'.uh.depth = batch' + leaks'
    <2>1. \A m, k, l, top \in Nat : m \in 1 .. k /\ k <= top =>
              k - m \in 0 .. top /\ (k + l) - m = (k - m) + l
        OBVIOUS
    <2>2. batch - n \in 0 .. MaxBatch /\ (batch + leaks) - n = (batch - n) + leaks
        BY <1>2, <1>3, <2>1
    <2> QED BY <1>1, <1>2, <1>4, <2>2
<1>6. IsSavePoint(buf.uh) => IsSavePoint(buf'.uh)
    BY <1>4 DEF SameText, SameActions, IsSavePoint
<1> QED BY <1>1, <1>4, <1>5, <1>6 DEF Inv

LEMMA PopsGood == Inv /\ (PopUndoLevel \/ ResetUndoLevel) => Inv'
<1> SUFFICES ASSUME Inv, PopUndoLevel \/ ResetUndoLevel PROVE Inv'
    OBVIOUS
<1>1. batch \in Nat
    BY Bounds DEF Inv
<1>2. CASE PopUndoLevel
    <2>1. 1 \in 1 .. batch /\ PopUndoLevels(1)
        BY <1>1, <1>2 DEF PopUndoLevel
    <2> QED BY <2>1, PopGood
<1>3. CASE ResetUndoLevel
    <2>1. batch \in 1 .. batch /\ PopUndoLevels(batch)
        BY <1>1, <1>3 DEF ResetUndoLevel
    <2> QED BY <2>1, PopGood
<1> QED BY <1>2, <1>3

Replaced(b, pos, len, s) == InsertString(DeleteChars(b, pos, len), pos, s)

LEMMA ReplacedIs ==
    ASSUME NEW first, NEW b, GoodBuffer(b, first), NEW s \in Seq(Chars),
           NEW pos \in Nat, NEW len \in Nat, pos + len <= Len(b.text)
    PROVE  Edited(b, Replaced(b, pos, len, s), first)
<1> DEFINE d == DeleteChars(b, pos, len)
<1>1. Edited(b, d, first) /\ Len(d.text) = Len(b.text) - len
    BY DeleteCharsIs
<1>2. GoodBuffer(d, first)
    BY <1>1 DEF Edited
<1>3. pos \in 0 .. Len(d.text)
    <2>1. Len(b.text) \in Nat
        BY SequenceOf DEF GoodBuffer, Buffers
    <2> QED BY <1>1, <2>1
<1> HIDE DEF d
<1>4. Edited(d, InsertString(d, pos, s), first)
    BY <1>2, <1>3, InsertStringIs
<1> QED BY <1>1, <1>4, EditedTwice DEF Replaced, d

LEMMA InsertFileGood == Inv /\ InsertFile => Inv'
<1> SUFFICES ASSUME Inv, InsertFile PROVE Inv'
    OBVIOUS
<1> DEFINE Result(pos, s, eol, len) ==
               /\ \/ /\ buf' = End(ConvertLineEnds(Replaced(Begin(buf), pos, len, s), eol))
                     /\ dirty' = TRUE /\ leaks' = leaks
                  \/ buf' = Replaced(Begin(buf), pos, len, s) /\ dirty' = TRUE /\ Leak
                  \/ buf' = Begin(buf) /\ dirty' = dirty /\ Leak
               /\ batch' = batch /\ base' = base /\ torn' = torn
<1>0. PICK pos \in 0 .. Len(buf.text), s \in Texts, eol \in Eols :
          \E len \in {0} \cup Selections(pos) : Result(pos, s, eol, len)
    BY DEF InsertFile, Replaced
<1>1. PICK len \in {0} \cup Selections(pos) : Result(pos, s, eol, len)
    BY <1>0
<1>2. pos \in Nat /\ len \in Nat /\ pos + len <= Len(buf.text)
    BY SelectionIs
<1>3. s \in Seq(Chars) /\ eol \in EolModes
    BY Bounds
<1> DEFINE begun == Begin(buf)
           p == Replaced(begun, pos, len, s)
           e == ConvertLineEnds(p, eol)
<1>4. GoodBuffer(buf, base) /\ dirty \in BOOLEAN /\ batch \in Nat /\ leaks \in Nat
      /\ MaxLeaks \in Nat /\ buf.uh.depth = batch + leaks
    BY Bounds DEF Inv
<1>5. /\ GoodBuffer(begun, base) /\ begun.text = buf.text /\ SameText(buf, begun)
      /\ begun.uh.depth = buf.uh.depth + 1
    BY <1>4, BeginIs DEF SameText
<1> HIDE DEF begun
<1>7. Edited(begun, p, base)
    BY <1>2, <1>3, <1>5, ReplacedIs
<1> HIDE DEF p
<1>8. Edited(begun, e, base)
    <2>1. GoodBuffer(p, base)
        BY <1>7 DEF Edited
    <2>2. Edited(p, e, base)
        BY <1>3, <2>1, ConvertLineEndsIs
    <2> QED BY <1>5, <1>7, <2>2, EditedTwice
<1> HIDE DEF e
<1>9. CASE buf' = End(e) /\ dirty' = TRUE /\ leaks' = leaks
    <2>1. Edited(buf, End(e), base)
        BY <1>4, <1>8, Enclosed DEF begun
    <2>2. GoodBuffer(buf', base') /\ buf'.uh.depth = batch' + leaks'
        BY <1>1, <1>4, <1>9, <2>1 DEF Edited
    <2> QED BY <1>1, <1>9, <2>2 DEF Inv
<1>10. CASE (buf' = p \/ buf' = begun) /\ (dirty' = TRUE \/ (dirty' = dirty /\ buf' = begun)) /\ Leak
    <2>1. leaks' = leaks + 1 /\ leaks' \in 0 .. MaxLeaks
        BY <1>4, <1>10 DEF Leak
    <2>2. GoodBuffer(buf', base') /\ buf'.uh.depth = buf.uh.depth + 1
        BY <1>1, <1>5, <1>7, <1>10 DEF Edited
    <2>3. buf'.uh.depth = batch' + leaks'
        BY <1>1, <1>4, <2>1, <2>2
    <2>4. ~dirty' /\ ~torn' => IsSavePoint(buf'.uh)
        BY <1>1, <1>5, <1>10 DEF Inv, SameText, SameActions, IsSavePoint
    <2>5. dirty' \in BOOLEAN
        BY <1>4, <1>10
    <2> QED BY <1>1, <2>1, <2>2, <2>3, <2>4, <2>5 DEF Inv
<1> QED BY <1>1, <1>9, <1>10 DEF e, p, begun

\* The buffer once a file was read into it.
LEMMA LoadedIs ==
    ASSUME NEW first, GoodBuffer(buf, first), NEW t \in Texts, NEW eol \in EolModesFor(t)
    PROVE  LET b == ConvertLineEnds(InsertString(Cleared(buf), 0, t), eol)
           IN  Edited(buf, b, first) /\ b \in Buffers
<1> DEFINE read == InsertString(Cleared(buf), 0, t)
           b == ConvertLineEnds(read, eol)
<1>1. t \in Seq(Chars) /\ eol \in EolModes
    BY Bounds DEF EolModesFor, EolModes
<1>2. Edited(buf, read, first)
    BY <1>1, ReadIs
<1> HIDE DEF read
<1>3. Edited(read, b, first)
    BY <1>1, <1>2, ConvertLineEndsIs DEF Edited
<1> HIDE DEF b
<1>4. Edited(buf, b, first)
    BY <1>2, <1>3, EditedTwice
<1> QED BY <1>4 DEF Edited, GoodBuffer, b, read

LEMMA LoadGood == Inv /\ Load => Inv'
<1> SUFFICES ASSUME Inv, Load PROVE Inv'
    OBVIOUS
<1>1. PICK t \in Texts : \E eol \in EolModesFor(t) :
          LET b == Filled(t, eol)
          IN  /\ buf' = b /\ base' = b.text /\ torn' = FALSE /\ dirty' = FALSE
              /\ UNCHANGED <<batch, leaks>>
    BY DEF Load
<1>2. PICK eol \in EolModesFor(t) :
          /\ buf' = Filled(t, eol) /\ base' = Filled(t, eol).text
          /\ torn' = FALSE /\ dirty' = FALSE /\ batch' = batch /\ leaks' = leaks
    BY <1>1
<1>4. GoodBuffer(buf, base)
    BY DEF Inv
<1> DEFINE b == ConvertLineEnds(InsertString(Cleared(buf), 0, t), eol)
<1>6. Edited(buf, b, base)
    BY <1>4, LoadedIs
<1>7. Filled(t, eol) = [b EXCEPT !.uh = DeleteUndoHistory(@), !.group = NoGroup]
    BY DEF Filled
<1> HIDE DEF b
<1>8. b.text \in Seq(Chars) /\ b.uh.depth = buf.uh.depth /\ b.uh.depth \in Nat /\ b \in Buffers
    <2>1. GoodBuffer(b, base)
        BY <1>6 DEF Edited
    <2>2. b.uh.depth \in Nat
        BY <2>1, HistoryParts DEF GoodBuffer
    <2> QED BY <1>6, <2>1, <2>2 DEF Edited, GoodBuffer, Buffers
<1>9. /\ buf' = [text |-> b.text, uh |-> [NewHistory EXCEPT !.depth = b.uh.depth],
                 group |-> NoGroup]
      /\ base' = b.text
    BY <1>2, <1>7, <1>8 DEF DeleteUndoHistory, Buffers
<1>10. /\ GoodBuffer(buf', b.text) /\ buf'.uh.depth = b.uh.depth
       /\ IsSavePoint(buf'.uh)
    BY <1>8, <1>9, EmptiedIs
<1> QED BY <1>2, <1>8, <1>9, <1>10 DEF Inv

LEMMA LoadTornGood == Inv /\ LoadTorn => Inv'
<1> SUFFICES ASSUME Inv, LoadTorn PROVE Inv'
    OBVIOUS
<1>1. PICK t \in Texts \cup {<<>>} :
          /\ buf' = InsertString(Cleared(buf), 0, t) /\ torn' = TRUE
          /\ dirty' = dirty /\ batch' = batch /\ leaks' = leaks /\ base' = base
    BY DEF LoadTorn
<1>2. t \in Seq(Chars)
    <2>1. CASE t \in Texts
        BY <2>1, Bounds
    <2>2. CASE t = <<>>
        BY <2>2
    <2> QED BY <2>1, <2>2
<1>3. Edited(buf, buf', base)
    BY <1>1, <1>2, ReadIs DEF Inv
<1>4. GoodBuffer(buf', base') /\ buf'.uh.depth = batch' + leaks'
    BY <1>1, <1>3 DEF Edited, Inv
<1> QED BY <1>1, <1>4 DEF Inv

LEMMA StepGood == Inv /\ [Next]_vars => Inv'
<1> SUFFICES ASSUME Inv, [Next]_vars PROVE Inv'
    OBVIOUS
<1>1. CASE Type
    BY <1>1, TypeGood
<1>2. CASE Erase
    BY <1>2, EraseGood
<1>3. CASE ConvertEols
    BY <1>3, ConvertEolsGood
<1>4. CASE Undo
    BY <1>4, UndoGood
<1>5. CASE Redo
    BY <1>5, RedoGood
<1>6. CASE Save
    BY <1>6, SaveGood
<1>7. CASE PushUndoLevel
    BY <1>7, PushGood
<1>8. CASE PopUndoLevel \/ ResetUndoLevel
    BY <1>8, PopsGood
<1>9. CASE InsertFile
    BY <1>9, InsertFileGood
<1>10. CASE Load
    BY <1>10, LoadGood
<1>11. CASE LoadTorn
    BY <1>11, LoadTornGood
<1>12. CASE UNCHANGED vars
    BY <1>12 DEF vars, Inv
<1> QED BY <1>1, <1>2, <1>3, <1>4, <1>5, <1>6, <1>7, <1>8, <1>9, <1>10, <1>11, <1>12 DEF Next

LEMMA AlwaysGood == Spec => []Inv
<1> QED BY InitGood, StepGood, PTL DEF Spec

\* The groups that are open are those of fx.batch and of the failed insertions, so
\* that EndUndoAction never finds none open; and every variable has its type.
THEOREM GroupsMatchHolds == Spec => []GroupsMatch
<1>1. ASSUME Inv PROVE GroupsMatch
    <2>1. /\ WellFormed(buf.uh, Chars) /\ buf \in Buffers
        BY <1>1 DEF Inv, GoodBuffer
    <2>2. buf.uh.cur \in Places(buf.uh) /\ buf.uh.save \in -1 .. LastPlace(buf.uh)
        BY <2>1 DEF WellFormed, Places, IsStart
    <2>3. buf.text \in Seq({CR, LF, Letter}) /\ base \in Seq({CR, LF, Letter})
        BY <1>1, <2>1 DEF Inv, Buffers, Chars
    <2>4. TypeOK
        BY <1>1, <2>2, <2>3 DEF Inv, TypeOK
    <2> QED BY <1>1, <2>4 DEF Inv, GroupsMatch
<1> QED BY <1>1, AlwaysGood, PTL

\* A document that is not called modified is where undo and redo find the saved
\* text, whatever was edited, undone, inserted, loaded or converted.
THEOREM CleanIsSavedHolds == Spec => []CleanIsSaved
<1>1. Inv => CleanIsSaved
    BY DEF Inv, CleanIsSaved
<1> QED BY <1>1, AlwaysGood, PTL

\* Nothing starts inside an explicit group: it is undone and redone at once, alone.
THEOREM GroupIsOneStepHolds == Spec => []GroupIsOneStep
<1>1. ASSUME Inv PROVE GroupIsOneStep
    <2> DEFINE g == buf.group
               end == IF g.to = Opened THEN buf.uh.cur ELSE g.to
    <2>1. ASSUME g.from # None PROVE Whole(buf.uh, g.from, end)
        BY <1>1, <2>1 DEF Inv, GoodBuffer, GoodGroup
    <2>2. ASSUME g.from # None
          PROVE  {i \in g.from .. end : buf.uh.acts[i + 1].at = "start"} = {g.from, end}
        <3>1. PICK last \in Nat : last = LastPlace(buf.uh)
            BY <1>1, HistoryParts DEF Inv, GoodBuffer
        <3>2. /\ g.from \in 0 .. end /\ end \in 0 .. last
              /\ IsStart(buf.uh, g.from) /\ IsStart(buf.uh, end)
              /\ \A i \in g.from + 1 .. end - 1 : ~IsStart(buf.uh, i)
            BY <2>1, <2>2, <3>1 DEF Whole
        <3> HIDE DEF g, end
        <3>3. /\ g.from \in g.from .. end /\ end \in g.from .. end
              /\ \A i \in g.from .. end :
                     i = g.from \/ i = end \/ i \in g.from + 1 .. end - 1
            BY <3>2
        <3> QED BY <3>2, <3>3 DEF IsStart
    <2> QED BY <2>2 DEF GroupIsOneStep
<1> QED BY <1>1, AlwaysGood, PTL

(*************************************************************************)
(* Converting line ends leaves those of the one kind, and as many.       *)
(*************************************************************************)

LEMMA EolChars ==
    /\ Len(CRLF) = 2 /\ CRLF[1] = CR /\ CRLF[2] = LF
    /\ Len(<<CR>>) = 1 /\ <<CR>>[1] = CR /\ Len(<<LF>>) = 1 /\ <<LF>>[1] = LF
    /\ CRLF # <<CR>> /\ CRLF # <<LF>> /\ <<CR>> # <<LF>> /\ CR # LF
<1>1. Len(<<CR, LF>>) = 2 /\ <<CR, LF>>[1] = CR /\ <<CR, LF>>[2] = LF
    OBVIOUS
<1>2. Len(<<CR>>) = 1 /\ <<CR>>[1] = CR /\ Len(<<LF>>) = 1 /\ <<LF>>[1] = LF
    OBVIOUS
<1>3. CR # LF
    BY DEF CR, LF
<1> QED BY <1>1, <1>2, <1>3 DEF CRLF

\* s is in u after place c; v is u with s there instead of k characters.
StandsAt(u, c, s) == c + Len(s) <= Len(u) /\ \A j \in 1 .. Len(s) : u[c + j] = s[j]

Exchanged(v, u, c, k, s) ==
    /\ v \in Seq(Chars) /\ Len(v) = Len(u) - k + Len(s)
    /\ \A i \in 1 .. Len(v) : v[i] = IF i <= c THEN u[i] ELSE IF i <= c + Len(s) THEN s[i - c]
                                     ELSE u[i - Len(s) + k]

LEMMA ConvertEndText ==
    ASSUME NEW first, NEW b, GoodBuffer(b, first), NEW c \in Nat, NEW end \in EolModes,
           NEW eol \in EolModes, StandsAt(b.text, c, end)
    PROVE  Exchanged(ConvertEnd(b, c, end, eol).text, b.text, c, Len(end), eol)
<1> DEFINE u == b.text
           v == ConvertEnd(b, c, end, eol).text
<1>1. u \in Seq(Chars)
    BY DEF GoodBuffer, Buffers
<1>2. PICK n \in Nat : n = Len(u)
    BY <1>1, SequenceOf
<1>3. c + Len(end) <= n /\ \A j \in 1 .. Len(end) : u[c + j] = end[j]
    BY <1>2 DEF StandsAt
<1>4. CASE end = eol
    <2>1. ConvertEnd(b, c, end, eol) = b
        BY <1>4 DEF ConvertEnd
    <2>2. PICK k \in Nat : k = Len(eol) /\ Len(end) = k
        BY <1>4, EolChars DEF EolModes
    <2>3. ASSUME NEW i \in 1 .. n
          PROVE  u[i] = IF i <= c THEN u[i] ELSE IF i <= c + k THEN eol[i - c] ELSE u[i - k + k]
        <3>1. i - k + k = i
            BY <2>2
        <3>2. CASE i > c /\ i <= c + k
            <4>1. i - c \in 1 .. k /\ c + (i - c) = i
                BY <3>2
            <4> QED BY <1>3, <1>4, <2>2, <3>2, <4>1
        <3> QED BY <3>1, <3>2
    <2>4. n - k + k = n
        BY <2>2
    <2> QED BY <1>1, <1>2, <2>1, <2>2, <2>3, <2>4 DEF Exchanged
<1>5. CASE end # eol /\ end = CRLF
    <2>1. Len(end) = 2 /\ u[c + 1] = CR /\ u[c + 2] = LF /\ c + 2 <= n
        <3>1. Len(end) = 2 /\ end[1] = CR /\ end[2] = LF
            BY <1>5, EolChars
        <3>2. 1 \in 1 .. 2 /\ 2 \in 1 .. 2
            OBVIOUS
        <3> QED BY <1>3, <3>1, <3>2
    <2>2. Len(eol) = 1 /\ eol \in {<<CR>>, <<LF>>} /\ eol[1] = IF eol = <<CR>> THEN CR ELSE LF
        BY <1>5, EolChars DEF EolModes
    <2>3. PICK q \in Nat : q = (IF eol = <<CR>> THEN c + 1 ELSE c)
        OBVIOUS
    <2>4. ConvertEnd(b, c, end, eol) = DeleteChars(b, q, 1)
        BY <1>5, <2>3 DEF ConvertEnd
    <2>5. q + 1 <= n
        BY <2>1, <2>3
    <2>6. v = Deleted(u, q, 1)
        BY <1>2, <2>4, <2>5, DeleteCharsIs
    <2>7. TakenOut(v, u, q, 1, Chars)
        BY <1>1, <1>2, <2>5, <2>6, DeletedIs
    <2> HIDE DEF v
    <2>8. /\ v \in Seq(Chars) /\ Len(v) = n - 1
          /\ \A i \in 1 .. n - 1 : v[i] = IF i <= q THEN u[i] ELSE u[i + 1]
        BY <1>2, <2>7 DEF TakenOut
    <2>9. ASSUME NEW i \in 1 .. n - 1
          PROVE  v[i] = IF i <= c THEN u[i] ELSE IF i <= c + 1 THEN eol[i - c] ELSE u[i - 1 + 2]
        <3>1. CASE i <= c
            BY <2>3, <2>8, <3>1
        <3>2. CASE i = c + 1
            <4>1. i - c = 1 /\ i + 1 = c + 2 /\ ~(i <= c) /\ i <= c + 1
                BY <3>2
            <4>2. v[i] = IF eol = <<CR>> THEN u[c + 1] ELSE u[c + 2]
                BY <2>3, <2>8, <3>2, <4>1
            <4> QED BY <2>1, <2>2, <4>1, <4>2
        <3>3. CASE i > c + 1
            <4>1. ~(i <= c) /\ ~(i <= c + 1) /\ ~(i <= q) /\ i - 1 + 2 = i + 1
                BY <2>3, <3>3
            <4> QED BY <2>8, <4>1
        <3> QED BY <3>1, <3>2, <3>3
    <2>10. n - 1 = n - 2 + 1
        BY <1>2
    <2>11. Exchanged(v, u, c, Len(end), eol)
        BY <1>2, <2>1, <2>2, <2>8, <2>9, <2>10 DEF Exchanged
    <2> QED BY <2>11 DEF v
<1>6. CASE end # eol /\ end # CRLF /\ eol = CRLF
    <2>1. Len(eol) = 2 /\ eol[1] = CR /\ eol[2] = LF
        BY <1>6, EolChars
    <2>2. /\ Len(end) = 1 /\ end \in {<<CR>>, <<LF>>} /\ c + 1 <= n
          /\ u[c + 1] = IF end = <<CR>> THEN CR ELSE LF
        <3>1. /\ Len(end) = 1 /\ end \in {<<CR>>, <<LF>>}
              /\ end[1] = IF end = <<CR>> THEN CR ELSE LF
            BY <1>6, EolChars DEF EolModes
        <3>2. 1 \in 1 .. 1
            OBVIOUS
        <3> QED BY <1>3, <3>1, <3>2
    <2>3. PICK q \in 0 .. n, s \in {<<CR>>, <<LF>>} :
              /\ q = IF end = <<CR>> THEN c + 1 ELSE c
              /\ s = IF end = <<CR>> THEN <<LF>> ELSE <<CR>>
        BY <2>2
    <2>4. ConvertEnd(b, c, end, eol) = InsertString(b, q, s)
        BY <1>6, <2>2, <2>3, EolChars DEF ConvertEnd
    <2>5. s \in Seq(Chars) /\ Len(s) = 1 /\ s[1] = IF end = <<CR>> THEN LF ELSE CR
        <3>1. s \in EolModes
            BY <2>3 DEF EolModes
        <3> QED BY <2>3, <3>1, EolIs, EolChars
    <2>6. v = Inserted(u, q, s)
        <3>1. q \in 0 .. Len(b.text) /\ s \in Seq(Chars)
            BY <1>2, <2>5
        <3>2. InsertString(b, q, s).text = Inserted(b.text, q, s)
            BY <3>1, InsertStringIs
        <3> QED BY <2>4, <3>2
    <2>7. PutIn(v, u, q, s, Chars)
        BY <1>1, <1>2, <2>3, <2>5, <2>6, InsertedIs
    <2> HIDE DEF v
    <2>8. /\ v \in Seq(Chars) /\ Len(v) = n + 1
          /\ \A i \in 1 .. n + 1 : v[i] = IF i <= q THEN u[i] ELSE IF i <= q + 1 THEN s[i - q]
                                          ELSE u[i - 1]
        BY <1>2, <2>5, <2>7 DEF PutIn
    <2>9. ASSUME NEW i \in 1 .. n + 1
          PROVE  v[i] = IF i <= c THEN u[i] ELSE IF i <= c + 2 THEN eol[i - c] ELSE u[i - 2 + 1]
        <3>1. CASE i <= c
            BY <2>3, <2>8, <3>1
        <3>2. CASE i = c + 1
            <4>1. i - c = 1 /\ ~(i <= c) /\ i <= c + 2
                BY <3>2
            <4>2. CASE end = <<CR>>
                BY <2>1, <2>2, <2>3, <2>8, <3>2, <4>1, <4>2
            <4>3. CASE end # <<CR>>
                <5>1. ~(i <= q) /\ i <= q + 1 /\ i - q = 1
                    BY <2>3, <3>2, <4>3
                <5> QED BY <2>1, <2>5, <2>8, <4>1, <4>3, <5>1
            <4> QED BY <4>2, <4>3
        <3>3. CASE i = c + 2
            <4>1. i - c = 2 /\ ~(i <= c) /\ i <= c + 2 /\ ~(i <= q) /\ i - 1 = c + 1
                BY <2>3, <3>3
            <4>2. CASE end = <<CR>>
                <5>1. i <= q + 1 /\ i - q = 1
                    BY <2>3, <3>3, <4>2
                <5> QED BY <2>1, <2>5, <2>8, <4>1, <4>2, <5>1
            <4>3. CASE end # <<CR>>
                <5>1. ~(i <= q + 1)
                    BY <2>3, <3>3, <4>3
                <5> QED BY <2>1, <2>2, <2>8, <4>1, <4>3, <5>1
            <4> QED BY <4>2, <4>3
        <3>4. CASE i > c + 2
            <4>1. ~(i <= c) /\ ~(i <= c + 2) /\ ~(i <= q) /\ ~(i <= q + 1) /\ i - 2 + 1 = i - 1
                BY <2>3, <3>4
            <4> QED BY <2>8, <4>1
        <3> QED BY <3>1, <3>2, <3>3, <3>4
    <2>10. n + 1 = n - 1 + 2
        BY <1>2
    <2>11. Exchanged(v, u, c, Len(end), eol)
        BY <1>2, <2>1, <2>2, <2>8, <2>9, <2>10 DEF Exchanged
    <2> QED BY <2>11 DEF v
<1>7. CASE end # eol /\ end # CRLF /\ eol # CRLF
    <2> DEFINE d == InsertString(b, c, eol)
               w == d.text
    <2>1. ConvertEnd(b, c, end, eol) = DeleteChars(d, c + 1, 1)
        BY <1>7 DEF ConvertEnd
    <2>2. Len(eol) = 1 /\ Len(end) = 1 /\ eol \in Seq(Chars)
        BY <1>7, EolChars, EolIs DEF EolModes
    <2>3. c \in 0 .. n /\ c + 1 <= n
        BY <1>2, <1>3, <2>2
    <2>4. w = Inserted(u, c, eol) /\ Edited(b, d, first)
        BY <1>2, <2>2, <2>3, InsertStringIs
    <2>5. PutIn(w, u, c, eol, Chars)
        BY <1>1, <1>2, <2>2, <2>3, <2>4, InsertedIs
    <2> HIDE DEF w, d
    <2>6. /\ w \in Seq(Chars) /\ Len(w) = n + 1
          /\ \A i \in 1 .. n + 1 : w[i] = IF i <= c THEN u[i] ELSE IF i <= c + 1 THEN eol[i - c]
                                          ELSE u[i - 1]
        BY <1>2, <2>2, <2>5 DEF PutIn
    <2>7. c + 1 \in Nat /\ 1 \in Nat /\ c + 1 + 1 <= Len(w)
        BY <2>3, <2>6
    <2>8. v = Deleted(w, c + 1, 1)
        <3>1. GoodBuffer(d, first)
            BY <2>4 DEF Edited
        <3> QED BY <2>1, <2>7, <3>1, DeleteCharsIs DEF w
    <2>9. TakenOut(v, w, c + 1, 1, Chars)
        BY <2>6, <2>7, <2>8, DeletedIs
    <2> HIDE DEF v
    <2>10. /\ v \in Seq(Chars) /\ Len(v) = n
           /\ \A i \in 1 .. n : v[i] = IF i <= c + 1 THEN w[i] ELSE w[i + 1]
        <3>1. Len(w) - 1 = n
            BY <1>2, <2>6
        <3>2. /\ v \in Seq(Chars) /\ Len(v) = Len(w) - 1
              /\ \A i \in 1 .. Len(w) - 1 : v[i] = IF i <= c + 1 THEN w[i] ELSE w[i + 1]
            BY <2>9 DEF TakenOut
        <3> QED BY <3>1, <3>2
    <2>11. ASSUME NEW i \in 1 .. n
           PROVE  v[i] = IF i <= c THEN u[i] ELSE IF i <= c + 1 THEN eol[i - c] ELSE u[i - 1 + 1]
        <3>1. /\ i \in 1 .. n + 1 /\ i + 1 \in 1 .. n + 1 /\ (i + 1) - 1 = i /\ i - 1 + 1 = i
              /\ i > c + 1 => ~(i + 1 <= c) /\ ~(i + 1 <= c + 1) /\ ~(i <= c)
              /\ ~(i <= c + 1) <=> i > c + 1
            BY <1>2
        <3> QED BY <2>6, <2>10, <3>1
    <2>12. n = n - 1 + 1
        BY <1>2
    <2>13. Exchanged(v, u, c, Len(end), eol)
        BY <1>2, <2>2, <2>10, <2>11, <2>12 DEF Exchanged
    <2> QED BY <2>13 DEF v
<1> QED BY <1>4, <1>5, <1>6, <1>7

\* In the first c characters of u every line end is a whole eol.
Uniform(u, c, eol) ==
    \A i \in 1 .. c :
        /\ u[i] = CR => eol # <<LF>> /\ (eol = CRLF => i < c /\ u[i + 1] = LF)
        /\ u[i] = LF => eol # <<CR>> /\ (eol = CRLF => i > 1 /\ u[i - 1] = CR)

\* The line ends before place c.
EndsTo(u, c) == {p \in LineEnds(u) : p < c}

LEMMA LineEndIs ==
    ASSUME NEW u \in Seq(Chars), NEW p \in Int
    PROVE  p \in LineEnds(u) <=> /\ 0 <= p /\ p < Len(u)
                                 /\ u[p + 1] = CR \/ (u[p + 1] = LF /\ ~(p > 0 /\ u[p] = CR))
<1>1. PICK n \in Nat : n = Len(u)
    BY SequenceOf
<1>2. CASE ~(0 <= p /\ p < n)
    BY <1>1, <1>2 DEF LineEnds
<1>3. CASE 0 <= p /\ p < n
    <2>1. p \in 0 .. n - 1 /\ CharAt(u, p) = u[p + 1]
        BY <1>1, <1>3 DEF CharAt
    <2>2. CharAt(u, p - 1) = CR <=> p > 0 /\ u[p] = CR
        <3>1. CASE p > 0
            <4>1. p - 1 \in 0 .. n - 1 /\ p - 1 + 1 = p
                BY <1>3, <3>1
            <4> QED BY <1>1, <3>1, <4>1 DEF CharAt
        <3>2. CASE ~(p > 0)
            <4>1. p - 1 \notin 0 .. n - 1
                BY <3>2
            <4>2. CharAt(u, p - 1) = "none"
                BY <1>1, <4>1 DEF CharAt
            <4> QED BY <3>2, <4>2 DEF CR
        <3> QED BY <3>1, <3>2
    <2> QED BY <1>1, <1>3, <2>1, <2>2 DEF LineEnds
<1> QED BY <1>1, <1>2, <1>3

LEMMA EndsFinite ==
    ASSUME NEW u, NEW c \in Nat
    PROVE  IsFiniteSet(EndsTo(u, c)) /\ c \notin EndsTo(u, c)
<1>1. EndsTo(u, c) \subseteq 0 .. c - 1
    BY DEF EndsTo, LineEnds
<1>2. IsFiniteSet(0 .. c - 1)
    BY FS_Interval
<1>3. c \notin EndsTo(u, c)
    BY DEF EndsTo
<1> QED BY <1>1, <1>2, <1>3, FS_Subset

\* A character that ends no line adds nothing, and after a pair its second one neither.
LEMMA NoEndMore ==
    ASSUME NEW u \in Seq(Chars), NEW c \in Nat, c \notin LineEnds(u)
    PROVE  EndsTo(u, c + 1) = EndsTo(u, c)
<1>1. \A p \in LineEnds(u) : p \in Int
    BY DEF LineEnds
<1> QED BY <1>1 DEF EndsTo

LEMMA OneEndMore ==
    ASSUME NEW u \in Seq(Chars), NEW c \in Nat, NEW k \in {1, 2}, c \in LineEnds(u),
           k = 2 => u[c + 1] = CR /\ u[c + 2] = LF /\ c + 2 <= Len(u)
    PROVE  EndsTo(u, c + k) = EndsTo(u, c) \cup {c}
<1>1. \A p \in LineEnds(u) : p \in Int
    BY DEF LineEnds
<1>2. ASSUME k = 2 PROVE c + 1 \notin LineEnds(u)
    <2>1. u[(c + 1) + 1] = LF /\ c + 1 > 0
        BY <1>2
    <2>2. LF # CR
        BY DEF LF, CR
    <2> QED BY <1>2, <2>1, <2>2, LineEndIs
<1>3. \A p \in Int : p < c + k <=> p < c \/ p = c \/ (k = 2 /\ p = c + 1)
    OBVIOUS
<1> QED BY <1>1, <1>2, <1>3 DEF EndsTo

LEMMA OneEndCounts ==
    ASSUME NEW u \in Seq(Chars), NEW c \in Nat, NEW S, S = EndsTo(u, c) \cup {c}
    PROVE  Cardinality(S) = Cardinality(EndsTo(u, c)) + 1
BY EndsFinite, FS_AddElement

\* Only the characters before c say what the line ends there are.
LEMMA SameEnds ==
    ASSUME NEW u \in Seq(Chars), NEW v \in Seq(Chars), NEW c \in Nat, c <= Len(u), c <= Len(v),
           \A i \in 1 .. c : v[i] = u[i]
    PROVE  EndsTo(v, c) = EndsTo(u, c)
<1>1. PICK n \in Nat, m \in Nat : n = Len(u) /\ m = Len(v)
    BY SequenceOf
<1>2. ASSUME NEW p \in Int, p < c PROVE p \in LineEnds(v) <=> p \in LineEnds(u)
    <2>1. CASE 0 <= p
        <3>1. p + 1 \in 1 .. c /\ (p > 0 => p \in 1 .. c) /\ p < n /\ p < m
            BY <1>1, <1>2, <2>1
        <3> QED BY <1>1, <3>1, LineEndIs
    <2>2. CASE ~(0 <= p)
        BY <2>2, LineEndIs
    <2> QED BY <2>1, <2>2
<1>3. \A p \in LineEnds(u) \cup LineEnds(v) : p \in Int
    BY DEF LineEnds
<1> QED BY <1>2, <1>3 DEF EndsTo

\* An eol more at the end of what is uniform leaves it so, and is one line end.
Appended(v, u, c, eol, d) ==
    /\ c <= Len(u) /\ d = c + Len(eol) /\ d <= Len(v)
    /\ \A i \in 1 .. c : v[i] = u[i]
    /\ \A j \in 1 .. Len(eol) : v[c + j] = eol[j]

LEMMA EolAppended ==
    ASSUME NEW u \in Seq(Chars), NEW v \in Seq(Chars), NEW c \in Nat, NEW d \in Nat,
           NEW eol \in EolModes, Uniform(u, c, eol), Appended(v, u, c, eol, d)
    PROVE  Uniform(v, d, eol) /\ EndsTo(v, d) = EndsTo(u, c) \cup {c}
<1>0. PICK k \in {1, 2} : k = Len(eol) /\ (k = 2 <=> eol = CRLF)
    BY EolChars DEF EolModes
<1>1. PICK m \in Nat :
          /\ m = Len(v) /\ d = c + k /\ c + k <= m /\ c <= Len(u)
          /\ \A i \in 1 .. c : v[i] = u[i]
          /\ \A j \in 1 .. k : v[c + j] = eol[j]
    BY <1>0, SequenceOf DEF Appended
<1>2. /\ eol = CRLF => v[c + 1] = CR /\ v[c + 2] = LF
      /\ eol = <<CR>> => v[c + 1] = CR
      /\ eol = <<LF>> => v[c + 1] = LF
    <2>1. 1 \in 1 .. k /\ (k = 2 => 2 \in 1 .. k)
        OBVIOUS
    <2> QED BY <1>0, <1>1, <2>1, EolChars
<1>3. ASSUME NEW i \in 1 .. c + k
      PROVE  /\ v[i] = CR => eol # <<LF>> /\ (eol = CRLF => i < c + k /\ v[i + 1] = LF)
             /\ v[i] = LF => eol # <<CR>> /\ (eol = CRLF => i > 1 /\ v[i - 1] = CR)
    <2>1. CASE i <= c
        <3>1. i \in 1 .. c /\ (i < c => i + 1 \in 1 .. c) /\ (i > 1 => i - 1 \in 1 .. c)
            BY <2>1
        <3>2. /\ u[i] = CR => eol # <<LF>> /\ (eol = CRLF => i < c /\ u[i + 1] = LF)
              /\ u[i] = LF => eol # <<CR>> /\ (eol = CRLF => i > 1 /\ u[i - 1] = CR)
            BY <3>1 DEF Uniform
        <3>3. i < c => i < c + k
            BY <1>1
        <3>4. /\ v[i] = u[i] /\ (i < c => v[i + 1] = u[i + 1]) /\ (i > 1 => v[i - 1] = u[i - 1])
            BY <1>1, <3>1
        <3>5. ASSUME v[i] = CR PROVE eol # <<LF>> /\ (eol = CRLF => i < c + k /\ v[i + 1] = LF)
            <4>1. u[i] = CR
                BY <3>4, <3>5
            <4> QED BY <3>2, <3>3, <3>4, <4>1
        <3>6. ASSUME v[i] = LF PROVE eol # <<CR>> /\ (eol = CRLF => i > 1 /\ v[i - 1] = CR)
            <4>1. u[i] = LF
                BY <3>4, <3>6
            <4> QED BY <3>2, <3>4, <4>1
        <3> QED BY <3>5, <3>6
    <2>2. CASE i = c + 1
        <3>1. i - 1 = c /\ i + 1 = c + 2 /\ (k = 2 => i < c + k)
            BY <1>1, <2>2
        <3>2. CASE eol = CRLF
            <4>1. v[i] = CR /\ v[i + 1] = LF /\ i < c + k
                BY <1>0, <1>1, <1>2, <2>2, <3>1, <3>2
            <4> QED BY <3>2, <4>1, EolChars
        <3>3. CASE eol = <<CR>>
            BY <1>2, <2>2, <3>3, EolChars
        <3>4. CASE eol = <<LF>>
            BY <1>2, <2>2, <3>4, EolChars
        <3> QED BY <3>2, <3>3, <3>4 DEF EolModes
    <2>3. CASE i = c + 2
        <3>1. k = 2 /\ i - 1 = c + 1 /\ i > 1
            BY <1>0, <1>1, <2>3
        <3>2. eol = CRLF /\ v[i] = LF /\ v[i - 1] = CR
            BY <1>0, <1>1, <1>2, <2>3, <3>1
        <3> QED BY <3>1, <3>2, EolChars
    <2>4. i <= c \/ i = c + 1 \/ i = c + 2
        <3>1. k = 1 \/ k = 2
            OBVIOUS
        <3> QED BY <3>1
    <2> QED BY <2>1, <2>2, <2>3, <2>4
<1>4. c \in LineEnds(v)
    <2>1. 0 <= c /\ c < m
        BY <1>1
    <2>2. CASE v[c + 1] = CR
        BY <1>1, <2>1, <2>2, LineEndIs
    <2>3. CASE v[c + 1] # CR
        <3>1. eol = <<LF>> /\ v[c + 1] = LF
            BY <1>2, <2>3 DEF EolModes
        <3>2. c > 0 => v[c] # CR
            <4>1. c > 0 => c \in 1 .. c
                OBVIOUS
            <4>2. c > 0 => u[c] # CR
                BY <3>1, <4>1 DEF Uniform
            <4> QED BY <1>1, <4>1, <4>2
        <3> QED BY <1>1, <2>1, <3>1, <3>2, LineEndIs
    <2> QED BY <2>2, <2>3
<1>5. k = 2 => v[c + 1] = CR /\ v[c + 2] = LF /\ c + 2 <= Len(v)
    BY <1>0, <1>1, <1>2
<1>6. EndsTo(v, c + k) = EndsTo(v, c) \cup {c}
    BY <1>4, <1>5, OneEndMore
<1>7. EndsTo(v, c) = EndsTo(u, c)
    <2>1. c <= m
        BY <1>1
    <2> QED BY <1>1, <2>1, SameEnds
<1> QED BY <1>1, <1>3, <1>6, <1>7 DEF Uniform

LEMMA UniformEnds ==
    ASSUME NEW u \in Seq(Chars), NEW eol \in EolModes, Uniform(u, Len(u), eol),
           NEW p \in LineEnds(u)
    PROVE  EndAt(u, p) = eol
<1>1. PICK n \in Nat : n = Len(u)
    BY SequenceOf
<1>2. p \in Int
    BY DEF LineEnds
<1>3. 0 <= p /\ p < n /\ (u[p + 1] = CR \/ (u[p + 1] = LF /\ ~(p > 0 /\ u[p] = CR)))
    BY <1>1, <1>2, LineEndIs
<1>4. p + 1 \in 1 .. n /\ (p + 1) + 1 = p + 2 /\ (p + 1) - 1 = p /\ (p + 1 > 1 <=> p > 0)
    BY <1>2, <1>3
<1>5. /\ u[p + 1] = CR => eol # <<LF>> /\ (eol = CRLF => p + 1 < n /\ u[p + 2] = LF)
      /\ u[p + 1] = LF => eol # <<CR>> /\ (eol = CRLF => p > 0 /\ u[p] = CR)
    BY <1>1, <1>4 DEF Uniform
<1>6. CharAt(u, p) = u[p + 1]
    BY <1>1, <1>2, <1>3 DEF CharAt
<1>7. CASE u[p + 1] = CR
    <2>1. CASE eol = CRLF
        <3>1. p + 1 \in 0 .. n - 1
            BY <1>2, <1>3, <1>5, <1>7, <2>1
        <3>2. CharAt(u, p + 1) = LF
            BY <1>1, <1>4, <1>5, <1>7, <2>1, <3>1 DEF CharAt
        <3> QED BY <1>6, <1>7, <2>1, <3>2 DEF EndAt
    <2>2. CASE eol = <<CR>>
        <3>1. CharAt(u, p + 1) # LF
            <4>1. CASE p + 1 \in 0 .. n - 1
                <5>1. p + 2 \in 1 .. n
                    BY <1>2, <4>1
                <5>2. u[p + 2] # LF
                    BY <1>1, <2>2, <5>1 DEF Uniform
                <5> QED BY <1>1, <1>4, <4>1, <5>2 DEF CharAt
            <4>2. CASE p + 1 \notin 0 .. n - 1
                <5>1. CharAt(u, p + 1) = "none"
                    BY <1>1, <4>2 DEF CharAt
                <5> QED BY <5>1 DEF LF
            <4> QED BY <4>1, <4>2
        <3> QED BY <1>6, <1>7, <2>2, <3>1 DEF EndAt
    <2> QED BY <1>5, <1>7, <2>1, <2>2 DEF EolModes
<1>8. CASE u[p + 1] = LF /\ u[p + 1] # CR
    <2>1. eol = <<LF>>
        BY <1>3, <1>5, <1>8 DEF EolModes
    <2> QED BY <1>6, <1>8, <2>1 DEF EndAt
<1> QED BY <1>3, <1>7, <1>8

\* The text t up to place q has become the beginning of u, and the rest is as it was.
Half(u, t, q, eol) ==
    LET c == q + Len(u) - Len(t)
    IN  /\ u \in Seq(Chars) /\ c \in Nat /\ q \in 0 .. Len(t)
        /\ \A i \in 1 .. Len(t) - q : u[c + i] = t[q + i]
        /\ Uniform(u, c, eol)
        /\ Cardinality(EndsTo(u, c)) = Cardinality(EndsTo(t, q))

LEMMA HalfStart ==
    ASSUME NEW t \in Seq(Chars), NEW eol \in EolModes
    PROVE  Half(t, t, 0, eol)
<1>1. PICK n \in Nat : n = Len(t)
    BY SequenceOf
<1>2. 0 + n - n = 0 /\ 0 \in 0 .. n
    BY <1>1
<1>3. Uniform(t, 0, eol)
    BY DEF Uniform
<1>4. \A i \in 1 .. n - 0 : t[0 + i] = t[0 + i]
    OBVIOUS
<1> QED BY <1>1, <1>2, <1>3, <1>4 DEF Half

LEMMA HalfWhole ==
    ASSUME NEW u, NEW t \in Seq(Chars), NEW eol \in EolModes, Half(u, t, Len(t), eol)
    PROVE  /\ \A p \in LineEnds(u) : EndAt(u, p) = eol
           /\ Cardinality(LineEnds(u)) = Cardinality(LineEnds(t))
<1>1. PICK n \in Nat : n = Len(t)
    BY SequenceOf
<1>2. u \in Seq(Chars)
    BY DEF Half
<1>3. PICK m \in Nat : m = Len(u)
    BY <1>2, SequenceOf
<1>4. n + m - n = m
    BY <1>1, <1>3
<1>5. Uniform(u, m, eol) /\ Cardinality(EndsTo(u, m)) = Cardinality(EndsTo(t, n))
    BY <1>1, <1>3, <1>4 DEF Half
<1>6. EndsTo(u, m) = LineEnds(u) /\ EndsTo(t, n) = LineEnds(t)
    BY <1>1, <1>3 DEF EndsTo, LineEnds
<1> QED BY <1>2, <1>3, <1>5, <1>6, UniformEnds

\* A character that ends no line.
LEMMA HalfSkips ==
    ASSUME NEW u, NEW t \in Seq(Chars), NEW eol \in EolModes, NEW q \in Nat, q < Len(t),
           Half(u, t, q, eol), t[q + 1] \notin {CR, LF}
    PROVE  Half(u, t, q + 1, eol)
<1>1. PICK n \in Nat : n = Len(t)
    BY SequenceOf
<1>2. u \in Seq(Chars)
    BY DEF Half
<1>3. PICK m \in Nat : m = Len(u)
    BY <1>2, SequenceOf
<1>4. PICK c \in Nat : c = q + m - n
    BY <1>1, <1>3 DEF Half
<1>5. /\ \A i \in 1 .. n - q : u[c + i] = t[q + i]
      /\ Uniform(u, c, eol)
      /\ Cardinality(EndsTo(u, c)) = Cardinality(EndsTo(t, q))
    BY <1>1, <1>3, <1>4 DEF Half
<1>6. q + 1 + m - n = c + 1 /\ q + 1 \in 0 .. n /\ 1 \in 1 .. n - q
    BY <1>1, <1>3, <1>4
<1>7. u[c + 1] \notin {CR, LF}
    BY <1>5, <1>6
<1>8. c \notin LineEnds(u) /\ q \notin LineEnds(t)
    <2>1. c \in Int /\ q \in Int
        BY <1>4
    <2> QED BY <1>2, <1>7, <2>1, LineEndIs
<1>9. Cardinality(EndsTo(u, c + 1)) = Cardinality(EndsTo(t, q + 1))
    BY <1>2, <1>5, <1>8, NoEndMore
<1>10. Uniform(u, c + 1, eol)
    <2>1. ASSUME NEW i \in 1 .. c + 1
          PROVE  /\ u[i] = CR => eol # <<LF>> /\ (eol = CRLF => i < c + 1 /\ u[i + 1] = LF)
                 /\ u[i] = LF => eol # <<CR>> /\ (eol = CRLF => i > 1 /\ u[i - 1] = CR)
        <3>1. CASE i = c + 1
            BY <1>7, <3>1
        <3>2. CASE i # c + 1
            <4>1. i \in 1 .. c /\ i < c + 1
                BY <3>2
            <4> QED BY <1>5, <4>1 DEF Uniform
        <3> QED BY <3>1, <3>2
    <2> QED BY <2>1 DEF Uniform
<1>11. ASSUME NEW i \in 1 .. n - (q + 1) PROVE u[(c + 1) + i] = t[(q + 1) + i]
    <2>1. 1 + i \in 1 .. n - q /\ c + (1 + i) = (c + 1) + i /\ q + (1 + i) = (q + 1) + i
        BY <1>1
    <2> QED BY <1>5, <2>1
<1>12. (q + 1) + Len(u) - Len(t) = c + 1 /\ c + 1 \in Nat /\ q + 1 \in 0 .. Len(t)
    BY <1>1, <1>3, <1>6
<1> QED BY <1>1, <1>2, <1>9, <1>10, <1>11, <1>12 DEF Half

\* A line end.
LEMMA HalfConverts ==
    ASSUME NEW u, NEW v, NEW t \in Seq(Chars), NEW eol \in EolModes, NEW q \in Nat,
           Half(u, t, q, eol), q \in LineEnds(t), NEW end \in EolModes,
           StandsAt(t, q, end), Exchanged(v, u, q + Len(u) - Len(t), Len(end), eol)
    PROVE  Half(v, t, q + Len(end), eol)
<1>1. PICK n \in Nat : n = Len(t)
    BY SequenceOf
<1>2. u \in Seq(Chars) /\ v \in Seq(Chars)
    BY DEF Half, Exchanged
<1>3. PICK m \in Nat, l \in Nat : m = Len(u) /\ l = Len(v)
    BY <1>2, SequenceOf
<1>4. PICK c \in Nat : c = q + m - n
    BY <1>1, <1>3 DEF Half
<1>5. PICK k \in {1, 2}, j \in {1, 2} : k = Len(end) /\ j = Len(eol) /\ (k = 2 => end = CRLF)
    BY EolChars DEF EolModes
<1>6. /\ \A i \in 1 .. n - q : u[c + i] = t[q + i]
      /\ Uniform(u, c, eol)
      /\ Cardinality(EndsTo(u, c)) = Cardinality(EndsTo(t, q))
    BY <1>1, <1>3, <1>4 DEF Half
<1>7. /\ l = m - k + j
      /\ \A i \in 1 .. l : v[i] = IF i <= c THEN u[i] ELSE IF i <= c + j THEN eol[i - c]
                                  ELSE u[i - j + k]
    BY <1>1, <1>3, <1>4, <1>5 DEF Exchanged
<1>8. q + k <= n /\ \A i \in 1 .. k : t[q + i] = end[i]
    BY <1>1, <1>5 DEF StandsAt
<1>9. q + k + l - n = c + j /\ q + k \in 0 .. n /\ c <= m /\ c + j <= l /\ c <= l
    BY <1>1, <1>3, <1>4, <1>5, <1>7, <1>8
<1>10. /\ \A i \in 1 .. c : v[i] = u[i]
       /\ \A i \in 1 .. j : v[c + i] = eol[i]
    <2>1. ASSUME NEW i \in 1 .. c PROVE v[i] = u[i]
        <3>1. i \in 1 .. l /\ i <= c
            BY <1>3, <1>9
        <3> QED BY <1>7, <3>1
    <2>2. ASSUME NEW i \in 1 .. j PROVE v[c + i] = eol[i]
        <3>1. c + i \in 1 .. l /\ ~(c + i <= c) /\ c + i <= c + j /\ (c + i) - c = i
            BY <1>3, <1>5, <1>9
        <3> QED BY <1>7, <3>1
    <2> QED BY <2>1, <2>2
<1>11. Uniform(v, c + j, eol) /\ EndsTo(v, c + j) = EndsTo(u, c) \cup {c}
    <2>1. PICK d \in Nat : d = c + j
        OBVIOUS
    <2>2. c <= Len(u) /\ d <= Len(v) /\ d = c + Len(eol)
        BY <1>3, <1>5, <1>9, <2>1
    <2>3. Appended(v, u, c, eol, d)
        BY <1>5, <1>10, <2>2 DEF Appended
    <2>4. Uniform(u, c, eol)
        BY <1>6
    <2>5. Uniform(v, d, eol) /\ EndsTo(v, d) = EndsTo(u, c) \cup {c}
        BY <1>2, <2>3, <2>4, EolAppended
    <2> QED BY <2>1, <2>5
<1>12. EndsTo(t, q + k) = EndsTo(t, q) \cup {q}
    <2>1. k = 2 => t[q + 1] = CR /\ t[q + 2] = LF /\ q + 2 <= Len(t)
        <3>1. 1 \in 1 .. k /\ (k = 2 => 2 \in 1 .. k)
            BY <1>5
        <3> QED BY <1>1, <1>5, <1>8, <3>1, EolChars
    <2> QED BY <2>1, OneEndMore
<1>13. Cardinality(EndsTo(v, c + j)) = Cardinality(EndsTo(t, q + k))
    <2>1. Cardinality(EndsTo(v, c + j)) = Cardinality(EndsTo(u, c)) + 1
        BY <1>2, <1>11, OneEndCounts
    <2>2. Cardinality(EndsTo(t, q + k)) = Cardinality(EndsTo(t, q)) + 1
        BY <1>12, OneEndCounts
    <2> QED BY <1>6, <2>1, <2>2
<1>14. ASSUME NEW i \in 1 .. n - (q + k) PROVE v[(c + j) + i] = t[(q + k) + i]
    <2>1. (c + j) + i \in 1 .. l
        <3>1. i \in Int /\ 1 <= i /\ i <= n - (q + k) /\ l = m - k + j
            BY <1>1, <1>5, <1>7
        <3> QED BY <1>1, <1>3, <1>4, <1>5, <3>1
    <2>2. /\ ~((c + j) + i <= c) /\ ~((c + j) + i <= c + j)
          /\ ((c + j) + i) - j + k = c + (k + i) /\ q + (k + i) = (q + k) + i
          /\ k + i \in 1 .. n - q
        BY <1>1, <1>5
    <2>3. v[(c + j) + i] = u[c + (k + i)]
        BY <1>7, <2>1, <2>2
    <2> QED BY <1>6, <2>2, <2>3
<1>15. q + k + l - n \in Nat
    BY <1>5, <1>9
<1> QED BY <1>1, <1>2, <1>3, <1>5, <1>9, <1>11, <1>13, <1>14, <1>15 DEF Half

\* How much of t has been looked at after i characters: a "\r\n" is converted at its "\r".
SeenTo(t, i) == IF SplitsPair(t, i) THEN i + 1 ELSE i

LEMMA PairIs ==
    ASSUME NEW t \in Seq(Chars), NEW i \in 0 .. Len(t)
    PROVE  SplitsPair(t, i) <=> 0 < i /\ i < Len(t) /\ t[i] = CR /\ t[i + 1] = LF
<1>1. PICK n \in Nat : n = Len(t)
    BY SequenceOf
<1>2. CASE 0 < i /\ i < n
    <2>1. i \in 0 .. n - 1 /\ i - 1 \in 0 .. n - 1 /\ i - 1 + 1 = i
        BY <1>1, <1>2
    <2> QED BY <1>1, <1>2, <2>1 DEF SplitsPair, CharAt
<1>3. CASE ~(0 < i)
    <2>1. i - 1 \notin 0 .. n - 1
        BY <1>3
    <2>2. CharAt(t, i - 1) = "none"
        BY <1>1, <2>1 DEF CharAt
    <2> QED BY <1>3, <2>2 DEF SplitsPair, CR
<1>4. CASE ~(i < n)
    <2>1. i \notin 0 .. n - 1
        BY <1>1, <1>4
    <2>2. CharAt(t, i) = "none"
        BY <1>1, <2>1 DEF CharAt
    <2> QED BY <1>1, <1>4, <2>2 DEF SplitsPair, LF
<1> QED BY <1>1, <1>2, <1>3, <1>4

\* What EndAt finds is there, and the next place lies behind it.
LEMMA EolThere ==
    ASSUME NEW t \in Seq(Chars), NEW i \in LineEnds(t)
    PROVE  /\ i \in 0 .. Len(t) - 1 /\ EndAt(t, i) \in EolModes /\ StandsAt(t, i, EndAt(t, i))
           /\ SeenTo(t, i) = i /\ SeenTo(t, i + 1) = i + Len(EndAt(t, i))
<1>1. PICK n \in Nat : n = Len(t)
    BY SequenceOf
<1>2. i \in 0 .. n - 1
    BY <1>1 DEF LineEnds
<1>3. t[i + 1] = CR \/ (t[i + 1] = LF /\ ~(i > 0 /\ t[i] = CR))
    BY <1>1, <1>2, LineEndIs
<1>4. i \in 0 .. n /\ i + 1 \in 0 .. n /\ (i + 1) + 1 = i + 2 /\ 0 < i + 1
    BY <1>1, <1>2
<1>5. SeenTo(t, i) = i
    <2>1. ~SplitsPair(t, i)
        BY <1>1, <1>3, <1>4, PairIs, EolChars
    <2> QED BY <2>1 DEF SeenTo
<1>6. CharAt(t, i) = t[i + 1]
    BY <1>1, <1>2 DEF CharAt
<1>7. CASE SplitsPair(t, i + 1)
    <2>1. i + 1 < n /\ t[i + 1] = CR /\ t[i + 2] = LF
        BY <1>1, <1>4, <1>7, PairIs
    <2>2. i + 1 \in 0 .. n - 1
        BY <1>2, <2>1
    <2>3. CharAt(t, i + 1) = LF
        BY <1>1, <1>4, <2>1, <2>2 DEF CharAt
    <2>4. EndAt(t, i) = CRLF
        BY <1>6, <2>1, <2>3 DEF EndAt
    <2>5. i + 2 <= n /\ \A j \in 1 .. 2 : t[i + j] = CRLF[j]
        <3>1. \A j \in 1 .. 2 : j = 1 \/ j = 2
            OBVIOUS
        <3> QED BY <1>2, <2>1, <3>1, EolChars
    <2>6. StandsAt(t, i, CRLF)
        BY <1>1, <2>5, EolChars DEF StandsAt
    <2>7. SeenTo(t, i + 1) = i + 2
        BY <1>4, <1>7 DEF SeenTo
    <2> QED BY <1>1, <1>2, <1>5, <2>4, <2>6, <2>7, EolChars DEF EolModes
<1>8. CASE ~SplitsPair(t, i + 1)
    <2>1. EndAt(t, i) = <<t[i + 1]>>
        <3>1. i + 1 - 1 = i
            BY <1>2
        <3>2. ~(CharAt(t, i + 1 - 1) = CR /\ CharAt(t, i + 1) = LF)
            BY <1>2, <1>8, <3>1 DEF SplitsPair
        <3>3. ~(CharAt(t, i) = CR /\ CharAt(t, i + 1) = LF)
            BY <3>1, <3>2
        <3> QED BY <1>6, <3>3 DEF EndAt
    <2>2. <<t[i + 1]>> \in EolModes
        BY <1>3 DEF EolModes
    <2>3. i + 1 <= n /\ Len(<<t[i + 1]>>) = 1 /\ <<t[i + 1]>>[1] = t[i + 1]
        BY <1>2
    <2>4. StandsAt(t, i, <<t[i + 1]>>)
        <3>1. \A j \in 1 .. 1 : j = 1
            OBVIOUS
        <3> QED BY <1>1, <2>3, <3>1 DEF StandsAt
    <2>5. SeenTo(t, i + 1) = i + 1
        BY <1>8 DEF SeenTo
    <2> QED BY <1>1, <1>2, <1>5, <2>1, <2>2, <2>3, <2>4, <2>5
<1> QED BY <1>7, <1>8

\* Either nothing new has been seen, or one character that ends no line.
LEMMA NoEndIs ==
    ASSUME NEW t \in Seq(Chars), NEW i \in 0 .. Len(t) - 1, i \notin LineEnds(t)
    PROVE  \/ SeenTo(t, i + 1) = SeenTo(t, i)
           \/ SeenTo(t, i) = i /\ SeenTo(t, i + 1) = i + 1 /\ t[i + 1] \notin {CR, LF}
<1>1. PICK n \in Nat : n = Len(t)
    BY SequenceOf
<1>2. ~(t[i + 1] = CR) /\ (t[i + 1] = LF => i > 0 /\ t[i] = CR)
    BY <1>1, LineEndIs
<1>3. i \in 0 .. n /\ i + 1 \in 0 .. n /\ i < n
    BY <1>1
<1>4. ~SplitsPair(t, i + 1)
    BY <1>1, <1>2, <1>3, PairIs
<1>5. SeenTo(t, i + 1) = i + 1
    BY <1>4 DEF SeenTo
<1>6. CASE t[i + 1] = LF
    <2>1. SplitsPair(t, i)
        BY <1>1, <1>2, <1>3, <1>6, PairIs
    <2> QED BY <1>5, <2>1 DEF SeenTo
<1>7. CASE t[i + 1] # LF
    <2>1. ~SplitsPair(t, i)
        BY <1>1, <1>3, <1>7, PairIs
    <2> QED BY <1>2, <1>5, <1>7, <2>1 DEF SeenTo
<1> QED BY <1>6, <1>7

LEMMA ConvertedText ==
    ASSUME NEW first, NEW b, GoodBuffer(b, first), NEW eol \in EolModes
    PROVE  Half(ConvertLineEnds(b, eol).text, b.text, Len(b.text), eol)
<1> DEFINE t == b.text
<1>1. t \in Seq(Chars)
    BY DEF GoodBuffer, Buffers
<1>2. PICK n \in Nat : n = Len(t)
    BY <1>1, SequenceOf
<1>3. PICK h : Converts(h, b, eol, first)
    BY ConversionPasses
<1>4. /\ h[0] = Begin(b) /\ ConvertLineEnds(b, eol) = End(h[n])
      /\ \A i \in 0 .. n : Edited(Begin(b), h[i], first)
      /\ \A i \in 0 .. n - 1 : h[i + 1] = Convert(h[i], t, i, eol)
    BY <1>2, <1>3 DEF Converts
<1>5. h[0].text = t
    BY <1>4, BeginIs DEF SameText
<1> HIDE DEF t
<1> DEFINE T == {i \in 0 .. n : Half(h[i].text, t, SeenTo(t, i), eol)}
<1>6. 0 \in T
    <2>1. ~SplitsPair(t, 0)
        <3>1. 0 \in 0 .. n
            OBVIOUS
        <3> QED BY <1>1, <1>2, <3>1, PairIs
    <2>2. SeenTo(t, 0) = 0
        BY <2>1 DEF SeenTo
    <2> QED BY <1>1, <1>2, <1>5, <2>2, HalfStart
<1>7. ASSUME NEW i \in 0 .. n - 1, i \in T PROVE i + 1 \in T
    <2> DEFINE u == h[i].text
               v == h[i + 1].text
    <2>1. Half(u, t, SeenTo(t, i), eol) /\ h[i + 1] = Convert(h[i], t, i, eol)
        BY <1>4, <1>7
    <2>2. GoodBuffer(h[i], first)
        <3>1. i \in 0 .. n
            BY <1>2
        <3> QED BY <1>4, <3>1 DEF Edited
    <2>3. i + 1 \in 0 .. n /\ i \in Nat /\ i < n
        BY <1>2
    <2> HIDE DEF T
    <2>4. CASE i \notin LineEnds(t)
        <3>1. v = u
            BY <2>1, <2>4 DEF Convert
        <3> HIDE DEF u, v
        <3>2. \/ SeenTo(t, i + 1) = SeenTo(t, i)
              \/ SeenTo(t, i) = i /\ SeenTo(t, i + 1) = i + 1 /\ t[i + 1] \notin {CR, LF}
            BY <1>1, <1>2, <2>4, NoEndIs
        <3>3. Half(v, t, SeenTo(t, i + 1), eol)
            BY <1>1, <1>2, <2>1, <2>3, <3>1, <3>2, HalfSkips
        <3> QED BY <2>3, <3>3 DEF T, v
    <2>5. CASE i \in LineEnds(t)
        <3> DEFINE end == EndAt(t, i)
                   c == i + Len(u) - n
        <3>1. /\ end \in EolModes /\ StandsAt(t, i, end)
              /\ SeenTo(t, i) = i /\ SeenTo(t, i + 1) = i + Len(end)
            BY <1>1, <2>5, EolThere
        <3>2. h[i + 1] = ConvertEnd(h[i], c, end, eol)
            BY <1>2, <2>1, <2>5 DEF Convert
        <3>3. Half(u, t, i, eol)
            BY <2>1, <3>1
        <3> HIDE DEF end
        <3>4. c \in Nat /\ StandsAt(u, c, end)
            <4>1. u \in Seq(Chars) /\ c \in Nat /\ \A j \in 1 .. n - i : u[c + j] = t[i + j]
                BY <1>2, <3>3 DEF Half
            <4>2. PICK m \in Nat, k \in Nat : m = Len(u) /\ k = Len(end)
                <5>1. Len(end) \in Nat
                    BY <3>1, EolChars DEF EolModes
                <5> QED BY <4>1, <5>1, SequenceOf
            <4>6. c = i + m - n
                BY <4>2
            <4> HIDE DEF c, u
            <4>3. i + k <= n /\ \A j \in 1 .. k : t[i + j] = end[j]
                BY <1>2, <3>1, <4>2 DEF StandsAt
            <4>4. c + k <= m
                BY <1>2, <2>3, <4>2, <4>3, <4>6
            <4>5. \A j \in 1 .. k : j \in 1 .. n - i
                BY <1>2, <2>3, <4>2, <4>3
            <4> QED BY <4>1, <4>2, <4>3, <4>4, <4>5 DEF StandsAt
        <3> HIDE DEF c
        <3>5. Exchanged(v, u, c, Len(end), eol)
            BY <2>2, <3>1, <3>2, <3>4, ConvertEndText
        <3> HIDE DEF u, v
        <3>6. Half(v, t, i + Len(end), eol)
            BY <1>1, <1>2, <2>3, <2>5, <3>1, <3>3, <3>5, HalfConverts DEF c
        <3> QED BY <2>3, <3>1, <3>6 DEF T, v
    <2> QED BY <2>4, <2>5
<1>8. n \in T
    <2> HIDE DEF T
    <2>1. 0 .. n \subseteq T
        BY <1>6, <1>7, Conversion!UpTo
    <2>2. n \in 0 .. n
        OBVIOUS
    <2> QED BY <2>1, <2>2
<1>9. SeenTo(t, n) = n
    <2>1. ~SplitsPair(t, n)
        <3>1. n \in 0 .. n
            OBVIOUS
        <3> QED BY <1>1, <1>2, <3>1, PairIs
    <2> QED BY <2>1 DEF SeenTo
<1>10. ConvertLineEnds(b, eol).text = h[n].text
    <2>1. n \in 0 .. n
        OBVIOUS
    <2> QED BY <1>4, <2>1, Enclosed
<1> QED BY <1>2, <1>8, <1>9, <1>10 DEF t

\* Wherever the document is converted, only line ends of the one kind are left, as many
\* as there were.
THEOREM ConvertedEolsHolds == Spec => []ConvertedEols
<1>1. Inv => ConvertedEols
    <2>1. SUFFICES ASSUME Inv, NEW eol \in EolModes
                   PROVE  LET t == ConvertLineEnds(buf, eol).text
                          IN  /\ \A p \in LineEnds(t) : EndAt(t, p) = eol
                              /\ Cardinality(LineEnds(t)) = Cardinality(LineEnds(buf.text))
        BY DEF ConvertedEols
    <2>2. GoodBuffer(buf, base) /\ buf.text \in Seq(Chars)
        BY <2>1 DEF Inv, GoodBuffer, Buffers
    <2>3. Half(ConvertLineEnds(buf, eol).text, buf.text, Len(buf.text), eol)
        BY <2>2, ConvertedText
    <2> QED BY <2>2, <2>3, HalfWhole
<1> QED BY <1>1, AlwaysGood, PTL

(***************************************************************************)
(* The places of a history, counted.                                       *)
(***************************************************************************)

UpToPlace(u, i) == {j \in Places(u) : j <= i}

LEMMA PlacesAre ==
    ASSUME NEW u, WellFormed(u, Chars)
    PROVE  /\ IsFiniteSet(Places(u))
           /\ \A i : i \in Places(u) <=> i \in 0 .. LastPlace(u) /\ IsStart(u, i)
           /\ 0 \in Places(u) /\ u.cur \in Places(u) /\ LastPlace(u) \in Places(u)
<1>1. Places(u) \subseteq 0 .. LastPlace(u) /\ LastPlace(u) \in Nat
    BY HistoryParts DEF Places
<1>2. IsFiniteSet(0 .. LastPlace(u))
    BY <1>1, FS_Interval
<1>3. IsFiniteSet(Places(u))
    BY <1>1, <1>2, FS_Subset
<1>4. 0 \in 0 .. LastPlace(u) /\ u.cur \in 0 .. LastPlace(u) /\ LastPlace(u) \in 0 .. LastPlace(u)
    BY HistoryParts
<1> QED BY <1>3, <1>4 DEF Places, IsStart, WellFormed

\* PlaceOf counts the starts; a place is one more than those before it.
LEMMA Counts ==
    ASSUME NEW u, WellFormed(u, Chars), NEW i \in -1 .. LastPlace(u)
    PROVE  /\ PlaceOf(u, i) \in Nat
           /\ i = -1 => PlaceOf(u, i) = 0
           /\ i >= 0 /\ IsStart(u, i) => PlaceOf(u, i) = PlaceOf(u, i - 1) + 1
           /\ i >= 0 /\ ~IsStart(u, i) => PlaceOf(u, i) = PlaceOf(u, i - 1)
           /\ i = LastPlace(u) => PlaceOf(u, i) = Cardinality(Places(u))
<1>1. \A j : UpToPlace(u, j) \subseteq Places(u)
    BY DEF UpToPlace
<1>2. \A j : IsFiniteSet(UpToPlace(u, j)) /\ PlaceOf(u, j) = Cardinality(UpToPlace(u, j))
    BY <1>1, PlacesAre, FS_Subset DEF PlaceOf, UpToPlace
<1>3. \A j : Cardinality(UpToPlace(u, j)) \in Nat
    BY <1>2, FS_CardinalityType
<1>4. \A j \in Places(u) : j \in Nat /\ j <= LastPlace(u)
    BY HistoryParts, PlacesAre
<1>5. i = -1 => UpToPlace(u, i) = {}
    BY <1>4 DEF UpToPlace
<1>6. i = LastPlace(u) => UpToPlace(u, i) = Places(u)
    BY <1>4 DEF UpToPlace
<1>7. i >= 0 => (i \in Places(u) <=> IsStart(u, i))
    BY PlacesAre
<1>8. ASSUME i >= 0, IsStart(u, i) PROVE PlaceOf(u, i) = PlaceOf(u, i - 1) + 1
    <2>1. UpToPlace(u, i) = UpToPlace(u, i - 1) \cup {i} /\ i \notin UpToPlace(u, i - 1)
        BY <1>4, <1>7, <1>8 DEF UpToPlace
    <2> QED BY <1>2, <2>1, FS_AddElement
<1>9. ASSUME i >= 0, ~IsStart(u, i) PROVE PlaceOf(u, i) = PlaceOf(u, i - 1)
    <2>1. UpToPlace(u, i) = UpToPlace(u, i - 1)
        BY <1>4, <1>7, <1>9 DEF UpToPlace
    <2> QED BY <1>2, <2>1
<1>10. i = -1 => PlaceOf(u, i) = 0
    BY <1>2, <1>5, FS_EmptySet
<1> QED BY <1>2, <1>3, <1>6, <1>8, <1>9, <1>10

LEMMA CountsGrow ==
    ASSUME NEW u, WellFormed(u, Chars), NEW i \in -1 .. LastPlace(u), NEW j \in i .. LastPlace(u)
    PROVE  /\ PlaceOf(u, i) <= PlaceOf(u, j)
           /\ i < j /\ IsStart(u, j) => PlaceOf(u, i) < PlaceOf(u, j)
           /\ (\A m \in i + 1 .. j : ~IsStart(u, m)) => PlaceOf(u, i) = PlaceOf(u, j)
<1>1. \A m : UpToPlace(u, m) \subseteq Places(u)
    BY DEF UpToPlace
<1>2. \A m : IsFiniteSet(UpToPlace(u, m)) /\ PlaceOf(u, m) = Cardinality(UpToPlace(u, m))
    BY <1>1, PlacesAre, FS_Subset DEF PlaceOf, UpToPlace
<1>3. \A m \in Places(u) : m \in Nat /\ m <= LastPlace(u) /\ IsStart(u, m)
    BY HistoryParts, PlacesAre
<1>4. \A m, n \in Int : m <= n => PlaceOf(u, m) <= PlaceOf(u, n)
    <2>1. \A m, n \in Int : m <= n => UpToPlace(u, m) \subseteq UpToPlace(u, n)
        BY <1>3 DEF UpToPlace
    <2> QED BY <1>2, <2>1, FS_Subset
<1>5. ASSUME i < j, IsStart(u, j) PROVE PlaceOf(u, i) < PlaceOf(u, j)
    <2>1. j \in -1 .. LastPlace(u) /\ j - 1 \in -1 .. LastPlace(u) /\ j >= 0 /\ i <= j - 1
        BY <1>5, HistoryParts
    <2>2. PlaceOf(u, j) = PlaceOf(u, j - 1) + 1
        BY <2>1, <1>5, Counts
    <2>3. PlaceOf(u, i) <= PlaceOf(u, j - 1) /\ PlaceOf(u, i) \in Nat /\ PlaceOf(u, j - 1) \in Nat
        BY <1>4, <2>1, Counts
    <2> QED BY <2>2, <2>3
<1>6. ASSUME \A m \in i + 1 .. j : ~IsStart(u, m) PROVE PlaceOf(u, i) = PlaceOf(u, j)
    <2>1. UpToPlace(u, i) = UpToPlace(u, j)
        BY <1>3, <1>6 DEF UpToPlace
    <2> QED BY <1>2, <2>1
<1>7. i \in Int /\ j \in Int /\ i <= j
    BY HistoryParts
<1> QED BY <1>4, <1>5, <1>6, <1>7

\* PlaceAt and PlaceOf are inverse to each other.
LEMMA PlacesCounted ==
    ASSUME NEW u, WellFormed(u, Chars)
    PROVE  /\ \A k \in 1 .. Cardinality(Places(u)) :
                  PlaceAt(u, k) \in Places(u) /\ PlaceOf(u, PlaceAt(u, k)) = k
           /\ \A i \in Places(u) : /\ PlaceOf(u, i) \in 1 .. Cardinality(Places(u))
                                   /\ PlaceAt(u, PlaceOf(u, i)) = i
<1>1. PICK last \in Nat : last = LastPlace(u)
    BY HistoryParts
<1>2. \A i \in -1 .. last : PlaceOf(u, i) \in Nat
    BY <1>1, Counts
<1>3. \A i \in Places(u) : i \in 0 .. last /\ i \in -1 .. last /\ IsStart(u, i)
    BY <1>1, PlacesAre
<1>4. \A i, j \in Places(u) : PlaceOf(u, i) = PlaceOf(u, j) => i = j
    <2>1. \A i, j \in Places(u) : i < j => PlaceOf(u, i) < PlaceOf(u, j)
        <3>1. \A i, j \in Places(u) : i < j => i \in -1 .. last /\ j \in i .. last
            BY <1>3
        <3> QED BY <1>1, <1>3, <3>1, CountsGrow
    <2>2. \A i, j \in Places(u) : i \in Int /\ j \in Int /\ PlaceOf(u, i) \in Int /\ PlaceOf(u, j) \in Int
        BY <1>2, <1>3
    <2> QED BY <2>1, <2>2
<1>5. ASSUME NEW k \in 1 .. Cardinality(Places(u))
      PROVE  \E i \in Places(u) : PlaceOf(u, i) = k
    <2> DEFINE high == {i \in 0 .. last : PlaceOf(u, i) >= k}
    <2>1. last \in high
        <3>1. PlaceOf(u, last) = Cardinality(Places(u)) /\ PlaceOf(u, last) \in Nat
            BY <1>1, Counts
        <3> QED BY <3>1
    <2>2. PICK m \in high : \A n \in high : m <= n
        <3>1. high \subseteq Nat /\ high # {}
            BY <2>1
        <3> HIDE DEF high
        <3> QED BY <3>1, Ending!LeastOf
    <2>3. m \in 0 .. last /\ m \in -1 .. last /\ m - 1 \in -1 .. last
        BY <1>1
    <2>4. PlaceOf(u, m - 1) < k
        <3>1. CASE m = 0
            <4>1. PlaceOf(u, m - 1) = 0
                BY <1>1, <2>3, <3>1, Counts
            <4> QED BY <4>1
        <3>2. CASE m > 0
            <4>1. m - 1 \in 0 .. last /\ m - 1 \notin high
                BY <2>2, <2>3, <3>2
            <4> QED BY <1>2, <2>3, <4>1
        <3> QED BY <2>3, <3>1, <3>2
    <2>5. PlaceOf(u, m) \in Nat /\ PlaceOf(u, m - 1) \in Nat /\ PlaceOf(u, m) >= k
        BY <1>2, <2>3
    <2>6. IsStart(u, m)
        <3>1. ~IsStart(u, m) => PlaceOf(u, m) = PlaceOf(u, m - 1)
            BY <1>1, <2>3, Counts
        <3> QED BY <2>4, <2>5, <3>1
    <2>7. PlaceOf(u, m) = PlaceOf(u, m - 1) + 1
        BY <1>1, <2>3, <2>6, Counts
    <2>8. PlaceOf(u, m) = k
        BY <2>4, <2>5, <2>7
    <2> QED BY <1>1, <2>3, <2>6, <2>8, PlacesAre
<1>6. \A k \in 1 .. Cardinality(Places(u)) :
          PlaceAt(u, k) \in Places(u) /\ PlaceOf(u, PlaceAt(u, k)) = k
    BY <1>5 DEF PlaceAt
<1>7. ASSUME NEW i \in Places(u)
      PROVE  PlaceOf(u, i) \in 1 .. Cardinality(Places(u))
    <2>1. /\ i \in -1 .. last /\ i - 1 \in -1 .. last /\ i \in 0 .. last /\ last \in i .. last
          /\ last \in -1 .. last
        BY <1>3
    <2>2. PlaceOf(u, i) = PlaceOf(u, i - 1) + 1 /\ PlaceOf(u, i - 1) \in Nat /\ PlaceOf(u, i) \in Nat
        BY <1>1, <1>3, <2>1, Counts
    <2>3. PlaceOf(u, i) <= PlaceOf(u, last)
        BY <1>1, <2>1, CountsGrow
    <2>4. PlaceOf(u, last) = Cardinality(Places(u)) /\ PlaceOf(u, last) \in Nat
        BY <1>1, <2>1, Counts
    <2> QED BY <2>2, <2>3, <2>4
<1>8. \A i \in Places(u) : PlaceAt(u, PlaceOf(u, i)) = i
    BY <1>4, <1>6, <1>7
<1> QED BY <1>6, <1>7, <1>8

(***************************************************************************)
(* The texts of a history.                                                 *)
(***************************************************************************)

\* TextsOf replays, and there is one replay only.
LEMMA TextsAre ==
    ASSUME NEW u, WellFormed(u, Chars), NEW first, NEW T, Replays(T, u, first)
    PROVE  TextsOf(u, first) = T
<1> DEFINE Recursion(f) == f = [i \in 0 .. LastPlace(u) |->
               IF i = 0 THEN first
               ELSE LET a == u.acts[i]
                    IN  IF a.at = "start" THEN f[i - 1] ELSE PerformRedoStep(f[i - 1], a)]
           S == TextsOf(u, first)
<1>1. S = CHOOSE f : Recursion(f)
    BY DEF TextsOf
<1>2. Recursion(T)
    BY DEF Replays, Performed
<1>3. Recursion(S)
    <2> HIDE DEF Recursion
    <2> QED BY <1>1, <1>2
<1>4. PICK last \in Nat : last = LastPlace(u)
    BY HistoryParts
<1>5. S = [i \in 0 .. last |-> S[i]] /\ T = [i \in 0 .. last |-> T[i]]
    <2>1. S = [i \in 0 .. last |-> S[i]]
        BY <1>3, <1>4
    <2>2. T = [i \in 0 .. last |-> T[i]]
        BY <1>4 DEF Replays
    <2> QED BY <2>1, <2>2
<1>6. S[0] = T[0]
    <2>1. 0 \in 0 .. LastPlace(u)
        BY <1>4
    <2>2. S[0] = first /\ T[0] = first
        BY <1>2, <1>3, <2>1
    <2> QED BY <2>2
<1>7. ASSUME NEW i \in 0 .. last - 1, S[i] = T[i] PROVE S[i + 1] = T[i + 1]
    <2>1. i + 1 \in 0 .. LastPlace(u) /\ i + 1 # 0 /\ (i + 1) - 1 = i
        BY <1>4
    <2>2. S[i + 1] = LET a == u.acts[i + 1]
                     IN  IF a.at = "start" THEN S[i] ELSE PerformRedoStep(S[i], a)
        BY <1>3, <2>1
    <2>3. T[i + 1] = LET a == u.acts[i + 1]
                     IN  IF a.at = "start" THEN T[i] ELSE PerformRedoStep(T[i], a)
        BY <1>2, <2>1
    <2> QED BY <1>7, <2>2, <2>3
<1> HIDE DEF S, Recursion
<1> DEFINE Same == {i \in 0 .. last : S[i] = T[i]}
<1>8. 0 .. last \subseteq Same
    <2>1. 0 \in Same
        BY <1>4, <1>6
    <2>2. \A i \in 0 .. last - 1 : i \in Same => i + 1 \in Same
        BY <1>4, <1>7
    <2> HIDE DEF Same
    <2> QED BY <1>4, <2>1, <2>2, Ending!UpTo
<1>9. \A i \in 0 .. last : S[i] = T[i]
    BY <1>8
<1> QED BY <1>5, <1>9 DEF S

LEMMA TextsReplay ==
    ASSUME NEW u, WellFormed(u, Chars), NEW first, NEW text, HasReplay(u, text, first)
    PROVE  Replays(TextsOf(u, first), u, first) /\ TextsOf(u, first)[u.cur] = text
BY TextsAre DEF HasReplay

\* Histories that begin alike have the same places and texts there.
LEMMA AlikeUpTo ==
    ASSUME NEW u, NEW v, WellFormed(u, Chars), WellFormed(v, Chars), NEW m \in Nat,
           m <= LastPlace(u), m <= LastPlace(v),
           \A i \in 1 .. m + 1 : SameAction(v.acts[i], u.acts[i])
    PROVE  /\ \A i \in -1 .. m : PlaceOf(v, i) = PlaceOf(u, i)
           /\ \A i \in 0 .. m : i \in Places(v) <=> i \in Places(u)
<1>1. \A i \in 0 .. m : i \in 0 .. LastPlace(u) /\ i \in 0 .. LastPlace(v) /\ i + 1 \in 1 .. m + 1
    BY HistoryParts
<1>2. \A i \in 0 .. m : IsStart(v, i) <=> IsStart(u, i)
    BY <1>1 DEF IsStart, SameAction
<1>3. \A i \in 0 .. m : i \in Places(v) <=> i \in Places(u)
    BY <1>1, <1>2, PlacesAre
<1>4. \A j : (j \in Places(u) \/ j \in Places(v)) => j \in Nat
    BY PlacesAre, HistoryParts
<1>5. ASSUME NEW i \in -1 .. m PROVE PlaceOf(v, i) = PlaceOf(u, i)
    <2>1. \A j \in Nat : j <= i => j \in 0 .. m
        OBVIOUS
    <2>2. {j \in Places(v) : j <= i} = {j \in Places(u) : j <= i}
        BY <1>3, <1>4, <2>1
    <2> QED BY <2>2 DEF PlaceOf
<1> QED BY <1>3, <1>5

LEMMA AlikeTexts ==
    ASSUME NEW u, NEW v, NEW first, NEW S, NEW T, NEW m \in Nat,
           WellFormed(u, Chars), WellFormed(v, Chars),
           m <= LastPlace(u), m <= LastPlace(v),
           \A i \in 1 .. m : SameAction(v.acts[i], u.acts[i]),
           Replays(S, u, first), Replays(T, v, first)
    PROVE  \A i \in 0 .. m : T[i] = S[i]
<1> DEFINE Same == {i \in 0 .. m : T[i] = S[i]}
<1>1. 0 \in Same
    BY DEF Replays
<1>2. ASSUME NEW i \in 0 .. m - 1, i \in Same PROVE i + 1 \in Same
    <2>1. /\ i + 1 \in 0 .. m /\ i + 1 \in 1 .. m /\ (i + 1) - 1 = i
          /\ i + 1 \in 1 .. LastPlace(u) /\ i + 1 \in 1 .. LastPlace(v)
        BY HistoryParts
    <2>2. /\ S[i + 1] = Performed(S[i], u.acts[i + 1])
          /\ T[i + 1] = Performed(T[i], v.acts[i + 1])
        BY <2>1 DEF Replays
    <2>3. \A t : Performed(t, v.acts[i + 1]) = Performed(t, u.acts[i + 1])
        BY <2>1 DEF Performed, PerformRedoStep, SameAction
    <2> QED BY <1>2, <2>1, <2>2, <2>3
<1>3. 0 .. m \subseteq Same
    <2> HIDE DEF Same
    <2> QED BY <1>1, <1>2, Ending!UpTo
<1> QED BY <1>3

LEMMA HistIs ==
    ASSUME NEW u, WellFormed(u, Chars), NEW first, NEW T, Replays(T, u, first)
    PROVE  /\ HistOf(u, first) \in Seq(Seq(Chars))
           /\ Len(HistOf(u, first)) = Cardinality(Places(u))
           /\ Cardinality(Places(u)) \in Nat
           /\ \A k \in 1 .. Cardinality(Places(u)) : HistOf(u, first)[k] = T[PlaceAt(u, k)]
<1>1. PICK n \in Nat : n = Cardinality(Places(u))
    BY PlacesAre, FS_CardinalityType
<1>2. TextsOf(u, first) = T
    BY TextsAre
<1>3. HistOf(u, first) = [k \in 1 .. n |-> T[PlaceAt(u, k)]]
    BY <1>1, <1>2 DEF HistOf
<1>4. \A k \in 1 .. n : T[PlaceAt(u, k)] \in Seq(Chars)
    <2>1. \A k \in 1 .. n : PlaceAt(u, k) \in 0 .. LastPlace(u)
        BY <1>1, PlacesAre, PlacesCounted
    <2> QED BY <2>1 DEF Replays
<1>5. HistOf(u, first) \in Seq(Seq(Chars)) /\ Len(HistOf(u, first)) = n
    BY <1>3, <1>4
<1> QED BY <1>1, <1>3, <1>5

LEMMA GrownPlaces ==
    ASSUME NEW u, NEW v, NEW w, WellFormed(u, Chars), WellFormed(v, Chars), Grown(u, v, w)
    PROVE  /\ w - 1 \in Nat /\ w - 1 <= LastPlace(u) /\ w - 1 <= LastPlace(v)
           /\ \A i \in -1 .. w - 1 : PlaceOf(v, i) = PlaceOf(u, i)
           /\ \A i : i \in Places(v) <=> (i \in Places(u) /\ i <= w - 1) \/ i = v.cur
           /\ PlaceOf(v, v.cur) = PlaceOf(u, w - 1) + 1
           /\ Cardinality(Places(v)) = PlaceOf(u, w - 1) + 1
<1>1. PICK m \in Nat, last \in Nat, cur \in Nat, end \in Nat :
          /\ m = w - 1 /\ last = LastPlace(u) /\ cur = u.cur /\ end = v.cur /\ cur <= last
          /\ end = LastPlace(v) /\ m + 1 < end /\ m <= last /\ m + 1 \in {cur, cur + 1}
          /\ w = m + 1
    <2>1. u.cur \in Nat /\ v.cur \in Nat /\ w \in Nat /\ w > 0 /\ w - 1 \in Nat
        BY HistoryParts DEF Grown
    <2>2. /\ LastPlace(u) \in Nat /\ u.cur <= LastPlace(u) /\ LastPlace(v) = v.cur /\ w < v.cur
          /\ w \in {u.cur, u.cur + 1}
        BY HistoryParts DEF Grown
    <2>3. (w - 1) + 1 = w /\ w - 1 <= LastPlace(u)
        BY <2>1, <2>2
    <2> QED BY <2>1, <2>2, <2>3
<1>2. \A i \in 1 .. m + 1 : SameAction(v.acts[i], u.acts[i])
    BY <1>1 DEF Grown
<1>3. /\ \A i \in -1 .. m : PlaceOf(v, i) = PlaceOf(u, i)
      /\ \A i \in 0 .. m : i \in Places(v) <=> i \in Places(u)
    <2>1. m <= LastPlace(u) /\ m <= LastPlace(v)
        BY <1>1
    <2> QED BY <1>2, <2>1, AlikeUpTo
<1>4. \A i \in m + 1 .. end - 1 : ~IsStart(v, i)
    BY <1>1 DEF Grown
<1>5. \A i : i \in Places(v) <=> i \in 0 .. end /\ IsStart(v, i)
    BY <1>1, PlacesAre
<1>6. \A i : i \in Places(u) <=> i \in 0 .. last /\ IsStart(u, i)
    BY <1>1, PlacesAre
<1>7. end \in Places(v)
    BY <1>1, PlacesAre
<1>8. ASSUME NEW i PROVE i \in Places(v) <=> (i \in Places(u) /\ i <= m) \/ i = end
    <2>1. ASSUME i \in Places(v), i # end PROVE i \in Places(u) /\ i <= m
        <3>1. i \in 0 .. end /\ IsStart(v, i)
            BY <1>5, <2>1
        <3>2. i \in 0 .. end - 1 /\ i \notin m + 1 .. end - 1
            BY <1>4, <2>1, <3>1
        <3>3. i \in 0 .. m
            BY <3>2
        <3> QED BY <1>3, <2>1, <3>3
    <2>2. ASSUME i \in Places(u), i <= m PROVE i \in Places(v)
        <3>1. i \in 0 .. m
            BY <1>6, <2>2
        <3> QED BY <1>3, <2>2, <3>1
    <2> QED BY <1>7, <2>1, <2>2
<1>9. PlaceOf(v, end - 1) = PlaceOf(v, m)
    <2>1. m \in -1 .. LastPlace(v) /\ end - 1 \in m .. LastPlace(v)
        BY <1>1
    <2> QED BY <1>4, <2>1, CountsGrow
<1>10. PlaceOf(v, end) = PlaceOf(u, m) + 1
    <2>1. end \in -1 .. LastPlace(v) /\ end >= 0 /\ IsStart(v, end) /\ m \in -1 .. m
        BY <1>1, <1>5, <1>7
    <2>2. PlaceOf(v, end) = PlaceOf(v, end - 1) + 1
        BY <2>1, Counts
    <2> QED BY <1>3, <1>9, <2>1, <2>2
<1>11. PlaceOf(v, end) = Cardinality(Places(v))
    <2>1. end \in -1 .. LastPlace(v) /\ end = LastPlace(v)
        BY <1>1
    <2> QED BY <2>1, Counts
<1>12. m = w - 1 /\ m <= LastPlace(u) /\ m <= LastPlace(v) /\ end = v.cur
    BY <1>1
<1> QED BY <1>3, <1>8, <1>10, <1>11, <1>12

(***************************************************************************)
(* What the changes of a history are for the list of its texts.            *)
(***************************************************************************)

\* Places of v after the n-th of u are those of `more'.
CutTo(u, v, first, n, more) ==
    /\ PlaceOf(v, v.cur) = n + Len(more)
    /\ HistOf(v, first) = SubSeq(HistOf(u, first), 1, n) \o more
    /\ SavedOf(v) = IF SavedOf(u) > n THEN 0 ELSE SavedOf(u)

\* Places before another one are those with a smaller number.
LEMMA PlacesOrdered ==
    ASSUME NEW u, WellFormed(u, Chars), NEW i \in Places(u), NEW m \in -1 .. LastPlace(u)
    PROVE  /\ PlaceOf(u, i) \in Nat /\ PlaceOf(u, m) \in Nat
           /\ i <= m <=> PlaceOf(u, i) <= PlaceOf(u, m)
<1>1. PICK last \in Nat : last = LastPlace(u)
    BY HistoryParts
<1>2. i \in 0 .. last /\ IsStart(u, i) /\ i \in -1 .. last /\ m \in -1 .. last
    BY <1>1, PlacesAre
<1>3. PlaceOf(u, i) \in Nat /\ PlaceOf(u, m) \in Nat
    BY <1>1, <1>2, Counts
<1>4. ASSUME i <= m PROVE PlaceOf(u, i) <= PlaceOf(u, m)
    <2>1. m \in i .. last
        BY <1>2, <1>4
    <2> QED BY <1>1, <1>2, <2>1, CountsGrow
<1>5. ASSUME ~(i <= m) PROVE PlaceOf(u, m) < PlaceOf(u, i)
    <2>1. i \in m .. last /\ m < i
        BY <1>2, <1>5
    <2> QED BY <1>1, <1>2, <2>1, CountsGrow
<1> QED BY <1>3, <1>4, <1>5

LEMMA GrownSaved ==
    ASSUME NEW u, NEW v, NEW w, WellFormed(u, Chars), WellFormed(v, Chars), Grown(u, v, w)
    PROVE  SavedOf(v) = IF SavedOf(u) > PlaceOf(u, w - 1) THEN 0 ELSE SavedOf(u)
<1>1. /\ w - 1 \in Nat /\ w - 1 <= LastPlace(u) /\ w - 1 <= LastPlace(v)
      /\ \A i \in -1 .. w - 1 : PlaceOf(v, i) = PlaceOf(u, i)
      /\ \A i : i \in Places(v) <=> (i \in Places(u) /\ i <= w - 1) \/ i = v.cur
    BY GrownPlaces
<1>2. PICK m \in Nat, last \in Nat, cur \in Nat, end \in Nat, save \in Int :
          /\ m = w - 1 /\ last = LastPlace(u) /\ cur = u.cur /\ end = v.cur /\ save = u.save
          /\ m <= last /\ m \in {cur - 1, cur} /\ end > cur /\ -1 <= save /\ save <= last
    <2>1. u.cur \in Nat /\ v.cur \in Nat /\ w \in {u.cur, u.cur + 1} /\ v.cur > w /\ u.save \in Int
        BY HistoryParts DEF Grown
    <2>2. LastPlace(u) \in Nat /\ -1 <= u.save /\ u.save <= LastPlace(u)
        BY HistoryParts
    <2>3. w - 1 \in {u.cur - 1, u.cur} /\ v.cur > u.cur
        BY <2>1
    <2> QED BY <1>1, <2>1, <2>2, <2>3
<1>3. \A i \in Places(u) : /\ i \in 0 .. last /\ PlaceOf(u, i) \in Nat /\ PlaceOf(u, m) \in Nat
                           /\ i <= m <=> PlaceOf(u, i) <= PlaceOf(u, m)
    <2>1. m \in -1 .. LastPlace(u)
        BY <1>2
    <2> QED BY <1>2, <2>1, PlacesOrdered, PlacesAre
<1>4. PlaceOf(u, m) \in Nat
    <2>1. m \in -1 .. LastPlace(u)
        BY <1>2
    <2> QED BY <2>1, Counts
<1>5. v.save = IF cur < save THEN -1 ELSE save
    BY <1>2 DEF Grown
<1>6. CASE save \notin Places(u)
    <2>1. SavedOf(u) = 0
        BY <1>2, <1>6 DEF SavedOf
    <2>2. v.save \notin Places(v)
        <3>1. v.save # end /\ v.save \notin Places(u)
            BY <1>2, <1>3, <1>5, <1>6
        <3> QED BY <1>1, <1>2, <3>1
    <2> QED BY <1>2, <1>4, <2>1, <2>2 DEF SavedOf
<1>7. CASE save \in Places(u) /\ save <= m
    <2>1. v.save = save
        BY <1>2, <1>5, <1>7
    <2>2. save \in Places(v) /\ save \in -1 .. w - 1
        BY <1>1, <1>2, <1>3, <1>7
    <2>3. SavedOf(u) = PlaceOf(u, save) /\ SavedOf(v) = PlaceOf(u, save)
        BY <1>1, <1>2, <1>7, <2>1, <2>2 DEF SavedOf
    <2>4. PlaceOf(u, save) <= PlaceOf(u, m) /\ PlaceOf(u, save) \in Nat
        BY <1>3, <1>7
    <2> QED BY <1>2, <1>4, <2>3, <2>4
<1>8. CASE save \in Places(u) /\ ~(save <= m)
    <2>1. SavedOf(u) = PlaceOf(u, save) /\ PlaceOf(u, save) > PlaceOf(u, m)
        BY <1>2, <1>3, <1>8 DEF SavedOf
    <2>2. v.save \notin Places(v)
        <3>1. v.save # end
            BY <1>2, <1>5
        <3>2. v.save \notin Places(u) \/ ~(v.save <= m)
            BY <1>3, <1>5, <1>8
        <3> QED BY <1>1, <1>2, <3>1, <3>2
    <2> QED BY <1>2, <2>1, <2>2 DEF SavedOf
<1> QED BY <1>6, <1>7, <1>8

LEMMA GrownIsCut ==
    ASSUME NEW u, NEW v, NEW w, NEW first, NEW S, NEW T,
           WellFormed(u, Chars), WellFormed(v, Chars), Grown(u, v, w),
           Replays(S, u, first), Replays(T, v, first)
    PROVE  CutTo(u, v, first, PlaceOf(u, w - 1), <<T[v.cur]>>)
<1>1. /\ w - 1 \in Nat /\ w - 1 <= LastPlace(u) /\ w - 1 <= LastPlace(v)
      /\ \A i \in -1 .. w - 1 : PlaceOf(v, i) = PlaceOf(u, i)
      /\ \A i : i \in Places(v) <=> (i \in Places(u) /\ i <= w - 1) \/ i = v.cur
      /\ PlaceOf(v, v.cur) = PlaceOf(u, w - 1) + 1
      /\ Cardinality(Places(v)) = PlaceOf(u, w - 1) + 1
    BY GrownPlaces
<1>2. PICK m \in Nat : m = w - 1 /\ m <= LastPlace(u) /\ m <= LastPlace(v)
    BY <1>1
<1>3. m \in -1 .. LastPlace(u)
    BY <1>2
<1>4. PICK n \in Nat : n = PlaceOf(u, m)
    BY <1>3, Counts
<1>5. PICK all \in Nat : all = Cardinality(Places(u)) /\ n <= all
    <2>1. PICK last \in Nat : last = LastPlace(u)
        BY HistoryParts
    <2>2. last \in m .. LastPlace(u) /\ last \in -1 .. LastPlace(u) /\ last = LastPlace(u)
        BY <1>2, <2>1
    <2>3. PlaceOf(u, m) <= PlaceOf(u, last) /\ PlaceOf(u, last) = Cardinality(Places(u))
          /\ PlaceOf(u, last) \in Nat
        BY <1>3, <2>2, Counts, CountsGrow
    <2> QED BY <1>4, <2>3
<1> DEFINE H == HistOf(u, first)
           G == HistOf(v, first)
           text == T[v.cur]
<1>6. H \in Seq(Seq(Chars)) /\ Len(H) = all /\ \A k \in 1 .. all : H[k] = S[PlaceAt(u, k)]
    BY <1>5, HistIs
<1>7. G \in Seq(Seq(Chars)) /\ Len(G) = n + 1 /\ \A k \in 1 .. n + 1 : G[k] = T[PlaceAt(v, k)]
    BY <1>1, <1>2, <1>4, HistIs
<1>8. text \in Seq(Chars)
    BY HistoryParts DEF Replays
<1> HIDE DEF H, G, text
<1>9. \A i \in 0 .. m : T[i] = S[i]
    <2>1. \A i \in 1 .. m : SameAction(v.acts[i], u.acts[i])
        <3>1. \A i \in 1 .. m : i \in 1 .. w
            BY <1>2, HistoryParts DEF Grown
        <3> QED BY <3>1 DEF Grown
    <2> QED BY <1>2, <2>1, AlikeTexts
<1>10. ASSUME NEW k \in 1 .. n PROVE G[k] = H[k]
    <2>1. k \in 1 .. all /\ k \in 1 .. n + 1
        BY <1>5
    <2>2. PICK i \in Places(u) : i = PlaceAt(u, k) /\ PlaceOf(u, i) = k
        BY <1>5, <2>1, PlacesCounted
    <2>3. i <= m
        BY <1>3, <1>4, <2>2, PlacesOrdered
    <2>4. i \in Places(v) /\ i \in 0 .. m /\ i \in -1 .. w - 1
        <3>1. i \in 0 .. LastPlace(u)
            BY PlacesAre
        <3> QED BY <1>1, <1>2, <2>3, <3>1
    <2>5. PlaceOf(v, i) = k
        BY <1>1, <2>2, <2>4
    <2>6. PlaceAt(v, k) = i
        BY <2>4, <2>5, PlacesCounted
    <2> QED BY <1>6, <1>7, <1>9, <2>1, <2>2, <2>4, <2>6
<1>11. G[n + 1] = text
    <2>1. v.cur \in Places(v) /\ PlaceOf(v, v.cur) = n + 1
        BY <1>1, <1>2, <1>4, PlacesAre
    <2>2. PlaceAt(v, n + 1) = v.cur
        BY <2>1, PlacesCounted
    <2> QED BY <1>7, <2>2 DEF text
<1>12. G = SubSeq(H, 1, n) \o <<text>>
    <2> DEFINE P == SubSeq(H, 1, n)
    <2>1. Excerpt(P, H, 1, n, Seq(Chars))
        BY <1>5, <1>6, Piece
    <2>2. P \in Seq(Seq(Chars)) /\ Len(P) = n /\ \A k \in 1 .. n : P[k] = H[k]
        <3>1. n - 1 + 1 = n /\ \A k \in 1 .. n : 1 + k - 1 = k
            OBVIOUS
        <3> HIDE DEF P
        <3> QED BY <2>1, <3>1 DEF Excerpt
    <2> HIDE DEF P
    <2>3. <<text>> \in Seq(Seq(Chars)) /\ Len(<<text>>) = 1 /\ <<text>>[1] = text
        BY <1>8
    <2> DEFINE R == P \o <<text>>
    <2>4. R \in Seq(Seq(Chars)) /\ Len(R) = n + 1
        BY <2>2, <2>3
    <2>5. \A k \in 1 .. n : R[k] = P[k]
        BY <2>2, <2>3
    <2>6. R[n + 1] = text
        BY <2>2, <2>3
    <2> HIDE DEF R
    <2>7. ASSUME NEW k \in 1 .. n + 1 PROVE G[k] = R[k]
        <3>1. k \in 1 .. n \/ k = n + 1
            OBVIOUS
        <3> QED BY <1>10, <1>11, <2>2, <2>5, <2>6, <3>1
    <2>8. G = R
        BY <1>7, <2>4, <2>7, SeqEqual
    <2> QED BY <2>8 DEF R, P
<1>13. Len(<<text>>) = 1
    OBVIOUS
<1>14. SavedOf(v) = IF SavedOf(u) > n THEN 0 ELSE SavedOf(u)
    BY <1>2, <1>4, GrownSaved
<1> QED BY <1>1, <1>2, <1>4, <1>12, <1>13, <1>14 DEF CutTo, H, G, text

\* An edit opens a place after the current one, or changes the text of it.
LEMMA GrownFrom ==
    ASSUME NEW u, NEW v, NEW w, WellFormed(u, Chars), WellFormed(v, Chars), Grown(u, v, w)
    PROVE  \/ w = u.cur + 1 /\ PlaceOf(u, w - 1) = PlaceOf(u, u.cur)
           \/ PlaceOf(u, u.cur) > 1 /\ PlaceOf(u, w - 1) = PlaceOf(u, u.cur) - 1
<1>1. PICK cur \in Nat, last \in Nat :
          cur = u.cur /\ last = LastPlace(u) /\ cur <= last /\ w \in {cur, cur + 1} /\ w > 0
    BY HistoryParts DEF Grown
<1>2. CASE w = cur + 1
    <2>1. w - 1 = cur
        BY <1>2
    <2> QED BY <1>1, <1>2, <2>1
<1>3. CASE w = cur
    <2>1. /\ cur \in -1 .. LastPlace(u) /\ cur - 1 \in -1 .. LastPlace(u) /\ cur >= 0
          /\ 0 \in -1 .. LastPlace(u) /\ -1 \in -1 .. LastPlace(u)
          /\ cur - 1 \in 0 .. LastPlace(u) /\ 0 - 1 = -1
        BY <1>1, <1>3
    <2>2. IsStart(u, cur) /\ IsStart(u, 0)
        BY <1>1 DEF WellFormed
    <2>3. PlaceOf(u, cur) = PlaceOf(u, cur - 1) + 1
        BY <2>1, <2>2, Counts
    <2>4. PlaceOf(u, 0) = PlaceOf(u, 0 - 1) + 1 /\ PlaceOf(u, -1) = 0
        BY <2>1, <2>2, Counts
    <2>5. PlaceOf(u, 0) <= PlaceOf(u, cur - 1) /\ PlaceOf(u, cur - 1) \in Nat
        BY <2>1, Counts, CountsGrow
    <2>6. PlaceOf(u, 0) = 1
        BY <2>1, <2>4
    <2>7. PlaceOf(u, cur) > 1 /\ PlaceOf(u, cur - 1) = PlaceOf(u, cur) - 1
        BY <2>3, <2>5, <2>6
    <2> QED BY <1>1, <1>3, <2>7
<1> QED BY <1>1, <1>2, <1>3

\* Histories with the same actions are the same list.
LEMMA SameLists ==
    ASSUME NEW u, NEW v, NEW first, NEW S, NEW T,
           WellFormed(u, Chars), WellFormed(v, Chars), SameActions(u, v),
           Replays(S, u, first), Replays(T, v, first)
    PROVE  /\ PlaceOf(v, v.cur) = PlaceOf(u, u.cur)
           /\ HistOf(v, first) = HistOf(u, first)
           /\ SavedOf(v) = SavedOf(u)
           /\ T[v.cur] = S[u.cur]
<1>1. PICK last \in Nat :
          last = LastPlace(u) /\ last = LastPlace(v) /\ Len(u.acts) = last + 1
    BY HistoryParts DEF SameActions
<1>2. \A i \in 1 .. last + 1 : SameAction(v.acts[i], u.acts[i])
    BY <1>1 DEF SameActions, SameAction
<1>3. /\ \A i \in -1 .. last : PlaceOf(v, i) = PlaceOf(u, i)
      /\ \A i \in 0 .. last : i \in Places(v) <=> i \in Places(u)
    <2>1. last <= LastPlace(u) /\ last <= LastPlace(v)
        BY <1>1
    <2> QED BY <1>2, <2>1, AlikeUpTo
<1>4. Places(v) = Places(u)
    <2>1. \A i : i \in Places(u) \/ i \in Places(v) => i \in 0 .. last
        BY <1>1, PlacesAre
    <2> QED BY <1>3, <2>1
<1>5. \A i \in 0 .. last : T[i] = S[i]
    <2>1. last <= LastPlace(u) /\ last <= LastPlace(v)
        BY <1>1
    <2>2. \A i \in 1 .. last : SameAction(v.acts[i], u.acts[i])
        BY <1>2
    <2> QED BY <2>1, <2>2, AlikeTexts
<1>6. v.cur = u.cur /\ v.save = u.save /\ u.cur \in 0 .. last /\ u.cur \in -1 .. last
    BY <1>1, HistoryParts DEF SameActions
<1>7. \A j : PlaceOf(v, j) = PlaceOf(u, j)
    BY <1>4 DEF PlaceOf
<1>8. \A k : PlaceAt(v, k) = PlaceAt(u, k)
    BY <1>4, <1>7 DEF PlaceAt
<1>9. HistOf(v, first) = HistOf(u, first)
    <2>1. TextsOf(u, first) = S /\ TextsOf(v, first) = T
        BY TextsAre
    <2>2. \A k \in 1 .. Cardinality(Places(u)) : T[PlaceAt(v, k)] = S[PlaceAt(u, k)]
        <3>1. \A k \in 1 .. Cardinality(Places(u)) : PlaceAt(u, k) \in 0 .. last
            BY <1>1, PlacesAre, PlacesCounted
        <3> QED BY <1>5, <1>8, <3>1
    <2> QED BY <1>4, <2>1, <2>2 DEF HistOf
<1> QED BY <1>4, <1>5, <1>6, <1>7, <1>9 DEF SavedOf

\* What is at a place is the text of that number.
LEMMA TextThere ==
    ASSUME NEW u, NEW first, NEW T, NEW i, WellFormed(u, Chars), Replays(T, u, first), i \in Places(u)
    PROVE  /\ PlaceOf(u, i) \in 1 .. Len(HistOf(u, first))
           /\ HistOf(u, first)[PlaceOf(u, i)] = T[i]
<1>1. PICK all \in Nat : all = Cardinality(Places(u)) /\ Len(HistOf(u, first)) = all
    BY HistIs
<1>2. PlaceOf(u, i) \in 1 .. all /\ PlaceAt(u, PlaceOf(u, i)) = i
    BY <1>1, PlacesCounted
<1> QED BY <1>1, <1>2, HistIs

\* From one place to the next nothing starts in between.
LEMMA NextPlace ==
    ASSUME NEW u, WellFormed(u, Chars), NEW i \in Places(u), NEW j \in Places(u), i < j,
           \A m \in i + 1 .. j - 1 : ~IsStart(u, m)
    PROVE  PlaceOf(u, j) = PlaceOf(u, i) + 1
<1>1. PICK last \in Nat : last = LastPlace(u)
    BY HistoryParts
<1>2. i \in 0 .. last /\ j \in 0 .. last /\ IsStart(u, j)
    BY <1>1, PlacesAre
<1>3. i \in -1 .. LastPlace(u) /\ j - 1 \in i .. LastPlace(u) /\ j \in -1 .. LastPlace(u) /\ j >= 0
    BY <1>1, <1>2
<1>4. PlaceOf(u, i) = PlaceOf(u, j - 1)
    BY <1>3, CountsGrow
<1>5. PlaceOf(u, j) = PlaceOf(u, j - 1) + 1
    BY <1>2, <1>3, Counts
<1> QED BY <1>4, <1>5

(***************************************************************************)
(* The steps of the buffer.                                                *)
(***************************************************************************)

OneStep(u, v) == SameActions(u, v) \/ \E w : Grown(u, v, w)

\* The same list of texts, the same place in it, the same place that was saved.
SameList(b, c, first) ==
    /\ c.text = b.text
    /\ HistOf(c.uh, first) = HistOf(b.uh, first)
    /\ PlaceOf(c.uh, c.uh.cur) = PlaceOf(b.uh, b.uh.cur)
    /\ SavedOf(c.uh) = SavedOf(b.uh)

\* `more' comes after the place of b, or replaces it.
Opens(b, c, first, more) == CutTo(b.uh, c.uh, first, PlaceOf(b.uh, b.uh.cur), more)

GoesOn(b, c, first) ==
    /\ PlaceOf(b.uh, b.uh.cur) > 1
    /\ CutTo(b.uh, c.uh, first, PlaceOf(b.uh, b.uh.cur) - 1, <<c.text>>)

Stepped(b, c, first) ==
    SameList(b, c, first) \/ Opens(b, c, first, <<c.text>>) \/ GoesOn(b, c, first)

LEMMA StepIs ==
    ASSUME NEW first, NEW b, NEW c, GoodBuffer(b, first), GoodBuffer(c, first),
           OneStep(b.uh, c.uh)
    PROVE  /\ Stepped(b, c, first)
           /\ Grown(b.uh, c.uh, b.uh.cur + 1) => Opens(b, c, first, <<c.text>>)
<1> DEFINE u == b.uh
           v == c.uh
<1>1. WellFormed(u, Chars) /\ WellFormed(v, Chars)
    BY DEF GoodBuffer
<1>2. PICK S : Replays(S, u, first) /\ S[u.cur] = b.text
    BY DEF GoodBuffer, HasReplay
<1>3. PICK T : Replays(T, v, first) /\ T[v.cur] = c.text
    BY DEF GoodBuffer, HasReplay
<1>4. OneStep(u, v)
    OBVIOUS
<1>5. SameActions(u, v) => SameList(b, c, first)
    <2> HIDE DEF u, v
    <2>1. SameActions(u, v) => /\ PlaceOf(v, v.cur) = PlaceOf(u, u.cur)
                               /\ HistOf(v, first) = HistOf(u, first)
                               /\ SavedOf(v) = SavedOf(u)
                               /\ T[v.cur] = S[u.cur]
        BY <1>1, <1>2, <1>3, SameLists
    <2> QED BY <1>2, <1>3, <2>1 DEF SameList, u, v
<1>6. ASSUME NEW w, Grown(u, v, w)
      PROVE  CutTo(u, v, first, PlaceOf(u, w - 1), <<c.text>>)
    <2> HIDE DEF u, v
    <2>1. CutTo(u, v, first, PlaceOf(u, w - 1), <<T[v.cur]>>)
        BY <1>1, <1>2, <1>3, <1>6, GrownIsCut
    <2> QED BY <1>3, <2>1
<1>7. ASSUME NEW w, Grown(u, v, w) PROVE Opens(b, c, first, <<c.text>>) \/ GoesOn(b, c, first)
    <2>1. \/ w = u.cur + 1 /\ PlaceOf(u, w - 1) = PlaceOf(u, u.cur)
          \/ PlaceOf(u, u.cur) > 1 /\ PlaceOf(u, w - 1) = PlaceOf(u, u.cur) - 1
        <3> HIDE DEF u, v
        <3> QED BY <1>1, <1>7, GrownFrom
    <2>2. CutTo(u, v, first, PlaceOf(u, w - 1), <<c.text>>)
        BY <1>6, <1>7
    <2> QED BY <2>1, <2>2 DEF Opens, GoesOn
<1>8. ASSUME Grown(u, v, u.cur + 1) PROVE Opens(b, c, first, <<c.text>>)
    <2>1. (u.cur + 1) - 1 = u.cur
        BY <1>1, HistoryParts
    <2>2. CutTo(u, v, first, PlaceOf(u, (u.cur + 1) - 1), <<c.text>>)
        BY <1>6, <1>8
    <2> QED BY <2>1, <2>2 DEF Opens
<1> QED BY <1>4, <1>5, <1>7, <1>8 DEF OneStep, Stepped

\* Changes that extend a history, or are set apart in it, are one step of it.
LEMMA ChangesAreSteps ==
    ASSUME NEW first, NEW b, NEW c, GoodBuffer(b, first), Edited(b, c, first)
    PROVE  /\ Extended(b.uh, c.uh) => OneStep(b.uh, c.uh)
           /\ Apart(b.uh, c.uh) => OneStep(b.uh, c.uh)
<1>1. b.uh.depth \in Nat
    BY HistoryParts DEF GoodBuffer
<1>2. Extended(b.uh, c.uh) => OneStep(b.uh, c.uh)
    BY DEF Extended, OneStep
<1>3. b.uh.depth > 0 \/ b.uh.depth = 0
    BY <1>1
<1> QED BY <1>2, <1>3 DEF Edited, Apart, OneStep

\* Two steps, the first of which empties the text.
LEMMA TwoStepsAre ==
    ASSUME NEW first, NEW b, NEW c, NEW d,
           GoodBuffer(b, first), GoodBuffer(c, first), GoodBuffer(d, first),
           c.text = <<>>, Opens(b, c, first, <<c.text>>), Opens(c, d, first, <<d.text>>)
    PROVE  Opens(b, d, first, << <<>>, d.text >>)
<1>1. d.text \in Seq(Chars) /\ c.text \in Seq(Chars)
    BY DEF GoodBuffer, Buffers
<1>2. PICK T : Replays(T, b.uh, first)
    BY DEF GoodBuffer, HasReplay
<1>3. PICK n \in Nat : n = PlaceOf(b.uh, b.uh.cur) /\ n <= Len(HistOf(b.uh, first))
    <2>1. WellFormed(b.uh, Chars) /\ b.uh.cur \in Places(b.uh)
        BY PlacesAre DEF GoodBuffer
    <2>2. PlaceOf(b.uh, b.uh.cur) \in 1 .. Len(HistOf(b.uh, first))
        BY <1>2, <2>1, TextThere
    <2>3. Len(HistOf(b.uh, first)) \in Nat
        BY <1>2, <2>1, HistIs
    <2> QED BY <2>2, <2>3
<1> DEFINE H == HistOf(b.uh, first)
           G == HistOf(c.uh, first)
           P == SubSeq(H, 1, n)
           empty == c.text
           text == d.text
<1>4. H \in Seq(Seq(Chars)) /\ Len(H) \in Nat
    BY <1>2, HistIs, SequenceOf DEF GoodBuffer
<1>5. P \in Seq(Seq(Chars)) /\ Len(P) = n
    <2>1. Excerpt(P, H, 1, n, Seq(Chars))
        BY <1>3, <1>4, Piece
    <2>2. n - 1 + 1 = n
        OBVIOUS
    <2> HIDE DEF P, H
    <2> QED BY <2>1, <2>2 DEF Excerpt
<1>6. /\ PlaceOf(c.uh, c.uh.cur) = n + 1 /\ G = P \o <<empty>>
      /\ SavedOf(c.uh) = IF SavedOf(b.uh) > n THEN 0 ELSE SavedOf(b.uh)
    <2>1. Len(<<c.text>>) = 1
        OBVIOUS
    <2> QED BY <1>3, <2>1 DEF Opens, CutTo
<1>7. /\ PlaceOf(d.uh, d.uh.cur) = n + 2
      /\ HistOf(d.uh, first) = SubSeq(G, 1, n + 1) \o <<text>>
      /\ SavedOf(d.uh) = IF SavedOf(c.uh) > n + 1 THEN 0 ELSE SavedOf(c.uh)
    <2>1. Len(<<d.text>>) = 1 /\ n + 1 + 1 = n + 2
        OBVIOUS
    <2> QED BY <1>6, <2>1 DEF Opens, CutTo
<1> HIDE DEF P, G, H, empty, text
<1>8. G \in Seq(Seq(Chars)) /\ Len(G) = n + 1
    BY <1>1, <1>5, <1>6 DEF empty
<1>9. SubSeq(G, 1, n + 1) = G
    BY <1>8
<1>10. G \o <<text>> = P \o <<empty, text>>
    <2> DEFINE L == G \o <<text>>
               R == P \o <<empty, text>>
    <2>1. /\ L \in Seq(Seq(Chars)) /\ R \in Seq(Seq(Chars)) /\ Len(L) = n + 2 /\ Len(R) = n + 2
        BY <1>1, <1>5, <1>8, Pair DEF empty, text
    <2>2. \A i \in 1 .. n : L[i] = P[i] /\ R[i] = P[i]
        <3>1. \A i \in 1 .. n : G[i] = P[i]
            BY <1>1, <1>5, <1>6 DEF empty
        <3>2. \A i \in 1 .. n : L[i] = G[i]
            BY <1>1, <1>8 DEF text
        <3>3. \A i \in 1 .. n : R[i] = P[i]
            BY <1>1, <1>5, Pair DEF empty, text
        <3> QED BY <3>1, <3>2, <3>3
    <2>3. L[n + 1] = empty /\ R[n + 1] = empty
        <3>1. G[n + 1] = empty
            BY <1>1, <1>5, <1>6 DEF empty
        <3>2. L[n + 1] = G[n + 1]
            BY <1>1, <1>8 DEF text
        <3>3. R[n + 1] = empty
            BY <1>1, <1>5, Pair DEF empty, text
        <3> QED BY <3>1, <3>2, <3>3
    <2>4. L[n + 2] = text /\ R[n + 2] = text
        <3>1. L[n + 2] = text
            BY <1>1, <1>8 DEF text
        <3>2. R[n + 2] = text
            BY <1>1, <1>5, Pair DEF empty, text
        <3> QED BY <3>1, <3>2
    <2> HIDE DEF L, R
    <2>5. \A i \in 1 .. n + 2 : L[i] = R[i]
        <3>1. \A i \in 1 .. n + 2 : i \in 1 .. n \/ i = n + 1 \/ i = n + 2
            OBVIOUS
        <3> QED BY <2>2, <2>3, <2>4, <3>1
    <2>6. L = R
        BY <2>1, <2>5, SeqEqual
    <2> QED BY <2>6 DEF L, R
<1>11. SavedOf(d.uh) = IF SavedOf(b.uh) > n THEN 0 ELSE SavedOf(b.uh)
    <2>1. SavedOf(b.uh) \in Int
        <3>1. \A i \in Places(b.uh) : PlaceOf(b.uh, i) \in Nat
            BY PlacesCounted DEF GoodBuffer
        <3> QED BY <3>1 DEF SavedOf
    <2> QED BY <1>6, <1>7, <2>1
<1>12. Len(<< <<>>, d.text >>) = 2
    OBVIOUS
<1> QED BY <1>3, <1>7, <1>9, <1>10, <1>11, <1>12 DEF Opens, CutTo, empty, text, P, H

\* A reload that fails: what is read goes where everything was.
LEMMA TornIs ==
    ASSUME NEW first, NEW b, GoodBuffer(b, first), NEW t \in Seq(Chars)
    PROVE  LET d == InsertString(Cleared(b), 0, t)
           IN  Stepped(b, d, first) \/ Opens(b, d, first, << <<>>, d.text >>)
<1> DEFINE c == Cleared(b)
           d == InsertString(c, 0, t)
<1>1. Edited(b, c, first) /\ GoodBuffer(c, first) /\ Apart(b.uh, c.uh) /\ c.text = <<>>
    BY ClearedIs DEF Edited
<1>2. 0 \in 0 .. Len(c.text)
    BY <1>1
<1> HIDE DEF c
<1>3. Edited(c, d, first) /\ GoodBuffer(d, first) /\ Extended(c.uh, d.uh)
    BY <1>1, <1>2, InsertStringIs DEF Edited
<1>4. Edited(b, d, first)
    BY <1>1, <1>3, EditedTwice
<1> HIDE DEF d
<1>5. WellFormed(b.uh, Chars) /\ WellFormed(c.uh, Chars) /\ WellFormed(d.uh, Chars)
    BY <1>1, <1>3 DEF GoodBuffer
<1>6. b.uh.depth \in Nat
    BY <1>5, HistoryParts
<1>7. CASE b.uh.depth > 0
    <2>1. OneStep(b.uh, d.uh)
        BY <1>4, <1>7, ChangesAreSteps DEF Edited
    <2> QED BY <1>3, <2>1, StepIs DEF d, c
<1>8. CASE b.uh.depth = 0
    <2>1. ~Current(c.uh).coal /\ (SameActions(b.uh, c.uh) \/ Grown(b.uh, c.uh, b.uh.cur + 1))
        BY <1>1, <1>8 DEF Apart
    <2>2. SameActions(c.uh, d.uh) \/ Grown(c.uh, d.uh, c.uh.cur + 1)
        BY <1>3, <2>1 DEF Extended
    <2>3. SameActions(b.uh, b.uh) /\ SameActions(d.uh, d.uh)
        BY DEF SameActions
    <2>4. CASE SameActions(b.uh, c.uh)
        <3>1. OneStep(b.uh, d.uh)
            <4>1. SameActions(c.uh, d.uh) => SameActions(b.uh, d.uh)
                BY <1>5, <2>4, SameActionsTwice
            <4>2. \A w : Grown(c.uh, d.uh, w) => Grown(b.uh, d.uh, w)
                BY <1>5, <2>3, <2>4, GrownStays
            <4> QED BY <2>2, <4>1, <4>2 DEF OneStep
        <3> QED BY <1>3, <3>1, StepIs DEF d, c
    <2>5. CASE Grown(b.uh, c.uh, b.uh.cur + 1) /\ SameActions(c.uh, d.uh)
        <3>1. OneStep(b.uh, d.uh)
            BY <1>5, <2>3, <2>5, GrownStays DEF OneStep
        <3> QED BY <1>3, <3>1, StepIs DEF d, c
    <2>6. CASE Grown(b.uh, c.uh, b.uh.cur + 1) /\ Grown(c.uh, d.uh, c.uh.cur + 1)
        <3>1. OneStep(b.uh, c.uh) /\ OneStep(c.uh, d.uh)
            BY <2>6 DEF OneStep
        <3>2. Opens(b, c, first, <<c.text>>) /\ Opens(c, d, first, <<d.text>>)
            BY <1>1, <1>3, <2>6, <3>1, StepIs
        <3>3. Opens(b, d, first, << <<>>, d.text >>)
            BY <1>1, <1>3, <3>2, TwoStepsAre
        <3> QED BY <3>3 DEF d, c
    <2> QED BY <2>1, <2>2, <2>4, <2>5, <2>6
<1> QED BY <1>6, <1>7, <1>8

\* Where the document is in its history, and what was saved, do not change the list.
LEMMA SameActs ==
    ASSUME NEW u, NEW v, NEW first, NEW T, WellFormed(u, Chars), WellFormed(v, Chars),
           v.acts = u.acts, Replays(T, u, first)
    PROVE  /\ Replays(T, v, first) /\ Places(v) = Places(u)
           /\ HistOf(v, first) = HistOf(u, first)
           /\ \A i : PlaceOf(v, i) = PlaceOf(u, i)
<1>1. Replays(T, v, first)
    BY DEF Replays, LastPlace
<1>2. Places(v) = Places(u)
    BY DEF Places, LastPlace
<1>3. \A i : PlaceOf(v, i) = PlaceOf(u, i)
    BY <1>2 DEF PlaceOf
<1>4. \A k : PlaceAt(v, k) = PlaceAt(u, k)
    BY <1>2, <1>3 DEF PlaceAt
<1>5. TextsOf(v, first) = T /\ TextsOf(u, first) = T
    BY <1>1, TextsAre
<1> QED BY <1>1, <1>2, <1>3, <1>4, <1>5 DEF HistOf

\* b is the document at another place of its history.
Moved(b, c, first, k) ==
    /\ k \in 1 .. Len(HistOf(b.uh, first))
    /\ PlaceOf(c.uh, c.uh.cur) = k
    /\ c.text = HistOf(b.uh, first)[k]
    /\ HistOf(c.uh, first) = HistOf(b.uh, first)
    /\ SavedOf(c.uh) = SavedOf(b.uh)

LEMMA MovedIs ==
    ASSUME NEW first, NEW b, NEW c, GoodBuffer(b, first), GoodBuffer(c, first),
           c.uh.acts = b.uh.acts, c.uh.save = b.uh.save,
           NEW T, Replays(T, b.uh, first), c.text = T[c.uh.cur]
    PROVE  Moved(b, c, first, PlaceOf(b.uh, c.uh.cur))
<1>1. WellFormed(b.uh, Chars) /\ WellFormed(c.uh, Chars)
    BY DEF GoodBuffer
<1>2. /\ Places(c.uh) = Places(b.uh) /\ HistOf(c.uh, first) = HistOf(b.uh, first)
      /\ \A i : PlaceOf(c.uh, i) = PlaceOf(b.uh, i)
    BY <1>1, SameActs
<1>3. c.uh.cur \in Places(b.uh)
    BY <1>1, <1>2, PlacesAre
<1>4. /\ PlaceOf(b.uh, c.uh.cur) \in 1 .. Len(HistOf(b.uh, first))
      /\ HistOf(b.uh, first)[PlaceOf(b.uh, c.uh.cur)] = T[c.uh.cur]
    BY <1>1, <1>3, TextThere
<1> QED BY <1>2, <1>4 DEF Moved, SavedOf

LEMMA UndoMoves ==
    ASSUME NEW first, NEW b, GoodBuffer(b, first), CanUndo(b.uh)
    PROVE  Moved(b, UndoGroup(b), first, PlaceOf(b.uh, b.uh.cur) - 1)
<1> DEFINE c == UndoGroup(b)
           to == UndoTo(b.uh)
<1>1. WellFormed(b.uh, Chars) /\ b \in Buffers
    BY DEF GoodBuffer
<1>2. PICK T : Replays(T, b.uh, first) /\ T[b.uh.cur] = b.text
    BY DEF GoodBuffer, HasReplay
<1>3. c.text = T[to]
    BY <1>2, UndoneText
<1>4. GoodBuffer(c, first)
    BY UndoGroupIs
<1>5. c.uh.acts = b.uh.acts /\ c.uh.save = b.uh.save /\ c.uh.cur = to
    BY <1>1 DEF UndoGroup, Buffers, Histories
<1>6. /\ to \in 0 .. b.uh.cur - 1 /\ IsStart(b.uh, to)
      /\ \A j \in to + 1 .. b.uh.cur - 1 : ~IsStart(b.uh, j)
    BY <1>1, UndoLands
<1> HIDE DEF c, to
<1>7. Moved(b, c, first, PlaceOf(b.uh, to))
    BY <1>2, <1>3, <1>4, <1>5, MovedIs
<1>8. /\ to \in Places(b.uh) /\ b.uh.cur \in Places(b.uh) /\ to < b.uh.cur
      /\ PlaceOf(b.uh, to) \in Nat
    <2>1. b.uh.cur \in Nat /\ b.uh.cur <= LastPlace(b.uh) /\ LastPlace(b.uh) \in Nat
        BY <1>1, HistoryParts
    <2>2. to \in 0 .. LastPlace(b.uh) /\ to < b.uh.cur /\ to \in -1 .. LastPlace(b.uh)
        BY <1>6, <2>1
    <2> QED BY <1>1, <1>6, <2>2, PlacesAre, Counts
<1>9. PlaceOf(b.uh, b.uh.cur) = PlaceOf(b.uh, to) + 1
    BY <1>1, <1>6, <1>8, NextPlace
<1>10. PlaceOf(b.uh, b.uh.cur) - 1 = PlaceOf(b.uh, to)
    BY <1>8, <1>9
<1> QED BY <1>7, <1>10 DEF c

LEMMA RedoMoves ==
    ASSUME NEW first, NEW b, GoodBuffer(b, first), CanRedo(b.uh)
    PROVE  Moved(b, RedoGroup(b), first, PlaceOf(b.uh, b.uh.cur) + 1)
<1> DEFINE c == RedoGroup(b)
           to == RedoTo(b.uh)
<1>1. WellFormed(b.uh, Chars) /\ b \in Buffers
    BY DEF GoodBuffer
<1>2. PICK T : Replays(T, b.uh, first) /\ T[b.uh.cur] = b.text
    BY DEF GoodBuffer, HasReplay
<1>3. c.text = T[to]
    BY <1>2, RedoneText
<1>4. GoodBuffer(c, first)
    BY RedoGroupIs
<1>5. c.uh.acts = b.uh.acts /\ c.uh.save = b.uh.save /\ c.uh.cur = to
    BY <1>1 DEF RedoGroup, Buffers, Histories
<1>6. /\ to \in b.uh.cur + 1 .. LastPlace(b.uh) /\ IsStart(b.uh, to)
      /\ \A j \in b.uh.cur + 1 .. to - 1 : ~IsStart(b.uh, j)
    BY <1>1, RedoLands
<1> HIDE DEF c, to
<1>7. Moved(b, c, first, PlaceOf(b.uh, to))
    BY <1>2, <1>3, <1>4, <1>5, MovedIs
<1>8. to \in Places(b.uh) /\ b.uh.cur \in Places(b.uh) /\ b.uh.cur < to
    <2>1. b.uh.cur \in Nat /\ LastPlace(b.uh) \in Nat
        BY <1>1, HistoryParts
    <2>2. to \in 0 .. LastPlace(b.uh) /\ b.uh.cur < to
        BY <1>6, <2>1
    <2> QED BY <1>1, <1>6, <2>2, PlacesAre
<1>9. PlaceOf(b.uh, to) = PlaceOf(b.uh, b.uh.cur) + 1
    BY <1>1, <1>6, <1>8, NextPlace
<1> QED BY <1>7, <1>9 DEF c

LEMMA SaveKeepsList ==
    ASSUME NEW first, NEW b, GoodBuffer(b, first),
           NEW c, c = [b EXCEPT !.uh = SetSavePoint(@)]
    PROVE  /\ c.text = b.text /\ HistOf(c.uh, first) = HistOf(b.uh, first)
           /\ PlaceOf(c.uh, c.uh.cur) = PlaceOf(b.uh, b.uh.cur)
           /\ SavedOf(c.uh) = PlaceOf(b.uh, b.uh.cur)
<1>1. WellFormed(b.uh, Chars) /\ b \in Buffers
    BY DEF GoodBuffer
<1>2. PICK T : Replays(T, b.uh, first)
    BY DEF GoodBuffer, HasReplay
<1>3. /\ c.text = b.text /\ c.uh.acts = b.uh.acts /\ c.uh.cur = b.uh.cur
      /\ c.uh.save = b.uh.cur
    BY <1>1 DEF SetSavePoint, Buffers, Histories
<1>4. WellFormed(c.uh, Chars)
    BY SavedIs DEF GoodBuffer
<1>5. /\ Places(c.uh) = Places(b.uh) /\ HistOf(c.uh, first) = HistOf(b.uh, first)
      /\ \A i : PlaceOf(c.uh, i) = PlaceOf(b.uh, i)
    BY <1>1, <1>2, <1>3, <1>4, SameActs
<1>6. b.uh.cur \in Places(b.uh)
    BY <1>1, PlacesAre
<1> QED BY <1>3, <1>5, <1>6 DEF SavedOf

\* An empty history is a list of one text, which counts as saved.
LEMMA EmptyIsOne ==
    ASSUME NEW b, NEW depth, GoodBuffer(b, b.text), b.uh = [NewHistory EXCEPT !.depth = depth]
    PROVE  /\ HistOf(b.uh, b.text) = <<b.text>>
           /\ PlaceOf(b.uh, b.uh.cur) = 1 /\ SavedOf(b.uh) = 1
<1>1. WellFormed(b.uh, Chars)
    BY DEF GoodBuffer
<1>2. PICK T : Replays(T, b.uh, b.text)
    BY DEF GoodBuffer, HasReplay
<1>3. b.uh.cur = 0 /\ b.uh.save = 0 /\ LastPlace(b.uh) = 0
    <2>1. b.uh.cur = 0 /\ b.uh.save = 0 /\ b.uh.acts = <<StartAction(TRUE)>>
        BY EmptyHistory DEF NewHistory
    <2>2. Len(<<StartAction(TRUE)>>) = 1
        OBVIOUS
    <2> QED BY <2>1, <2>2 DEF LastPlace
<1>4. 0 \in Places(b.uh) /\ IsStart(b.uh, 0)
    BY <1>1, PlacesAre
<1>5. PlaceOf(b.uh, 0) = 1 /\ Cardinality(Places(b.uh)) = 1
    <2>1. /\ 0 \in -1 .. LastPlace(b.uh) /\ -1 \in -1 .. LastPlace(b.uh) /\ 0 - 1 = -1
          /\ 0 >= 0
        BY <1>3
    <2>2. PlaceOf(b.uh, 0) = PlaceOf(b.uh, 0 - 1) + 1
        BY <1>1, <1>4, <2>1, Counts
    <2>3. PlaceOf(b.uh, -1) = 0
        BY <1>1, <2>1, Counts
    <2>4. PlaceOf(b.uh, 0) = Cardinality(Places(b.uh))
        BY <1>1, <1>3, <2>1, Counts
    <2> QED BY <2>1, <2>2, <2>3, <2>4
<1>6. HistOf(b.uh, b.text) = <<b.text>>
    <2> DEFINE H == HistOf(b.uh, b.text)
    <2>1. H \in Seq(Seq(Chars)) /\ Len(H) = 1
        BY <1>1, <1>2, <1>5, HistIs
    <2>2. H[1] = T[0]
        <3>1. H[PlaceOf(b.uh, 0)] = T[0]
            BY <1>1, <1>2, <1>4, TextThere
        <3> HIDE DEF H
        <3> QED BY <1>5, <3>1
    <2>3. T[0] = b.text
        BY <1>2 DEF Replays
    <2>4. b.text \in Seq(Chars)
        BY DEF GoodBuffer, Buffers
    <2> DEFINE R == <<b.text>>
    <2>5. R \in Seq(Seq(Chars)) /\ Len(R) = 1 /\ R[1] = b.text
        BY <2>4
    <2> HIDE DEF H, R
    <2>6. \A i \in 1 .. 1 : H[i] = R[i]
        BY <2>2, <2>3, <2>5
    <2>7. H = R
        BY <2>1, <2>5, <2>6, SeqEqual
    <2> QED BY <2>7 DEF H, R
<1> QED BY <1>3, <1>4, <1>5, <1>6 DEF SavedOf

(***************************************************************************)
(* Every step of the editor is a step of the list, or none.                *)
(***************************************************************************)

\* What begins a group does not matter for what comes after.
LEMMA BegunSteps ==
    ASSUME NEW first, NEW b, GoodBuffer(b, first), NEW c, Edited(Begin(b), c, first)
    PROVE  OneStep(b.uh, c.uh)
<1> DEFINE u == b.uh
           u1 == Begin(b).uh
           v == c.uh
<1>1. /\ SameActions(u, u1) /\ GoodBuffer(Begin(b), first) /\ u1.depth = u.depth + 1
    BY BeginIs DEF SameText
<1>2. WellFormed(u, Chars) /\ WellFormed(u1, Chars) /\ WellFormed(v, Chars) /\ u.depth \in Nat
    BY <1>1, HistoryParts DEF GoodBuffer, Edited
<1>3. Extended(u1, v)
    BY <1>1, <1>2 DEF Edited
<1> HIDE DEF u, u1, v
<1>4. SameActions(v, v)
    BY DEF SameActions
<1>5. SameActions(u1, v) => SameActions(u, v)
    BY <1>1, <1>2, SameActionsTwice
<1>6. \A w : Grown(u1, v, w) => Grown(u, v, w)
    BY <1>1, <1>2, <1>4, GrownStays
<1>7. OneStep(u, v)
    BY <1>3, <1>5, <1>6 DEF Extended, OneStep
<1> QED BY <1>7 DEF u, v

\* Edits, conversions, insertions of files, and groups that begin and end.
EditStep == Type \/ Erase \/ ConvertEols \/ PushUndoLevel \/ PopUndoLevel \/ ResetUndoLevel
            \/ InsertFile

LEMMA EditStepIs ==
    ASSUME Inv, EditStep
    PROVE  base' = base /\ OneStep(buf.uh, buf'.uh)
<1>1. /\ GoodBuffer(buf, base) /\ buf.uh.depth = batch + leaks /\ batch \in Nat /\ leaks \in Nat
      /\ buf.text \in Seq(Chars) /\ Len(buf.text) \in Nat
    <2>1. buf.text \in Seq(Chars)
        BY DEF Inv, GoodBuffer, Buffers
    <2> QED BY <2>1, SequenceOf, Bounds DEF Inv
<1>2. CASE Type
    <2>1. PICK pos \in 0 .. Len(buf.text), s \in Strings : Change(InsertString(buf, pos, s))
        BY <1>2 DEF Type
    <2>2. s \in Seq(Chars)
        BY Bounds
    <2>3. /\ Edited(buf, InsertString(buf, pos, s), base)
          /\ Extended(buf.uh, InsertString(buf, pos, s).uh)
        BY <1>1, <2>2, InsertStringIs
    <2>4. OneStep(buf.uh, InsertString(buf, pos, s).uh)
        BY <1>1, <2>3, ChangesAreSteps
    <2> QED BY <2>1, <2>4 DEF Change
<1>3. CASE Erase
    <2>1. PICK pos \in 0 .. Len(buf.text) - 1 :
              \E n \in Selections(pos) : Change(DeleteChars(buf, pos, n))
        BY <1>3 DEF Erase
    <2>2. PICK n \in Selections(pos) : Change(DeleteChars(buf, pos, n))
        BY <2>1
    <2>3. pos \in Nat /\ n \in Nat /\ pos + n <= Len(buf.text)
        <3>1. pos \in 0 .. Len(buf.text)
            BY <1>1
        <3> QED BY <3>1, SelectionIs
    <2>4. /\ Edited(buf, DeleteChars(buf, pos, n), base)
          /\ Extended(buf.uh, DeleteChars(buf, pos, n).uh)
        BY <1>1, <2>3, DeleteCharsIs
    <2>5. OneStep(buf.uh, DeleteChars(buf, pos, n).uh)
        BY <1>1, <2>4, ChangesAreSteps
    <2> QED BY <2>2, <2>5 DEF Change
<1>4. CASE ConvertEols
    <2>1. PICK eol \in Eols : Change(ConvertLineEnds(buf, eol))
        BY <1>4 DEF ConvertEols
    <2>2. eol \in EolModes
        BY Bounds
    <2>3. /\ Edited(buf, ConvertLineEnds(buf, eol), base)
          /\ Apart(buf.uh, ConvertLineEnds(buf, eol).uh)
        BY <1>1, <2>2, ConvertLineEndsIs
    <2>4. OneStep(buf.uh, ConvertLineEnds(buf, eol).uh)
        BY <1>1, <2>3, ChangesAreSteps
    <2> QED BY <2>1, <2>4 DEF Change
<1>5. CASE PushUndoLevel
    <2>1. buf' = Begin(buf) /\ base' = base
        BY <1>5 DEF PushUndoLevel
    <2>2. SameActions(buf.uh, Begin(buf).uh)
        BY <1>1, BeginIs DEF SameText
    <2> QED BY <2>1, <2>2 DEF OneStep
<1>6. CASE PopUndoLevel \/ ResetUndoLevel
    <2>1. PICK n \in 1 .. batch : PopUndoLevels(n)
        BY <1>1, <1>6 DEF PopUndoLevel, ResetUndoLevel
    <2>2. n \in Nat /\ n <= buf.uh.depth
        BY <1>1
    <2> DEFINE c == FoldLeft(LAMBDA b, i : End(b), buf, [i \in 1 .. n |-> i])
    <2>3. buf' = c /\ base' = base
        BY <2>1 DEF PopUndoLevels
    <2>4. SameText(buf, c)
        BY <1>1, <2>2, EndsAre
    <2> HIDE DEF c
    <2> QED BY <2>3, <2>4 DEF SameText, OneStep
<1>7. CASE InsertFile
    <2> DEFINE Result(pos, s, eol, n) ==
                   /\ \/ buf' = End(ConvertLineEnds(Replaced(Begin(buf), pos, n, s), eol))
                      \/ buf' = Replaced(Begin(buf), pos, n, s)
                      \/ buf' = Begin(buf)
                   /\ base' = base
    <2>1. PICK pos \in 0 .. Len(buf.text), s \in Texts, eol \in Eols :
              \E n \in {0} \cup Selections(pos) : Result(pos, s, eol, n)
        BY <1>7 DEF InsertFile, Replaced
    <2>2. PICK n \in {0} \cup Selections(pos) : Result(pos, s, eol, n)
        BY <2>1
    <2>3. pos \in Nat /\ n \in Nat /\ pos + n <= Len(buf.text)
        BY SelectionIs
    <2>4. s \in Seq(Chars) /\ eol \in EolModes
        BY Bounds
    <2> DEFINE begun == Begin(buf)
               p == Replaced(begun, pos, n, s)
               e == ConvertLineEnds(p, eol)
    <2>5. GoodBuffer(begun, base) /\ begun.text = buf.text /\ SameActions(buf.uh, begun.uh)
        BY <1>1, BeginIs DEF SameText
    <2>6. Edited(begun, p, base)
        <3> HIDE DEF begun
        <3> QED BY <2>3, <2>4, <2>5, ReplacedIs
    <2>7. Edited(begun, e, base)
        <3> HIDE DEF begun, p
        <3>1. Edited(p, e, base)
            BY <2>4, <2>6, ConvertLineEndsIs DEF Edited
        <3> QED BY <2>5, <2>6, <3>1, EditedTwice
    <2>8. OneStep(buf.uh, p.uh)
        <3> HIDE DEF p
        <3> QED BY <1>1, <2>6, BegunSteps
    <2>9. OneStep(buf.uh, End(e).uh)
        <3> HIDE DEF e
        <3>1. Edited(buf, End(e), base) /\ Apart(buf.uh, End(e).uh)
            BY <1>1, <2>7, Enclosed
        <3> QED BY <1>1, <3>1, ChangesAreSteps
    <2>10. OneStep(buf.uh, begun.uh)
        BY <2>5 DEF OneStep
    <2> HIDE DEF begun, p, e
    <2>11. buf' = End(e) \/ buf' = p \/ buf' = begun
        BY <2>2 DEF begun, p, e
    <2> QED BY <2>2, <2>8, <2>9, <2>10, <2>11
<1> QED BY <1>2, <1>3, <1>4, <1>5, <1>6, <1>7 DEF EditStep

LEMMA SteppedRefines ==
    ASSUME base' = base, Stepped(buf, buf', base)
    PROVE  [Abstract!Next]_(Abstract!vars)
<1>1. ASSUME SameList(buf, buf', base) PROVE UNCHANGED Abstract!vars
    BY <1>1 DEF SameList, Abstract!vars
<1>2. ASSUME Opens(buf, buf', base, <<buf'.text>>) PROVE Abstract!NewStep
    BY <1>2 DEF Opens, CutTo, Abstract!NewStep, Abstract!Cut, Abstract!NotSaved
<1>3. ASSUME GoesOn(buf, buf', base) PROVE Abstract!GoOn
    BY <1>3 DEF GoesOn, CutTo, Abstract!GoOn, Abstract!Cut, Abstract!NotSaved
<1> QED BY <1>1, <1>2, <1>3 DEF Stepped, Abstract!Next

LEMMA InitRefines == Init => Abstract!Init
<1> SUFFICES ASSUME Init PROVE Abstract!Init
    OBVIOUS
<1>1. GoodBuffer(buf, base) /\ base = buf.text
    BY InitGood DEF Init, Inv
<1>2. buf.uh = [NewHistory EXCEPT !.depth = 0]
    <2>1. buf.uh = NewHistory
        BY DEF Init
    <2>2. [NewHistory EXCEPT !.depth = 0] = NewHistory
        BY EmptyHistory DEF NewHistory
    <2> QED BY <2>1, <2>2
<1>3. /\ HistOf(buf.uh, buf.text) = <<buf.text>>
      /\ PlaceOf(buf.uh, buf.uh.cur) = 1 /\ SavedOf(buf.uh) = 1
    BY <1>1, <1>2, EmptyIsOne
<1> QED BY <1>1, <1>3 DEF Abstract!Init, Abstract!New

LEMMA NextRefines ==
    ASSUME Inv, Inv', [Next]_vars
    PROVE  [Abstract!Next]_(Abstract!vars)
<1>1. GoodBuffer(buf, base) /\ GoodBuffer(buf', base')
    BY DEF Inv
<1>2. CASE EditStep
    <2>1. base' = base /\ OneStep(buf.uh, buf'.uh)
        BY <1>2, EditStepIs
    <2>2. Stepped(buf, buf', base)
        BY <1>1, <2>1, StepIs
    <2> QED BY <2>1, <2>2, SteppedRefines
<1>3. CASE Undo
    <2>1. CanUndo(buf.uh) /\ buf' = UndoGroup(buf) /\ base' = base
        BY <1>3 DEF Undo, Travel
    <2>2. Moved(buf, buf', base, PlaceOf(buf.uh, buf.uh.cur) - 1)
        BY <1>1, <2>1, UndoMoves
    <2>3. Abstract!Undo
        BY <2>1, <2>2 DEF Moved, Abstract!Undo, Abstract!Travel
    <2> QED BY <2>3 DEF Abstract!Next
<1>4. CASE Redo
    <2>1. CanRedo(buf.uh) /\ buf' = RedoGroup(buf) /\ base' = base
        BY <1>4 DEF Redo, Travel
    <2>2. Moved(buf, buf', base, PlaceOf(buf.uh, buf.uh.cur) + 1)
        BY <1>1, <2>1, RedoMoves
    <2>3. Abstract!Redo
        BY <2>1, <2>2 DEF Moved, Abstract!Redo, Abstract!Travel
    <2> QED BY <2>3 DEF Abstract!Next
<1>5. CASE Save
    <2>1. buf' = [buf EXCEPT !.uh = SetSavePoint(@)] /\ base' = base
        BY <1>5 DEF Save
    <2>2. /\ buf'.text = buf.text /\ HistOf(buf'.uh, base) = HistOf(buf.uh, base)
          /\ PlaceOf(buf'.uh, buf'.uh.cur) = PlaceOf(buf.uh, buf.uh.cur)
          /\ SavedOf(buf'.uh) = PlaceOf(buf.uh, buf.uh.cur)
        BY <1>1, <2>1, SaveKeepsList
    <2>3. Abstract!Save
        BY <2>1, <2>2 DEF Abstract!Save
    <2> QED BY <2>3 DEF Abstract!Next
<1>6. CASE Load
    <2>1. PICK t \in Texts : \E eol \in EolModesFor(t) :
              buf' = Filled(t, eol) /\ base' = Filled(t, eol).text
        BY <1>6 DEF Load
    <2>2. PICK eol \in EolModesFor(t) : buf' = Filled(t, eol) /\ base' = buf'.text
        BY <2>1
    <2>3. PICK depth : buf'.uh = [NewHistory EXCEPT !.depth = depth]
        <3> DEFINE b == ConvertLineEnds(InsertString(Cleared(buf), 0, t), eol)
        <3>1. buf' = [b EXCEPT !.uh = DeleteUndoHistory(@), !.group = NoGroup]
            BY <2>2 DEF Filled
        <3>2. b \in Buffers
            BY <1>1, <2>1, LoadedIs
        <3> HIDE DEF b
        <3> QED BY <3>1, <3>2 DEF DeleteUndoHistory, Buffers
    <2>4. /\ HistOf(buf'.uh, buf'.text) = <<buf'.text>>
          /\ PlaceOf(buf'.uh, buf'.uh.cur) = 1 /\ SavedOf(buf'.uh) = 1
        BY <1>1, <2>2, <2>3, EmptyIsOne
    <2>5. Abstract!New'
        BY <2>2, <2>4 DEF Abstract!New
    <2> QED BY <2>5 DEF Abstract!Next
<1>7. CASE LoadTorn
    <2>1. PICK t \in Texts \cup {<<>>} :
              buf' = InsertString(Cleared(buf), 0, t) /\ base' = base
        BY <1>7 DEF LoadTorn
    <2>2. t \in Seq(Chars)
        <3>1. CASE t \in Texts
            BY <3>1, Bounds
        <3>2. CASE t = <<>>
            BY <3>2
        <3> QED BY <3>1, <3>2
    <2>3. Stepped(buf, buf', base) \/ Opens(buf, buf', base, << <<>>, buf'.text >>)
        BY <1>1, <2>1, <2>2, TornIs
    <2>4. ASSUME Opens(buf, buf', base, << <<>>, buf'.text >>) PROVE Abstract!TwoSteps
        BY <2>1, <2>4 DEF Opens, CutTo, Abstract!TwoSteps, Abstract!Cut, Abstract!NotSaved
    <2> QED BY <2>1, <2>3, <2>4, SteppedRefines DEF Abstract!Next
<1>8. CASE UNCHANGED vars
    BY <1>8 DEF vars, Abstract!vars
<1> QED BY <1>2, <1>3, <1>4, <1>5, <1>6, <1>7, <1>8 DEF Next, EditStep

\* Every behaviour of the buffer is one of a list of texts: an undo gives the text
\* before the last step and a redo the one after it, however the actions were
\* gathered into groups, and what was saved is known for what it is.
THEOREM IsHistoryHolds == Spec => IsHistory
<1>1. Init => Abstract!Init
    BY InitRefines
<1>2. Inv /\ Inv' /\ [Next]_vars => [Abstract!Next]_(Abstract!vars)
    BY NextRefines
<1> QED BY <1>1, <1>2, AlwaysGood, PTL DEF Spec, IsHistory, Abstract!Spec

=============================================================================
