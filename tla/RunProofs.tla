------------------------------ MODULE RunProofs ------------------------------
(***************************************************************************)
(* Theorems about the runs that View is built from, and about what it      *)
(* keeps in them.                                                          *)
(*                                                                         *)
(* Runs r hold values v (Holds) when each value is that of the run it is   *)
(* in.  FillRange, InsertSpace and DeleteRange do to the values what they  *)
(* do to a plain sequence, whatever runs they split, merge or drop.  So a  *)
(* decoration shows, at each place, what was last filled there, moved with *)
(* the text (Shade), and ShadesInv is inductive.                           *)
(*                                                                         *)
(* The folds are three runs with a value for each line (visible, expanded  *)
(* and height) and the row on which each line starts.  FoldsInv says that  *)
(* these four describe the same lines; each change of the text and each    *)
(* fold and unfold keeps it.  MarkInv adds that the line which was marked  *)
(* and collapsed is still there and collapsed as long as it is marked.     *)
(***************************************************************************)
EXTENDS ViewProofs

(***************************************************************************)
(* FillRange.                                                              *)
(***************************************************************************)

\* The values v with those from a to before b replaced by y.
Filled(v, a, b, y) == [x \in 1 .. Len(v) |-> IF x \in a + 1 .. b THEN y ELSE v[x]]

LEMMA FilledIs ==
    ASSUME NEW v \in Seq(Int), NEW a, NEW b, NEW y \in Int
    PROVE  /\ Filled(v, a, b, y) \in Seq(Int) /\ Len(Filled(v, a, b, y)) = Len(v)
           /\ \A x \in 1 .. Len(v) : Filled(v, a, b, y)[x] = IF x \in a + 1 .. b THEN y ELSE v[x]
<1> DEFINE w == Filled(v, a, b, y)
<1>1. Len(v) \in Nat /\ \A x \in 1 .. Len(v) : v[x] \in Int
    OBVIOUS
<1>2. w = [x \in 1 .. Len(v) |-> IF x \in a + 1 .. b THEN y ELSE v[x]]
    BY DEF Filled
<1>3. w \in Seq(Int) /\ Len(w) = Len(v)
    <2> DEFINE n == Len(v)
    <2>1. n \in Nat /\ \A x \in 1 .. n : (IF x \in a + 1 .. b THEN y ELSE v[x]) \in Int
        BY <1>1
    <2> HIDE DEF n
    <2> QED BY <2>1, <1>2 DEF n
<1> QED BY <1>2, <1>3

\* q is r with the runs from `first' made one, of the value y; m of them are gone.
RunsJoined(r, q, first, m, y) ==
    /\ IsRuns(q) /\ Runs(q) = Runs(r) - m
    /\ \A j \in 0 .. Runs(q) :
           /\ RunStart(q, j) = IF j <= first THEN RunStart(r, j) ELSE RunStart(r, j + m)
           /\ StyleOf(q, j) = IF j < first THEN StyleOf(r, j)
                              ELSE IF j = first THEN y ELSE StyleOf(r, j + m)

LEMMA RunsJoin ==
    ASSUME NEW r, IsRuns(r), NEW first \in 0 .. Runs(r) - 1, NEW m \in Nat, first + m < Runs(r),
           NEW y \in Int
    PROVE  RunsJoined(r, RemoveRuns([r EXCEPT !.styles[first + 1] = y], first + 1, m), first, m, y)
<1> DEFINE t == [r EXCEPT !.styles[first + 1] = y]
           q == RemoveRuns(t, first + 1, m)
           n == Runs(r)
<1>1. n \in Nat \ {0} /\ first \in 0 .. n - 1 /\ first \in 0 .. n
    BY RunsAre
<1>2. RunTook(r, t, first, y)
    BY <1>1, RunTakes
<1> HIDE DEF t
<1>3. IsRuns(t) /\ Runs(t) = n
    BY <1>2 DEF RunTook
<1>4. RunsWent(t, q, first + 1, m)
    <2>1. first + 1 \in Nat /\ m < Runs(t) /\ (first + 1) + m <= Runs(t)
        BY <1>1, <1>3
    <2> HIDE DEF q
    <2> QED BY <1>3, <2>1, RunsGo DEF q
<1> HIDE DEF q, n
<1>5. IsRuns(q) /\ Runs(q) = n - m
    BY <1>3, <1>4 DEF RunsWent
<1>6. ASSUME NEW j \in 0 .. Runs(q)
      PROVE  /\ RunStart(q, j) = IF j <= first THEN RunStart(r, j) ELSE RunStart(r, j + m)
             /\ StyleOf(q, j) = IF j < first THEN StyleOf(r, j)
                                ELSE IF j = first THEN y ELSE StyleOf(r, j + m)
    <2>1. /\ RunStart(q, j) = IF j < first + 1 THEN RunStart(t, j) ELSE RunStart(t, j + m)
          /\ StyleOf(q, j) = IF j < first + 1 THEN StyleOf(t, j) ELSE StyleOf(t, j + m)
        BY <1>4 DEF RunsWent
    <2>2. j \in 0 .. n /\ j + m \in 0 .. n /\ j \in Int /\ first \in Int
        BY <1>1, <1>5
    <2>3. /\ RunStart(t, j) = RunStart(r, j) /\ RunStart(t, j + m) = RunStart(r, j + m)
          /\ StyleOf(t, j) = IF j = first THEN y ELSE StyleOf(r, j)
          /\ StyleOf(t, j + m) = IF j + m = first THEN y ELSE StyleOf(r, j + m)
        BY <2>2, <1>2, <1>3 DEF RunTook
    <2>4. CASE j < first
        <3>1. j < first + 1 /\ j <= first /\ j # first
            BY <2>2, <2>4
        <3> QED BY <2>1, <2>3, <2>4, <3>1
    <2>5. CASE j = first
        <3>1. j < first + 1 /\ j <= first /\ ~(j < first)
            BY <2>2, <2>5
        <3> QED BY <2>1, <2>3, <2>5, <3>1
    <2>6. CASE j > first
        <3>1. ~(j < first + 1) /\ ~(j <= first) /\ ~(j < first) /\ j # first /\ j + m # first
            BY <2>2, <2>6
        <3> QED BY <2>1, <2>3, <3>1
    <2> QED BY <2>2, <2>4, <2>5, <2>6
<1> QED BY <1>5, <1>6 DEF RunsJoined, q, t, n

LEMMA JoinedHolds ==
    ASSUME NEW r, NEW v \in Seq(Int), Holds(r, v), NEW first \in 0 .. Runs(r) - 1, NEW m \in Nat,
           first + m + 1 < Runs(r), NEW y \in Int, NEW q, RunsJoined(r, q, first, m, y),
           NEW pos, pos = RunStart(r, first), NEW end, end = RunStart(r, first + m + 1)
    PROVE  Holds(q, Filled(v, pos, end, y))
<1> DEFINE n == Runs(r)
           w == Filled(v, pos, end, y)
           I(j) == IF j <= first THEN j ELSE j + m
<1>1. /\ n \in Nat \ {0} /\ Len(v) \in Int
      /\ \A j \in 0 .. n : RunStart(r, j) \in Int /\ StyleOf(r, j) \in Int
      /\ \A j \in 0 .. n : 0 <= RunStart(r, j) /\ RunStart(r, j) <= Len(v)
      /\ \A i, j \in 0 .. n - 1 : i <= j => RunStart(r, i) <= RunStart(r, j)
    BY RunsInOrder
<1>2. /\ RunStart(r, 0) = 0 /\ RunStart(r, n) = Len(v) /\ StyleOf(r, n) = 0
      /\ \A i, j \in 0 .. n - 1 : i < j => RunStart(r, i) < RunStart(r, j)
      /\ \A j \in 0 .. n - 1 :
             \A x \in RunStart(r, j) .. RunStart(r, j + 1) - 1 : v[x + 1] = StyleOf(r, j)
    BY DEF Holds, InOrder, Shows
<1>3. /\ IsRuns(q) /\ Runs(q) = n - m /\ first \in 0 .. n - 1 /\ first \in Int
      /\ first + m + 1 \in 0 .. n - 1 /\ first + m + 1 \in 0 .. n /\ first + 1 \in 0 .. n - m - 1
    BY <1>1 DEF RunsJoined
<1>4. /\ Len(w) = Len(v)
      /\ \A x \in 1 .. Len(v) : w[x] = IF x \in pos + 1 .. end THEN y ELSE v[x]
    BY FilledIs
<1> HIDE DEF n, w
<1>5. \A j \in 0 .. n - m :
          /\ RunStart(q, j) = RunStart(r, I(j)) /\ I(j) \in 0 .. n
          /\ j \in 0 .. n - m - 1 => I(j) \in 0 .. n - 1
    <2> SUFFICES ASSUME NEW j \in 0 .. n - m
                 PROVE  /\ RunStart(q, j) = RunStart(r, I(j)) /\ I(j) \in 0 .. n
                        /\ j \in 0 .. n - m - 1 => I(j) \in 0 .. n - 1
        OBVIOUS
    <2>1. RunStart(q, j) = IF j <= first THEN RunStart(r, j) ELSE RunStart(r, j + m)
        BY <1>3 DEF RunsJoined
    <2>2. n \in Nat /\ first \in Int /\ first + m + 1 \in 0 .. n - 1
        BY <1>1, <1>3
    <2>3. CASE j <= first
        <3>1. I(j) = j /\ j \in 0 .. n - 1
            BY <2>2, <2>3
        <3>2. RunStart(q, j) = RunStart(r, j) /\ j \in 0 .. n
            BY <2>1, <2>2, <2>3
        <3> HIDE DEF I
        <3> QED BY <3>1, <3>2
    <2>4. CASE ~(j <= first)
        <3>1. I(j) = j + m /\ j + m \in 0 .. n /\ (j \in 0 .. n - m - 1 => j + m \in 0 .. n - 1)
            BY <2>2, <2>4
        <3>2. RunStart(q, j) = RunStart(r, j + m)
            BY <2>1, <2>4
        <3> HIDE DEF I
        <3> QED BY <3>1, <3>2
    <2> QED BY <2>3, <2>4
<1>6. InOrder(q)
    <2>1. RunStart(q, 0) = 0
        <3>1. I(0) = 0 /\ 0 \in 0 .. n - m
            BY <1>1, <1>3
        <3> QED BY <3>1, <1>2, <1>5
    <2>2. ASSUME NEW i \in 0 .. n - m - 1, NEW j \in 0 .. n - m - 1, i < j
          PROVE  RunStart(q, i) < RunStart(q, j)
        <3>1. i \in 0 .. n - m /\ j \in 0 .. n - m /\ I(i) < I(j)
            <4>1. n \in Nat /\ first \in Int
                BY <1>1, <1>3
            <4> QED BY <4>1, <2>2
        <3>2. I(i) \in 0 .. n - 1 /\ I(j) \in 0 .. n - 1
            BY <3>1, <1>5
        <3> HIDE DEF I
        <3> QED BY <3>1, <3>2, <1>2, <1>5
    <2> QED BY <2>1, <2>2, <1>3 DEF InOrder
<1>7. RunStart(q, Runs(q)) = Len(w) /\ StyleOf(q, Runs(q)) = 0
    <2>1. n - m \in 0 .. n - m /\ ~(n - m <= first) /\ I(n - m) = n /\ (n - m) + m = n
          /\ ~(n - m < first) /\ n - m # first
        BY <1>1, <1>3
    <2>2. StyleOf(q, n - m) = IF n - m < first THEN StyleOf(r, n - m)
                              ELSE IF n - m = first THEN y ELSE StyleOf(r, (n - m) + m)
        BY <2>1, <1>3 DEF RunsJoined
    <2>3. StyleOf(q, n - m) = 0
        BY <2>1, <2>2, <1>2
    <2>4. RunStart(q, n - m) = RunStart(r, I(n - m))
        BY <2>1, <1>5
    <2> QED BY <2>1, <2>3, <2>4, <1>2, <1>3, <1>4
<1>8. \A j \in 0 .. Runs(q) - 1 : RunStart(q, j) <= Len(w)
    <2> SUFFICES ASSUME NEW j \in 0 .. Runs(q) - 1
                 PROVE  RunStart(q, j) <= Len(w)
        OBVIOUS
    <2>1. j \in 0 .. n - m
        BY <1>1, <1>3
    <2>2. RunStart(q, j) = RunStart(r, I(j)) /\ I(j) \in 0 .. n
        BY <2>1, <1>5
    <2> HIDE DEF I
    <2> QED BY <2>2, <1>1, <1>4
<1>9. Shows(q, w)
    <2> SUFFICES ASSUME NEW j \in 0 .. Runs(q) - 1,
                        NEW x \in RunStart(q, j) .. RunStart(q, j + 1) - 1
                 PROVE  w[x + 1] = StyleOf(q, j)
        BY DEF Shows
    <2>1. j \in 0 .. n - m - 1 /\ j \in 0 .. n - m /\ j + 1 \in 0 .. n - m /\ j \in Int
        BY <1>1, <1>3
    <2>2. /\ RunStart(q, j) = IF j <= first THEN RunStart(r, j) ELSE RunStart(r, j + m)
          /\ RunStart(q, j + 1) = IF j + 1 <= first THEN RunStart(r, j + 1) ELSE RunStart(r, (j + 1) + m)
          /\ StyleOf(q, j) = IF j < first THEN StyleOf(r, j)
                             ELSE IF j = first THEN y ELSE StyleOf(r, j + m)
        BY <2>1, <1>3 DEF RunsJoined
    <2>3. /\ pos \in Int /\ end \in Int /\ 0 <= pos /\ end <= Len(v) /\ Len(v) \in Int
        BY <1>1, <1>3
    <2>4. CASE j < first
        <3>1. j <= first /\ j + 1 <= first /\ j \in 0 .. n - 1 /\ j + 1 \in 0 .. n - 1 /\ j \in 0 .. n
              /\ j + 1 \in 0 .. n
            BY <2>1, <2>4, <1>1, <1>3
        <3>2. x \in RunStart(r, j) .. RunStart(r, j + 1) - 1 /\ StyleOf(q, j) = StyleOf(r, j)
            BY <3>1, <2>2, <2>4
        <3>3. v[x + 1] = StyleOf(q, j)
            BY <3>1, <3>2, <1>2
        <3>4. RunStart(r, j + 1) <= pos
            BY <3>1, <1>1, <1>3
        <3>5. RunStart(r, j) \in Int /\ 0 <= RunStart(r, j) /\ RunStart(r, j + 1) \in Int
            BY <3>1, <1>1
        <3>6. x + 1 \in 1 .. Len(v) /\ ~(x + 1 \in pos + 1 .. end)
            <4>1. pos <= Len(v)
                BY <1>1, <1>3
            <4> DEFINE a == RunStart(r, j)
                       b == RunStart(r, j + 1)
            <4>2. x \in a .. b - 1 /\ a \in Int /\ b \in Int /\ 0 <= a /\ b <= pos
                BY <3>2, <3>4, <3>5
            <4> DEFINE z == Len(v)
            <4>3. pos \in Int /\ end \in Int /\ z \in Int /\ pos <= z
                BY <4>1, <2>3
            <4> HIDE DEF a, b, z
            <4>4. x + 1 \in 1 .. z /\ ~(x + 1 \in pos + 1 .. end)
                BY <4>2, <4>3
            <4> QED BY <4>4 DEF z
        <3> QED BY <3>3, <3>6, <1>4
    <2>5. CASE j = first
        <3>1. j <= first /\ ~(j + 1 <= first) /\ (j + 1) + m = first + m + 1
            BY <2>1, <2>5, <1>1, <1>3
        <3>2. x \in pos .. end - 1 /\ StyleOf(q, j) = y
            BY <3>1, <2>2, <2>5
        <3>3. x + 1 \in 1 .. Len(v) /\ x + 1 \in pos + 1 .. end
            <4> DEFINE z == Len(v)
            <4>1. /\ pos \in Int /\ end \in Int /\ 0 <= pos /\ end <= z /\ z \in Int
                  /\ x \in pos .. end - 1
                BY <3>2, <2>3
            <4> HIDE DEF z
            <4>2. x + 1 \in 1 .. z /\ x + 1 \in pos + 1 .. end
                BY <4>1
            <4> QED BY <4>2 DEF z
        <3> QED BY <3>2, <3>3, <1>4
    <2>6. CASE j > first
        <3>1. /\ ~(j <= first) /\ ~(j + 1 <= first) /\ ~(j < first) /\ j # first
              /\ j + m \in 0 .. n - 1 /\ (j + m) + 1 = (j + 1) + m /\ first + m + 1 <= j + m
              /\ j + m \in 0 .. n /\ (j + m) + 1 \in 0 .. n
            BY <2>1, <2>6, <1>1, <1>3
        <3>2. x \in RunStart(r, j + m) .. RunStart(r, (j + m) + 1) - 1
              /\ StyleOf(q, j) = StyleOf(r, j + m)
            BY <3>1, <2>2
        <3>3. v[x + 1] = StyleOf(q, j)
            BY <3>1, <3>2, <1>2
        <3>4. end <= RunStart(r, j + m)
            BY <3>1, <1>1, <1>3
        <3>5. RunStart(r, j + m) \in Int /\ 0 <= RunStart(r, j + m) /\ RunStart(r, (j + m) + 1) \in Int
              /\ RunStart(r, (j + m) + 1) <= Len(v)
            BY <3>1, <1>1
        <3>6. x + 1 \in 1 .. Len(v) /\ ~(x + 1 \in pos + 1 .. end)
            <4> DEFINE a == RunStart(r, j + m)
                       b == RunStart(r, (j + m) + 1)
            <4>1. x \in a .. b - 1 /\ a \in Int /\ b \in Int /\ 0 <= a /\ b <= Len(v) /\ end <= a
                BY <3>2, <3>4, <3>5
            <4> DEFINE z == Len(v)
            <4>2. end \in Int /\ z \in Int /\ b <= z
                BY <4>1, <2>3
            <4> HIDE DEF a, b, z
            <4>3. x + 1 \in 1 .. z /\ ~(x + 1 \in pos + 1 .. end)
                BY <4>1, <4>2
            <4> QED BY <4>3 DEF z
        <3> QED BY <3>3, <3>6, <1>4
    <2> QED BY <2>4, <2>5, <2>6, <2>1, <1>3
<1> QED BY <1>3, <1>6, <1>7, <1>8, <1>9 DEF Holds, w

LEMMA JoinedDiffers ==
    ASSUME NEW r, IsRuns(r), NEW v, NEW first \in 0 .. Runs(r) - 1, NEW m \in Nat,
           first + m + 1 < Runs(r), NEW y \in Int, NEW q, RunsJoined(r, q, first, m, y),
           NEW w, Len(w) = Len(v), NEW E, DifferBut(r, v, E)
    PROVE  DifferBut(q, w, E \cup {RunStart(r, first), RunStart(r, first + m + 1)})
<1> DEFINE n == Runs(r)
           F == E \cup {RunStart(r, first), RunStart(r, first + m + 1)}
<1>1. n \in Nat \ {0} /\ first \in 0 .. n - 1 /\ first \in Int /\ Runs(q) = n - m
    BY RunsAre DEF RunsJoined
<1> SUFFICES ASSUME NEW j \in 1 .. Runs(q) - 1
             PROVE  \/ RunStart(q, j) \in F
                    \/ RunStart(q, j) < Len(w) /\ StyleOf(q, j) # StyleOf(q, j - 1)
    BY DEF DifferBut
<1> HIDE DEF n
<1>2. j \in 0 .. Runs(q) /\ j - 1 \in 0 .. Runs(q) /\ j \in Int /\ j \in 1 .. n - m - 1
    BY <1>1
<1>3. /\ RunStart(q, j) = IF j <= first THEN RunStart(r, j) ELSE RunStart(r, j + m)
      /\ StyleOf(q, j) = IF j < first THEN StyleOf(r, j)
                         ELSE IF j = first THEN y ELSE StyleOf(r, j + m)
      /\ StyleOf(q, j - 1) = IF j - 1 < first THEN StyleOf(r, j - 1)
                             ELSE IF j - 1 = first THEN y ELSE StyleOf(r, (j - 1) + m)
    BY <1>2 DEF RunsJoined
<1>4. CASE j < first
    <2>1. j <= first /\ j - 1 < first /\ j \in 1 .. n - 1
        BY <1>1, <1>2, <1>4
    <2>2. \/ RunStart(r, j) \in E
          \/ RunStart(r, j) < Len(v) /\ StyleOf(r, j) # StyleOf(r, j - 1)
        BY <2>1 DEF DifferBut, n
    <2> QED BY <2>1, <2>2, <1>3, <1>4
<1>5. CASE j = first
    <2>1. RunStart(q, j) = RunStart(r, first)
        BY <1>1, <1>3, <1>5
    <2> QED BY <2>1
<1>6. CASE j = first + 1
    <2>1. ~(j <= first) /\ j + m = first + m + 1
        BY <1>1, <1>6
    <2>2. RunStart(q, j) = RunStart(r, first + m + 1)
        BY <2>1, <1>3
    <2> QED BY <2>2
<1>7. CASE j > first + 1
    <2>1. /\ ~(j <= first) /\ ~(j < first) /\ j # first /\ ~(j - 1 < first) /\ j - 1 # first
          /\ j + m \in 1 .. n - 1 /\ (j - 1) + m = (j + m) - 1
        BY <1>1, <1>2, <1>7
    <2>2. \/ RunStart(r, j + m) \in E
          \/ RunStart(r, j + m) < Len(v) /\ StyleOf(r, j + m) # StyleOf(r, (j + m) - 1)
        BY <2>1 DEF DifferBut, n
    <2> QED BY <2>1, <2>2, <1>3
<1> QED BY <1>4, <1>5, <1>6, <1>7, <1>1, <1>2

LEMMA FilledSame ==
    ASSUME NEW v \in Seq(Int), NEW a, NEW b, NEW c, NEW d, NEW y,
           \A x \in 1 .. Len(v) : (x \in a + 1 .. b <=> x \in c + 1 .. d) \/ v[x] = y
    PROVE  Filled(v, a, b, y) = Filled(v, c, d, y)
<1>1. \A x \in 1 .. Len(v) :
          (IF x \in a + 1 .. b THEN y ELSE v[x]) = (IF x \in c + 1 .. d THEN y ELSE v[x])
    OBVIOUS
<1> QED BY <1>1 DEF Filled

LEMMA FilledNothing ==
    ASSUME NEW v \in Seq(Int), NEW a, NEW b, NEW y,
           \A x \in 1 .. Len(v) : x \in a + 1 .. b => v[x] = y
    PROVE  Filled(v, a, b, y) = v
<1>1. \A x \in 1 .. Len(v) : (IF x \in a + 1 .. b THEN y ELSE v[x]) = v[x]
    OBVIOUS
<1>2. v = [x \in 1 .. Len(v) |-> v[x]]
    OBVIOUS
<1>3. [x \in 1 .. Len(v) |-> IF x \in a + 1 .. b THEN y ELSE v[x]] = [x \in 1 .. Len(v) |-> v[x]]
    BY <1>1
<1> QED BY <1>2, <1>3 DEF Filled

LEMMA FillRunsIs ==
    ASSUME NEW r, NEW v \in Seq(Int), Holds(r, v), NEW first \in Nat, NEW last \in Nat,
           first < last, last < Runs(r), NEW y \in Int,
           NEW pos, pos = RunStart(r, first), NEW end, end = RunStart(r, last),
           DifferBut(r, v, {pos, end})
    PROVE  AreRunsOf(FillRuns(r, first, last, end, y), Filled(v, pos, end, y))
<1> DEFINE m == last - first - 1
           w == Filled(v, pos, end, y)
           f == RemoveRuns([r EXCEPT !.styles[first + 1] = y], first + 1, m)
           s == RemoveRunIfSameAsPrevious(f, RunFromPosition(f, end))
           t == RemoveRunIfSameAsPrevious(s, first)
           u == RemoveRunIfEmpty(t, RunFromPosition(t, end))
<1>1. FillRuns(r, first, last, end, y) = u
    BY DEF FillRuns
<1>2. /\ Runs(r) \in Nat \ {0} /\ Len(v) \in Int /\ IsRuns(r)
      /\ first \in 0 .. Runs(r) - 1 /\ last \in 0 .. Runs(r) - 1
      /\ first \in 0 .. Runs(r) /\ last \in 0 .. Runs(r)
    BY RunsInOrder DEF Holds
<1>3. /\ m \in Nat /\ first + m < Runs(r) /\ first + m + 1 = last
    BY <1>2
<1>4. pos \in Int /\ end \in Int /\ 0 <= pos /\ pos < end /\ end <= Len(v) /\ end \in Nat
    <2>1. pos \in Int /\ end \in Int /\ 0 <= pos /\ end <= Len(v)
        BY <1>2, RunsInOrder
    <2>2. pos < end
        BY <1>2 DEF Holds, InOrder
    <2> QED BY <2>1, <2>2
<1> HIDE DEF m, f, s, t, u, w
<1>5. RunsJoined(r, f, first, m, y)
    BY <1>2, <1>3, RunsJoin DEF f
<1>6. w \in Seq(Int) /\ Len(w) = Len(v)
    BY FilledIs DEF w
<1>7. Holds(f, w)
    <2>1. first + m + 1 < Runs(r) /\ end = RunStart(r, first + m + 1)
        BY <1>2, <1>3
    <2> QED BY <1>2, <1>3, <1>5, <2>1, JoinedHolds DEF w
<1>8. DifferBut(f, w, {pos, end})
    <2>1. first + m + 1 < Runs(r)
        BY <1>2, <1>3
    <2>2. DifferBut(f, w, {pos, end} \cup {RunStart(r, first), RunStart(r, first + m + 1)})
        BY <1>2, <1>3, <1>5, <1>6, <2>1, JoinedDiffers
    <2>3. {pos, end} \cup {RunStart(r, first), RunStart(r, first + m + 1)} = {pos, end}
        BY <1>3
    <2> QED BY <2>2, <2>3
<1>9. /\ Runs(f) = Runs(r) - m /\ Runs(f) \in Int /\ first + 1 \in 0 .. Runs(f) - 1
      /\ RunStart(f, first) = pos /\ RunStart(f, first + 1) = end
      /\ first + 1 \in 0 .. Runs(f)
    <2>1. Runs(f) = Runs(r) - m
        BY <1>5 DEF RunsJoined
    <2>2. Runs(f) \in Int /\ first + 1 \in 0 .. Runs(f) - 1
        BY <2>1, <1>2, <1>3
    <2>3. first \in 0 .. Runs(f) /\ first + 1 \in 0 .. Runs(f) /\ ~(first + 1 <= first)
          /\ (first + 1) + m = last /\ first <= first
        BY <2>2, <1>3
    <2> QED BY <2>1, <2>2, <2>3, <1>5 DEF RunsJoined
<1>10. RunFromPosition(f, end) = first + 1
    <2>1. IsRunAt(f, first + 1, end)
        <3>1. ASSUME NEW j \in (first + 1) + 1 .. Runs(f) - 1
              PROVE  end < RunStart(f, j)
            <4>1. j \in 0 .. Runs(f) - 1 /\ first + 1 < j
                BY <1>9
            <4>2. RunStart(f, first + 1) < RunStart(f, j)
                BY <4>1, <1>7, <1>9 DEF Holds, InOrder
            <4> QED BY <4>2, <1>9
        <3>2. RunStart(f, first + 1) <= end
            BY <1>4, <1>9
        <3> QED BY <3>1, <3>2, <1>9 DEF IsRunAt
    <2>2. IsRunAt(f, RunFromPosition(f, end), end)
        BY <1>4, <1>7, RunFound
    <2> DEFINE k == RunFromPosition(f, end)
               i == first + 1
    <2>3. IsRunAt(f, k, end) /\ IsRunAt(f, i, end) /\ IsRuns(f)
        BY <2>1, <2>2, <1>7 DEF Holds
    <2> HIDE DEF k, i
    <2>4. k = i
        BY <2>3, <1>4, RunIsOne
    <2> QED BY <2>4 DEF k, i
<1>11. Merged(f, s, w, {pos, end}, first + 1)
    <2> DEFINE i == first + 1
    <2>1. i \in 0 .. Runs(f) /\ s = RemoveRunIfSameAsPrevious(f, i)
        BY <1>9, <1>10 DEF s
    <2> HIDE DEF i
    <2>2. Merged(f, s, w, {pos, end}, i)
        BY <2>1, <1>7, <1>8, SameGoes
    <2> QED BY <2>2 DEF i
<1>12. /\ Holds(s, w) /\ first \in 0 .. Runs(s) /\ RunStart(s, first) = pos
       /\ DifferBut(s, w, {pos, end} \ ({end} \ {Len(w)}))
    <2>1. first + 1 <= Runs(s) /\ RunStart(s, first) = RunStart(f, first)
        <3>1. first \in 0 .. (first + 1) - 1
            OBVIOUS
        <3> QED BY <3>1, <1>11 DEF Merged, Before
    <2>2. Holds(s, w) /\ Runs(s) \in Int
        BY <1>11, RunsInOrder DEF Merged
    <2>3. DifferBut(s, w, {pos, end} \ ({end} \ {Len(w)}))
        BY <1>9, <1>11 DEF Merged
    <2> QED BY <2>1, <2>2, <2>3, <1>9
<1>13. Holds(t, w) /\ DifferBut(t, w, ({pos, end} \ ({end} \ {Len(w)})) \ ({pos} \ {Len(w)}))
    <2> DEFINE G == {pos, end} \ ({end} \ {Len(w)})
    <2>1. DifferBut(s, w, G)
        BY <1>12
    <2> HIDE DEF G
    <2>2. Merged(s, t, w, G, first)
        BY <1>12, <2>1, SameGoes DEF t
    <2>3. Holds(t, w) /\ DifferBut(t, w, G \ ({pos} \ {Len(w)}))
        BY <2>2, <1>12 DEF Merged
    <2> QED BY <2>3 DEF G
<1>14. DEFINE k == RunFromPosition(t, end)
<1>15. IsRunAt(t, k, end) /\ k \in 0 .. Runs(t)
    <2>1. IsRunAt(t, k, end)
        BY <1>4, <1>13, RunFound
    <2>2. Runs(t) \in Int
        BY <1>13, RunsInOrder
    <2> HIDE DEF k
    <2>3. k \in 0 .. Runs(t)
        BY <2>1, <2>2 DEF IsRunAt
    <2> QED BY <2>1, <2>3
<1>16. u = RemoveRunIfEmpty(t, k)
    BY DEF u
<1> HIDE DEF k
<1>17. CASE end = Len(v)
    <2>1. DifferBut(t, w, {Len(w)})
        <3>1. ({pos, end} \ ({end} \ {Len(w)})) \ ({pos} \ {Len(w)}) = {Len(w)}
            BY <1>4, <1>6, <1>17
        <3> QED BY <1>13, <3>1
    <2>2. k = Runs(t) - 1
        <3>1. /\ Runs(t) \in Nat \ {0} /\ RunStart(t, Runs(t) - 1) <= Len(w) /\ k \in 0 .. Runs(t) - 1
              /\ RunStart(t, Runs(t) - 1) \in Int
            <4>1. Runs(t) \in Nat \ {0}
                BY <1>13, RunsInOrder
            <4>2. Runs(t) - 1 \in 0 .. Runs(t) - 1 /\ Runs(t) - 1 \in 0 .. Runs(t)
                BY <4>1
            <4> QED BY <4>1, <4>2, <1>13, <1>15, RunsInOrder DEF IsRunAt
        <3>2. CASE k < Runs(t) - 1
            <4>1. Runs(t) - 1 \in k + 1 .. Runs(t) - 1
                BY <3>1, <3>2
            <4>2. end < RunStart(t, Runs(t) - 1)
                BY <4>1, <1>15 DEF IsRunAt
            <4> QED BY <4>2, <3>1, <1>4, <1>6, <1>17
        <3> QED BY <3>1, <3>2
    <2>3. LET q == RemoveRunIfEmpty(t, k)
          IN  /\ Holds(q, w) /\ DifferBut(q, w, {Len(w)})
              /\ k = Runs(t) - 1 => DifferBut(q, w, {Len(w)} \ {Len(w)})
        <3> DEFINE G == {Len(w)}
        <3>1. DifferBut(t, w, G)
            BY <2>1
        <3> HIDE DEF G
        <3>2. LET q == RemoveRunIfEmpty(t, k)
              IN  /\ Holds(q, w) /\ DifferBut(q, w, G)
                  /\ k = Runs(t) - 1 => DifferBut(q, w, G \ {Len(w)})
            BY <3>1, <1>13, <1>15, EmptyGoes
        <3> QED BY <3>2 DEF G
    <2>4. {Len(w)} \ {Len(w)} = {}
        OBVIOUS
    <2>5. Holds(u, w) /\ DifferBut(u, w, {})
        BY <2>2, <2>3, <2>4, <1>16
    <2> QED BY <2>5, <1>1 DEF AreRunsOf, w
<1>18. CASE end # Len(v)
    <2>1. DifferBut(t, w, {})
        <3>1. ({pos, end} \ ({end} \ {Len(w)})) \ ({pos} \ {Len(w)}) = {}
            BY <1>4, <1>6, <1>18, <1>2
        <3> QED BY <1>13, <3>1
    <2>2. LET q == RemoveRunIfEmpty(t, k)
          IN  /\ Holds(q, w) /\ DifferBut(q, w, {})
              /\ k = Runs(t) - 1 => DifferBut(q, w, {} \ {Len(w)})
        <3> DEFINE G == {}
        <3>1. DifferBut(t, w, G)
            BY <2>1
        <3> HIDE DEF G
        <3>2. LET q == RemoveRunIfEmpty(t, k)
              IN  /\ Holds(q, w) /\ DifferBut(q, w, G)
                  /\ k = Runs(t) - 1 => DifferBut(q, w, G \ {Len(w)})
            BY <3>1, <1>13, <1>15, EmptyGoes
        <3> QED BY <3>2 DEF G
    <2>3. Holds(u, w) /\ DifferBut(u, w, {})
        BY <2>2, <1>16
    <2> QED BY <2>3, <1>1 DEF AreRunsOf, w
<1> QED BY <1>17, <1>18

LEMMA DifferLess ==
    ASSUME NEW r, NEW v, NEW E, NEW F, DifferBut(r, v, E), E \subseteq F
    PROVE  DifferBut(r, v, F)
BY DEF DifferBut

\* Where the run of a place is, seen from a run that starts behind it.
LEMMA RunBefore ==
    ASSUME NEW r, NEW v, Holds(r, v), NEW pos \in Nat, NEW last \in 0 .. Runs(r) - 1,
           pos < RunStart(r, last), NEW k, IsRunAt(r, k, pos)
    PROVE  /\ k \in 0 .. Runs(r) - 1 /\ k < last
           /\ pos < RunStart(r, k + 1) /\ RunStart(r, k + 1) <= RunStart(r, last)
           /\ \A x \in pos + 1 .. RunStart(r, k + 1) : v[x] = StyleOf(r, k)
<1>1. /\ Runs(r) \in Nat \ {0} /\ k \in 0 .. Runs(r) - 1 /\ k \in 0 .. Runs(r)
      /\ last \in 0 .. Runs(r) /\ RunStart(r, k) \in Int /\ RunStart(r, last) \in Int
      /\ RunStart(r, k) <= pos
    BY RunsInOrder DEF IsRunAt
<1>2. k < last
    <2>1. CASE last <= k
        <3>1. RunStart(r, last) <= RunStart(r, k)
            BY <1>1, <2>1, RunsInOrder
        <3> QED BY <3>1, <1>1
    <2> QED BY <2>1, <1>1
<1>3. k + 1 \in 0 .. Runs(r) - 1 /\ k + 1 \in 0 .. Runs(r) /\ k + 1 <= last
    BY <1>1, <1>2
<1>4. pos < RunStart(r, k + 1) /\ RunStart(r, k + 1) <= RunStart(r, last)
    <2>1. k + 1 \in k + 1 .. Runs(r) - 1
        BY <1>1, <1>3
    <2>2. pos < RunStart(r, k + 1)
        BY <2>1 DEF IsRunAt
    <2> QED BY <2>2, <1>3, RunsInOrder
<1>5. ASSUME NEW x \in pos + 1 .. RunStart(r, k + 1) PROVE v[x] = StyleOf(r, k)
    <2>1. RunStart(r, k + 1) \in Int
        BY <1>3, RunsInOrder
    <2> DEFINE z == x - 1
    <2>2. z \in RunStart(r, k) .. RunStart(r, k + 1) - 1 /\ x = z + 1
        BY <2>1, <1>1
    <2> HIDE DEF z
    <2>3. v[z + 1] = StyleOf(r, k)
        BY <2>2, <1>1 DEF Holds, Shows
    <2> QED BY <2>2, <2>3
<1> QED BY <1>1, <1>2, <1>4, <1>5

LEMMA FillFromIs ==
    ASSUME NEW r, NEW v \in Seq(Int), Holds(r, v), NEW pos \in Nat, NEW last \in 1 .. Runs(r) - 1,
           NEW end, end = RunStart(r, last), pos < end, NEW y \in Int,
           DifferBut(r, v, {end}), DifferBut(r, v, {}) \/ StyleOf(r, last - 1) # y
    PROVE  AreRunsOf(FillFrom(r, pos, end, last, y), Filled(v, pos, end, y))
<1> DEFINE first == RunFromPosition(r, pos)
           skip == StyleOf(r, first) = y
           split == ~skip /\ RunStart(r, first) < pos
           ready == SplitRun(r, pos)
           w == Filled(v, pos, end, y)
<1>1. FillFrom(r, pos, end, last, y) =
          IF (IF skip \/ split THEN first + 1 ELSE first) < (IF split THEN last + 1 ELSE last)
          THEN FillRuns(IF split THEN ready ELSE r, IF skip \/ split THEN first + 1 ELSE first,
                        IF split THEN last + 1 ELSE last, end, y)
          ELSE IF split THEN ready ELSE r
    BY DEF FillFrom
<1>2. IsRunAt(r, first, pos)
    BY RunFound
<1>3. Runs(r) \in Nat \ {0} /\ last \in 0 .. Runs(r) - 1 /\ last \in Nat /\ last \in 0 .. Runs(r)
    BY RunsInOrder
<1> HIDE DEF first
<1>4. /\ first \in 0 .. Runs(r) - 1 /\ first < last
      /\ pos < RunStart(r, first + 1) /\ RunStart(r, first + 1) <= end
      /\ \A x \in pos + 1 .. RunStart(r, first + 1) : v[x] = StyleOf(r, first)
    BY <1>2, <1>3, RunBefore
<1>5. /\ first + 1 \in 0 .. Runs(r) /\ first + 1 \in Nat /\ first \in Nat /\ first \in 0 .. Runs(r)
      /\ first \in Int /\ last \in Int
    BY <1>3, <1>4
<1>6. RunStart(r, first + 1) \in Int /\ end \in Int /\ RunStart(r, first) \in Int /\ RunStart(r, first) <= pos
    BY <1>2, <1>3, <1>5, RunsInOrder DEF IsRunAt
<1>7. CASE skip /\ first + 1 < last
    <2> DEFINE at == RunStart(r, first + 1)
               k == first + 1
    <2>1. FillFrom(r, pos, end, last, y) = FillRuns(r, k, last, end, y)
        BY <1>1, <1>7
    <2>2. k \in Nat /\ k < last /\ last < Runs(r) /\ at = RunStart(r, k)
        BY <1>3, <1>5, <1>7
    <2>3. DifferBut(r, v, {at, end})
        <3>1. {end} \subseteq {at, end}
            OBVIOUS
        <3> HIDE DEF at
        <3> QED BY <3>1, DifferLess
    <2>4. Filled(v, pos, end, y) = Filled(v, at, end, y)
        <3>1. ASSUME NEW x \in 1 .. Len(v)
              PROVE  (x \in pos + 1 .. end <=> x \in at + 1 .. end) \/ v[x] = y
            <4>1. x \in pos + 1 .. at => v[x] = y
                BY <1>4, <1>7
            <4> HIDE DEF at
            <4>2. x \in Int /\ at \in Int /\ pos < at /\ at <= end
                BY <1>4, <1>6 DEF at
            <4> QED BY <4>1, <4>2, <1>6
        <3> HIDE DEF at
        <3> QED BY <3>1, FilledSame
    <2> HIDE DEF at, k
    <2>5. AreRunsOf(FillRuns(r, k, last, end, y), Filled(v, at, end, y))
        BY <1>3, <2>2, <2>3, FillRunsIs
    <2> QED BY <2>1, <2>4, <2>5
<1>8. CASE skip /\ ~(first + 1 < last)
    <2>1. FillFrom(r, pos, end, last, y) = r
        BY <1>1, <1>8
    <2>2. last = first + 1 /\ last - 1 = first
        BY <1>4, <1>5, <1>8
    <2>3. DifferBut(r, v, {})
        BY <2>2, <1>8
    <2>4. Filled(v, pos, end, y) = v
        <3>1. \A x \in 1 .. Len(v) : x \in pos + 1 .. end => v[x] = y
            BY <1>4, <1>8, <2>2
        <3> QED BY <3>1, FilledNothing
    <2> QED BY <2>1, <2>3, <2>4 DEF AreRunsOf
<1>9. CASE ~skip /\ RunStart(r, first) < pos
    <2> DEFINE m == first + 1
               l == last + 1
    <2>1. FillFrom(r, pos, end, last, y) = FillRuns(ready, m, l, end, y)
        BY <1>1, <1>4, <1>5, <1>9
    <2>2. RunAfterSplit(r, pos) = m
        BY <1>9 DEF RunAfterSplit, IsInsideRun, first
    <2>3. SplitAt(r, ready, m, pos)
        BY <2>2, SplitIs
    <2> HIDE DEF ready, m, l
    <2>4. pos <= Len(v) /\ pos \in Int
        <3>1. end <= Len(v) /\ Len(v) \in Int
            BY <1>3, RunsInOrder
        <3> QED BY <3>1, <1>6
    <2>5. Holds(ready, v) /\ m \in 0 .. Runs(ready) - 1 /\ RunStart(ready, m) = pos
        BY <2>3, <2>4, SplitKeeps
    <2>6. DifferBut(ready, v, {end} \cup {pos})
        <3> DEFINE E == {end}
        <3>1. DifferBut(r, v, E)
            OBVIOUS
        <3> HIDE DEF E
        <3>2. DifferBut(ready, v, E \cup {pos})
            BY <3>1, <2>3, <2>4, SplitDiffers
        <3> QED BY <3>2 DEF E
    <2>7. m \in 1 .. Runs(r) /\ RunCame(r, ready, m, pos, StyleOf(r, m - 1))
        <3>1. CASE ready = r /\ IsRunAt(r, m, pos) /\ RunStart(r, m) = pos
            BY <3>1, <1>4, <1>6 DEF m
        <3> QED BY <3>1, <2>3 DEF SplitAt
    <2>8. l \in Nat /\ m \in Nat /\ m < l /\ l < Runs(ready) /\ RunStart(ready, l) = end
        <3>1. Runs(ready) = Runs(r) + 1
            BY <2>7 DEF RunCame
        <3>2. l \in 0 .. Runs(ready) /\ ~(l < m) /\ l # m /\ l - 1 = last /\ m < l /\ l < Runs(ready)
            BY <3>1, <1>3, <1>4, <1>5 DEF l, m
        <3>3. RunStart(ready, l) = end
            BY <3>2, <2>7 DEF RunCame
        <3> QED BY <3>2, <3>3, <1>5 DEF l, m
    <2>9. DifferBut(ready, v, {pos, end})
        <3>1. {end} \cup {pos} \subseteq {pos, end}
            OBVIOUS
        <3> QED BY <3>1, <2>6, DifferLess
    <2>10. AreRunsOf(FillRuns(ready, m, l, end, y), Filled(v, pos, end, y))
        BY <2>5, <2>8, <2>9, FillRunsIs
    <2> QED BY <2>1, <2>10
<1>10. CASE ~skip /\ ~(RunStart(r, first) < pos)
    <2>1. FillFrom(r, pos, end, last, y) = FillRuns(r, first, last, end, y)
        BY <1>1, <1>4, <1>10
    <2>2. pos = RunStart(r, first)
        BY <1>6, <1>10
    <2>3. DifferBut(r, v, {pos, end})
        <3>1. {end} \subseteq {pos, end}
            OBVIOUS
        <3> QED BY <3>1, DifferLess
    <2>4. first < last /\ last < Runs(r) /\ first \in Nat /\ last \in Nat
        BY <1>3, <1>4, <1>5
    <2>5. AreRunsOf(FillRuns(r, first, last, end, y), Filled(v, pos, end, y))
        BY <2>2, <2>3, <2>4, FillRunsIs
    <2> QED BY <2>1, <2>5
<1> QED BY <1>7, <1>8, <1>9, <1>10

\* The values from the start of a run to a place in it.
LEMMA RunIsBehind ==
    ASSUME NEW r, NEW v, Holds(r, v), NEW end \in Nat, end <= Len(v), NEW k, IsRunAt(r, k, end)
    PROVE  /\ \A x \in RunStart(r, k) + 1 .. end : v[x] = StyleOf(r, k)
           /\ k \in 0 .. Runs(r) - 1 /\ RunStart(r, k) \in Int /\ 0 <= RunStart(r, k)
           /\ RunStart(r, k) <= end
<1>1. /\ Runs(r) \in Nat \ {0} /\ k \in 0 .. Runs(r) - 1 /\ k \in 0 .. Runs(r)
      /\ k + 1 \in 0 .. Runs(r) /\ RunStart(r, k) \in Int /\ RunStart(r, k) <= end
    BY RunsInOrder DEF IsRunAt
<1>2. 0 <= RunStart(r, k) /\ RunStart(r, k + 1) \in Int
    BY <1>1, RunsInOrder
<1>3. end <= RunStart(r, k + 1)
    <2>1. CASE k + 1 = Runs(r)
        BY <2>1 DEF Holds
    <2>2. CASE k + 1 # Runs(r)
        <3>1. k + 1 \in k + 1 .. Runs(r) - 1
            BY <1>1, <2>2
        <3>2. end < RunStart(r, k + 1)
            BY <3>1 DEF IsRunAt
        <3> QED BY <3>2, <1>2
    <2> QED BY <2>1, <2>2
<1>4. ASSUME NEW x \in RunStart(r, k) + 1 .. end PROVE v[x] = StyleOf(r, k)
    <2> DEFINE z == x - 1
    <2>1. z \in RunStart(r, k) .. RunStart(r, k + 1) - 1 /\ x = z + 1
        BY <1>1, <1>2, <1>3
    <2> HIDE DEF z
    <2>2. v[z + 1] = StyleOf(r, k)
        BY <2>1, <1>1 DEF Holds, Shows
    <2> QED BY <2>1, <2>2
<1> QED BY <1>1, <1>2, <1>4

LEMMA FillRangeIs ==
    ASSUME NEW r, NEW v \in Seq(Int), AreRunsOf(r, v), NEW pos \in Nat, NEW len \in Nat \ {0},
           pos + len <= Len(v), NEW y \in Int
    PROVE  AreRunsOf(FillRange(r, pos, y, len), Filled(v, pos, pos + len, y))
<1> DEFINE end == pos + len
           last == RunFromPosition(r, end)
           at == RunStart(r, last)
           q == SplitRun(r, end)
           m == RunAfterSplit(r, end)
<1>1. Holds(r, v) /\ DifferBut(r, v, {})
    BY DEF AreRunsOf
<1>2. end \in Nat /\ pos < end /\ end <= Len(v) /\ ~(len <= 0) /\ Len(v) \in Int
    BY <1>1, RunsInOrder
<1>3. ~(len <= 0 \/ end > RunsLength(r))
    <2>1. RunsLength(r) = Len(v)
        BY <1>1 DEF RunsLength, Holds
    <2> QED BY <2>1, <1>2
<1>4. FillRange(r, pos, y, len) =
          IF StyleOf(r, last) = y /\ pos >= at THEN r
          ELSE IF StyleOf(r, last) = y THEN FillFrom(r, pos, at, last, y)
          ELSE FillFrom(q, pos, end, m, y)
    BY <1>3 DEF FillRange
<1> HIDE DEF end
<1>5. IsRunAt(r, last, end)
    BY <1>1, <1>2, RunFound
<1>6. SplitAt(r, q, m, end)
    BY <1>1, <1>2, SplitIs
<1> HIDE DEF last, q, m
<1>7. /\ \A x \in at + 1 .. end : v[x] = StyleOf(r, last)
      /\ last \in 0 .. Runs(r) - 1 /\ at \in Int /\ 0 <= at /\ at <= end
    BY <1>1, <1>2, <1>5, RunIsBehind
<1>8. RunStart(r, 0) = 0 /\ Runs(r) \in Nat \ {0}
    BY <1>1, RunsInOrder DEF Holds, InOrder
<1>9. CASE StyleOf(r, last) = y /\ pos >= at
    <2>1. Filled(v, pos, end, y) = v
        <3>1. ASSUME NEW x \in pos + 1 .. end PROVE v[x] = y
            <4> HIDE DEF at
            <4>1. x \in at + 1 .. end
                BY <1>2, <1>7, <1>9
            <4> QED BY <4>1, <1>7, <1>9
        <3> QED BY <3>1, FilledNothing
    <2> QED BY <2>1, <1>4, <1>9 DEF end
<1>10. CASE StyleOf(r, last) = y /\ ~(pos >= at)
    <2>1. last \in 1 .. Runs(r) - 1 /\ pos < at
        BY <1>7, <1>8, <1>10
    <2>2. Filled(v, pos, at, y) = Filled(v, pos, end, y)
        <3>1. ASSUME NEW x \in 1 .. Len(v)
              PROVE  (x \in pos + 1 .. at <=> x \in pos + 1 .. end) \/ v[x] = y
            <4>1. x \in at + 1 .. end => v[x] = y
                BY <1>7, <1>10
            <4> HIDE DEF at
            <4> QED BY <4>1, <1>2, <1>7
        <3> HIDE DEF at
        <3> QED BY <3>1, FilledSame
    <2>3. DifferBut(r, v, {at})
        BY <1>1, DifferLess
    <2>4. AreRunsOf(FillFrom(r, pos, at, last, y), Filled(v, pos, at, y))
        BY <1>1, <2>1, <2>3, FillFromIs
    <2> QED BY <2>2, <2>4, <1>4, <1>10 DEF end
<1>11. CASE StyleOf(r, last) # y
    <2>1. Holds(q, v) /\ m \in 0 .. Runs(q) - 1 /\ RunStart(q, m) = end
        BY <1>1, <1>2, <1>6, SplitKeeps
    <2>2. DifferBut(q, v, {end})
        <3> DEFINE E == {}
        <3>1. DifferBut(r, v, E)
            BY <1>1
        <3> HIDE DEF E
        <3>2. DifferBut(q, v, E \cup {end})
            BY <1>1, <1>2, <1>6, <3>1, SplitDiffers
        <3>3. E \cup {end} \subseteq {end}
            BY DEF E
        <3> QED BY <3>2, <3>3, DifferLess
    <2>3. m \in 1 .. Runs(q) - 1 /\ Runs(q) \in Nat
        <3>1. RunStart(q, 0) = 0 /\ Runs(q) \in Nat
            BY <2>1, RunsInOrder DEF Holds, InOrder
        <3> QED BY <3>1, <2>1, <1>2
    <2>4. DifferBut(q, v, {}) \/ StyleOf(q, m - 1) # y
        <3>1. CASE q = r
            BY <3>1, <1>1
        <3>2. CASE q # r
            <4> DEFINE k == m - 1
            <4>1. IsRunAt(r, k, end) /\ m \in 1 .. Runs(r) /\ RunCame(r, q, m, end, StyleOf(r, m - 1))
                BY <3>2, <1>6 DEF SplitAt
            <4>2. k \in 0 .. Runs(q) /\ k < m
                BY <2>3, <4>1
            <4> HIDE DEF k
            <4>3. k = last
                <5>1. IsRuns(r) /\ end \in Int
                    BY <1>1, <1>2 DEF Holds
                <5> QED BY <4>1, <5>1, <1>5, RunIsOne
            <4>4. StyleOf(q, k) = StyleOf(r, k)
                BY <4>1, <4>2 DEF RunCame
            <4> QED BY <4>3, <4>4, <1>11 DEF k
        <3> QED BY <3>1, <3>2
    <2>5. AreRunsOf(FillFrom(q, pos, end, m, y), Filled(v, pos, end, y))
        BY <1>2, <2>1, <2>2, <2>3, <2>4, FillFromIs
    <2> QED BY <2>5, <1>4, <1>11 DEF end
<1> QED BY <1>9, <1>10, <1>11

(***************************************************************************)
(* InsertSpace.                                                            *)
(***************************************************************************)

\* w is v with len values y inserted at pos.
HasSpace(w, v, pos, len, y) ==
    /\ w \in Seq(Int) /\ Len(w) = Len(v) + len
    /\ \A x \in 1 .. Len(v) + len :
           w[x] = IF x <= pos THEN v[x] ELSE IF x <= pos + len THEN y ELSE v[x - len]

LEMMA SpaceIs ==
    ASSUME NEW v \in Seq(Int), NEW pos \in 0 .. Len(v), NEW len \in Nat, NEW y \in Int
    PROVE  HasSpace(Inserted(v, pos, [k \in 1 .. len |-> y]), v, pos, len, y)
<1> DEFINE s == [k \in 1 .. len |-> y]
           a == SubSeq(v, 1, pos)
           b == SubSeq(v, pos + 1, Len(v))
           as == a \o s
           w == as \o b
           n == Len(v)
<1>1. n \in Nat /\ pos \in Nat /\ pos <= n /\ pos \in 0 .. n
    BY LenProperties
<1>2. s \in Seq(Int) /\ Len(s) = len /\ \A k \in 1 .. len : s[k] = y
    OBVIOUS
<1>3. /\ a \in Seq(Int) /\ Len(a) = pos /\ b \in Seq(Int) /\ Len(b) = n - pos
      /\ \A i \in 1 .. pos : a[i] = v[i]
      /\ \A i \in 1 .. n - pos : b[i] = v[pos + i]
    <2>1. a \in Seq(Int) /\ Len(a) = pos /\ \A i \in 1 .. pos : a[i] = v[i]
        BY CutInTwo
    <2>2. b \in Seq(Int) /\ Len(b) = n - pos /\ \A i \in 1 .. n - pos : b[i] = v[pos + i]
        BY CutInTwo
    <2> QED BY <2>1, <2>2
<1>4. w = Inserted(v, pos, s)
    BY DEF Inserted
<1> HIDE DEF a, b, s
<1>5. /\ as \in Seq(Int) /\ Len(as) = Len(a) + Len(s)
      /\ \A i \in 1 .. Len(a) : as[i] = a[i]
      /\ \A i \in Len(a) + 1 .. Len(a) + Len(s) : as[i] = s[i - Len(a)]
    <2>1. a \in Seq(Int) /\ s \in Seq(Int)
        BY <1>2, <1>3
    <2> QED BY <2>1, JoinIs
<1> HIDE DEF as
<1>6. /\ w \in Seq(Int) /\ Len(w) = Len(as) + Len(b)
      /\ \A i \in 1 .. Len(as) : w[i] = as[i]
      /\ \A i \in Len(as) + 1 .. Len(as) + Len(b) : w[i] = b[i - Len(as)]
    <2>1. as \in Seq(Int) /\ b \in Seq(Int)
        BY <1>3, <1>5
    <2> QED BY <2>1, JoinIs
<1> HIDE DEF w, n
<1>7. Len(as) = pos + len /\ Len(w) = n + len
    BY <1>1, <1>2, <1>3, <1>5, <1>6
<1>8. ASSUME NEW x \in 1 .. n + len
      PROVE  w[x] = IF x <= pos THEN v[x] ELSE IF x <= pos + len THEN y ELSE v[x - len]
    <2>1. CASE x <= pos
        <3>1. x \in 1 .. pos /\ x \in 1 .. Len(as)
            BY <1>1, <1>7, <2>1
        <3> QED BY <3>1, <2>1, <1>3, <1>5, <1>6
    <2>2. CASE ~(x <= pos) /\ x <= pos + len
        <3> DEFINE i == x - pos
        <3>1. i \in 1 .. len /\ x \in 1 .. Len(as) /\ x \in Len(a) + 1 .. Len(a) + Len(s) /\ i = x - Len(a)
            BY <1>1, <1>2, <1>3, <1>7, <2>2
        <3> HIDE DEF i
        <3>2. w[x] = as[x] /\ as[x] = s[i] /\ s[i] = y
            BY <3>1, <1>2, <1>5, <1>6
        <3> QED BY <3>2, <2>2
    <2>3. CASE ~(x <= pos) /\ ~(x <= pos + len)
        <3> DEFINE i == x - Len(as)
        <3>1. i \in 1 .. n - pos /\ x \in Len(as) + 1 .. Len(as) + Len(b) /\ pos + i = x - len
            BY <1>1, <1>3, <1>7, <2>3
        <3>2. w[x] = b[i] /\ b[i] = v[pos + i]
            BY <3>1, <1>3, <1>6
        <3> QED BY <3>1, <3>2, <2>3
    <2> QED BY <2>1, <2>2, <2>3
<1>9. HasSpace(w, v, pos, len, y)
    BY <1>6, <1>7, <1>8 DEF HasSpace, n
<1> QED BY <1>4, <1>9 DEF s

LEMMA GrownHolds ==
    ASSUME NEW r, NEW v, Holds(r, v), NEW pos \in Nat, NEW len \in Nat \ {0},
           NEW k \in 0 .. Runs(r) - 1, RunStart(r, k) <= pos, pos <= RunStart(r, k + 1),
           NEW q, RunGrew(r, q, k, len), NEW w, HasSpace(w, v, pos, len, StyleOf(r, k))
    PROVE  Holds(q, w)
<1> DEFINE n == Runs(r)
           z == Len(v)
<1>1. /\ n \in Nat \ {0} /\ z \in Int
      /\ \A j \in 0 .. n : RunStart(r, j) \in Int /\ StyleOf(r, j) \in Int
      /\ \A i, j \in 0 .. n - 1 : i <= j => RunStart(r, i) <= RunStart(r, j)
      /\ \A j \in 0 .. n : 0 <= RunStart(r, j) /\ RunStart(r, j) <= z
      /\ \A j \in 0 .. n - 1 : RunStart(r, j) <= RunStart(r, j + 1)
    BY RunsInOrder
<1>2. /\ RunStart(r, 0) = 0 /\ RunStart(r, n) = z /\ StyleOf(r, n) = 0
      /\ \A i, j \in 0 .. n - 1 : i < j => RunStart(r, i) < RunStart(r, j)
      /\ \A j \in 0 .. n - 1 :
             \A x \in RunStart(r, j) .. RunStart(r, j + 1) - 1 : v[x + 1] = StyleOf(r, j)
    BY DEF Holds, InOrder, Shows
<1>3. /\ IsRuns(q) /\ Runs(q) = n
      /\ \A j \in 0 .. n :
             /\ j <= k => RunStart(q, j) = RunStart(r, j)
             /\ j > k => RunStart(q, j) = RunStart(r, j) + len
             /\ StyleOf(q, j) = StyleOf(r, j)
    <2>1. IsRuns(q) /\ Runs(q) = n
        BY DEF RunGrew
    <2>2. \A j \in 0 .. n :
             /\ RunStart(q, j) = RunStart(r, j) + (IF j > k THEN len ELSE 0)
             /\ StyleOf(q, j) = StyleOf(r, j)
        BY <2>1 DEF RunGrew
    <2> HIDE DEF n
    <2>3. \A j \in 0 .. n : j <= k => RunStart(q, j) = RunStart(r, j)
        BY <2>2, <1>1
    <2>4. \A j \in 0 .. n : j > k => RunStart(q, j) = RunStart(r, j) + len
        BY <2>2, <1>1
    <2> QED BY <2>1, <2>2, <2>3, <2>4
<1>4. /\ w \in Seq(Int) /\ Len(w) = z + len
      /\ \A x \in 1 .. z + len :
             w[x] = IF x <= pos THEN v[x] ELSE IF x <= pos + len THEN StyleOf(r, k) ELSE v[x - len]
    BY DEF HasSpace
<1>5. /\ k \in Int /\ k \in 0 .. n /\ k + 1 \in 0 .. n /\ RunStart(r, k) \in Int /\ RunStart(r, k + 1) \in Int
      /\ n > k /\ n \in 0 .. n /\ 0 \in 0 .. n /\ 0 <= k /\ k \in 0 .. n - 1
    BY <1>1
<1>6. pos <= z /\ pos \in Int /\ len > 0 /\ len \in Int
    BY <1>1, <1>5
<1> HIDE DEF n, z
<1>7. RunStart(q, 0) = 0 /\ RunStart(q, n) = z + len /\ StyleOf(q, n) = 0
    BY <1>2, <1>3, <1>5
<1>8. ASSUME NEW i \in 0 .. n - 1, NEW j \in 0 .. n - 1, i < j
      PROVE  RunStart(q, i) < RunStart(q, j)
    <2>1. i \in 0 .. n /\ j \in 0 .. n /\ i \in Int /\ j \in Int
        BY <1>1
    <2>2. RunStart(r, i) < RunStart(r, j) /\ RunStart(r, i) \in Int /\ RunStart(r, j) \in Int
        BY <2>1, <1>1, <1>2, <1>8
    <2>3. RunStart(q, i) \in {RunStart(r, i), RunStart(r, i) + len}
          /\ RunStart(q, j) \in {RunStart(r, j), RunStart(r, j) + len}
          /\ (i > k => RunStart(q, j) = RunStart(r, j) + len)
          /\ (i <= k => RunStart(q, i) = RunStart(r, i))
        <3>1. i <= k \/ i > k
            BY <2>1, <1>5
        <3>2. j <= k \/ j > k
            BY <2>1, <1>5
        <3>3. i > k => j > k
            BY <2>1, <1>5, <1>8
        <3> QED BY <3>1, <3>2, <3>3, <2>1, <1>3
    <2>4. i <= k \/ i > k
        BY <2>1, <1>5
    <2> QED BY <2>2, <2>3, <2>4, <1>6
<1>9. ASSUME NEW j \in 0 .. n - 1 PROVE RunStart(q, j) <= z + len
    <2>1. j \in 0 .. n /\ (j <= k \/ j > k)
        BY <1>1, <1>5
    <2>2. RunStart(r, j) <= z /\ RunStart(r, j) \in Int
        BY <2>1, <1>1
    <2>3. RunStart(q, j) = RunStart(r, j) \/ RunStart(q, j) = RunStart(r, j) + len
        BY <2>1, <1>3
    <2> QED BY <2>2, <2>3, <1>1, <1>6
<1>10. ASSUME NEW j \in 0 .. n - 1, NEW x \in RunStart(q, j) .. RunStart(q, j + 1) - 1
       PROVE  w[x + 1] = StyleOf(q, j)
    <2> DEFINE i == j + 1
               e == x + 1
               y == StyleOf(r, k)
               a == RunStart(r, j)
               b == RunStart(r, i)
    <2>1. i \in 0 .. n /\ j \in 0 .. n /\ j \in Int
        BY <1>1
    <2>2. a \in Int /\ b \in Int /\ 0 <= a /\ b <= z /\ StyleOf(q, j) = StyleOf(r, j)
        BY <2>1, <1>1, <1>3
    <2>3. \A t \in a .. b - 1 : v[t + 1] = StyleOf(r, j)
        BY <1>2
    <2>4. \A t \in 1 .. z + len :
              /\ t <= pos => w[t] = v[t]
              /\ ~(t <= pos) /\ t <= pos + len => w[t] = y
              /\ ~(t <= pos) /\ ~(t <= pos + len) => w[t] = v[t - len]
        BY <1>4
    <2>5. x \in RunStart(q, j) .. RunStart(q, i) - 1
        BY <1>10
    <2> HIDE DEF y
    <2>6. CASE j < k
        <3>1. RunStart(q, j) = a /\ RunStart(q, i) = b
            BY <2>1, <2>6, <1>3, <1>5
        <3>2. b <= RunStart(r, k)
            BY <2>1, <2>6, <1>1, <1>5
        <3> HIDE DEF a, b, i
        <3>3. x \in a .. b - 1 /\ e \in 1 .. z + len /\ e <= pos
            BY <3>1, <3>2, <2>2, <2>5, <1>1, <1>5, <1>6
        <3>4. w[e] = v[e]
            BY <3>3, <2>4
        <3>5. v[e] = StyleOf(r, j)
            BY <3>3, <2>3
        <3> QED BY <3>4, <3>5, <2>2
    <2>7. CASE j = k
        <3>1. RunStart(q, j) = a /\ RunStart(q, i) = b + len /\ a <= pos /\ pos <= b
            BY <2>1, <2>7, <1>3, <1>5
        <3> HIDE DEF a, b, i
        <3>2. x \in Int /\ a <= x /\ x < b + len /\ e \in 1 .. z + len
            BY <3>1, <2>2, <2>5, <1>1, <1>6
        <3>3. CASE e <= pos
            <4>1. x \in a .. b - 1
                BY <3>1, <3>2, <3>3, <2>2, <1>6
            <4>2. w[e] = v[e]
                BY <3>2, <3>3, <2>4
            <4>3. v[e] = StyleOf(r, j)
                BY <4>1, <2>3
            <4> QED BY <4>2, <4>3, <2>2
        <3>4. CASE ~(e <= pos) /\ e <= pos + len
            <4>1. w[e] = y
                BY <3>2, <3>4, <2>4
            <4> QED BY <4>1, <2>2, <2>7 DEF y
        <3>5. CASE ~(e <= pos) /\ ~(e <= pos + len)
            <4> DEFINE t == x - len
            <4>1. t \in a .. b - 1 /\ t + 1 = e - len
                BY <3>1, <3>2, <3>5, <2>2, <1>6
            <4> HIDE DEF t
            <4>2. w[e] = v[e - len]
                BY <3>2, <3>5, <2>4
            <4>3. v[t + 1] = StyleOf(r, j)
                BY <4>1, <2>3
            <4> QED BY <4>1, <4>2, <4>3, <2>2
        <3> QED BY <3>3, <3>4, <3>5
    <2>8. CASE j > k
        <3>1. RunStart(q, j) = a + len /\ RunStart(q, i) = b + len
            <4>1. i > k
                BY <2>1, <2>8, <1>5
            <4> QED BY <4>1, <2>1, <2>8, <1>3
        <3>2. pos <= a
            <4>1. k + 1 \in 0 .. n - 1 /\ k + 1 <= j
                BY <2>1, <2>8, <1>1, <1>5
            <4>2. RunStart(r, k + 1) <= a
                BY <4>1, <1>1
            <4> QED BY <4>2, <2>2, <1>5, <1>6
        <3> HIDE DEF a, b, i
        <3> DEFINE t == x - len
        <3>3. t \in a .. b - 1 /\ t + 1 = e - len /\ e \in 1 .. z + len /\ ~(e <= pos) /\ ~(e <= pos + len)
            BY <3>1, <3>2, <2>2, <2>5, <1>1, <1>6
        <3> HIDE DEF t
        <3>4. w[e] = v[e - len]
            BY <3>3, <2>4
        <3>5. v[t + 1] = StyleOf(r, j)
            BY <3>3, <2>3
        <3> QED BY <3>3, <3>4, <3>5, <2>2
    <2> QED BY <2>6, <2>7, <2>8, <2>1, <1>5
<1>11. InOrder(q) /\ Shows(q, w)
    BY <1>3, <1>7, <1>8, <1>10 DEF InOrder, Shows
<1> QED BY <1>3, <1>4, <1>7, <1>9, <1>11 DEF Holds

LEMMA GrownDiffers ==
    ASSUME NEW r, NEW v, Holds(r, v), DifferBut(r, v, {}), NEW len \in Nat,
           NEW k \in 0 .. Runs(r) - 1, NEW q, RunGrew(r, q, k, len),
           NEW w, Len(w) = Len(v) + len
    PROVE  DifferBut(q, w, {})
<1>1. Runs(q) = Runs(r) /\ Runs(r) \in Nat /\ Len(v) \in Int
    BY RunsInOrder DEF RunGrew
<1>2. ASSUME NEW j \in 1 .. Runs(r) - 1
      PROVE  RunStart(q, j) < Len(w) /\ StyleOf(q, j) # StyleOf(q, j - 1)
    <2> DEFINE i == j - 1
    <2>1. j \in 0 .. Runs(r) /\ i \in 0 .. Runs(r)
        BY <1>1
    <2>2. RunStart(r, j) \in Int /\ RunStart(r, j) < Len(v) /\ StyleOf(r, j) # StyleOf(r, i)
        BY <2>1, RunsInOrder DEF DifferBut
    <2> HIDE DEF i
    <2>3. /\ RunStart(q, j) = RunStart(r, j) + (IF j > k THEN len ELSE 0)
          /\ StyleOf(q, j) = StyleOf(r, j) /\ StyleOf(q, i) = StyleOf(r, i)
        BY <2>1, <1>1 DEF RunGrew
    <2>4. RunStart(q, j) < Len(w)
        BY <2>2, <2>3, <1>1
    <2> QED BY <2>2, <2>3, <2>4 DEF i
<1> QED BY <1>1, <1>2 DEF DifferBut

\* The value of what InsertSpace inserts.
SpaceOf(r, pos) ==
    LET run == RunFromPosition(r, pos)
    IN  IF RunStart(r, run) # pos \/ StyleOf(r, run) = 0 THEN StyleOf(r, run)
        ELSE IF run = 0 THEN 0 ELSE StyleOf(r, run - 1)

LEMMA FirstRun ==
    ASSUME NEW r, NEW v, Holds(r, v), NEW k, IsRunAt(r, k, 0)
    PROVE  k = 0 /\ RunStart(r, k) = 0
<1>1. k \in 0 .. Runs(r) - 1 /\ RunStart(r, k) <= 0 /\ Runs(r) \in Nat /\ RunStart(r, 0) = 0
    BY RunsInOrder DEF IsRunAt, Holds, InOrder
<1>2. CASE 0 < k
    <2>1. RunStart(r, 0) < RunStart(r, k) /\ RunStart(r, k) \in Int
        <3>1. 0 \in 0 .. Runs(r) - 1 /\ k \in 0 .. Runs(r)
            BY <1>1
        <3> QED BY <3>1, <1>1, <1>2, RunsInOrder DEF Holds, InOrder
    <2> QED BY <2>1, <1>1
<1> QED BY <1>1, <1>2

LEMMA ShadeIs ==
    ASSUME NEW r, NEW v \in Seq(Int), Holds(r, v), NEW pos \in Nat, pos < Len(v)
    PROVE  SpaceOf(r, pos) = ShadeOfNew(v, pos)
<1> DEFINE k == RunFromPosition(r, pos)
           x == pos + 1
<1>1. IsRunAt(r, k, pos)
    BY RunFound
<1>2. SpaceOf(r, pos) = IF RunStart(r, k) # pos \/ StyleOf(r, k) = 0 THEN StyleOf(r, k)
                        ELSE IF k = 0 THEN 0 ELSE StyleOf(r, k - 1)
    BY DEF SpaceOf
<1> HIDE DEF k
<1>3. /\ \A e \in RunStart(r, k) + 1 .. pos : v[e] = StyleOf(r, k)
      /\ k \in 0 .. Runs(r) - 1 /\ RunStart(r, k) \in Int /\ 0 <= RunStart(r, k)
      /\ RunStart(r, k) <= pos /\ Len(v) \in Int /\ Runs(r) \in Nat
    <2>1. Len(v) \in Int /\ Runs(r) \in Nat
        BY RunsInOrder
    <2>2. pos <= Len(v)
        BY <2>1
    <2> QED BY <2>1, <2>2, <1>1, RunIsBehind
<1>4. v[x] = StyleOf(r, k)
    <2>1. pos \in RunStart(r, k) .. RunStart(r, k + 1) - 1
        <3>1. CASE k + 1 = Runs(r)
            <4>1. RunStart(r, k + 1) = Len(v)
                BY <3>1 DEF Holds
            <4> QED BY <4>1, <1>3
        <3>2. CASE k + 1 # Runs(r)
            <4>1. k + 1 \in k + 1 .. Runs(r) - 1 /\ k + 1 \in 0 .. Runs(r)
                BY <3>2, <1>3
            <4>2. pos < RunStart(r, k + 1) /\ RunStart(r, k + 1) \in Int
                BY <4>1, <1>1, RunsInOrder DEF IsRunAt
            <4> QED BY <4>2, <1>3
        <3> QED BY <3>1, <3>2
    <2> QED BY <2>1, <1>3 DEF Holds, Shows
<1>5. CASE pos = 0
    <2>1. k = 0 /\ RunStart(r, k) = 0
        BY <1>1, <1>5, FirstRun
    <2>2. ShadeOfNew(v, pos) = 0
        BY <1>5 DEF ShadeOfNew
    <2> QED BY <2>1, <2>2, <1>2, <1>5
<1>6. CASE pos # 0
    <2>1. pos \in 1 .. Len(v) - 1
        BY <1>3, <1>6
    <2>2. ShadeOfNew(v, pos) = IF v[x] # 0 THEN v[pos] ELSE 0
        BY <2>1 DEF ShadeOfNew
    <2>3. CASE RunStart(r, k) # pos
        <3>1. pos \in RunStart(r, k) + 1 .. pos
            BY <2>3, <1>3
        <3>2. v[pos] = StyleOf(r, k)
            BY <3>1, <1>3
        <3> QED BY <3>2, <2>2, <2>3, <1>2, <1>4
    <2>4. CASE RunStart(r, k) = pos
        <3> DEFINE j == k - 1
                   e == pos - 1
        <3>1. k # 0
            BY <2>4, <1>6 DEF Holds, InOrder
        <3>2. j \in 0 .. Runs(r) - 1 /\ j + 1 = k /\ j < k /\ j \in 0 .. Runs(r)
            BY <3>1, <1>3
        <3>3. RunStart(r, j) < pos /\ RunStart(r, j) \in Int
            BY <3>2, <2>4, <1>3, RunsInOrder DEF Holds, InOrder
        <3>4. e \in RunStart(r, j) .. RunStart(r, j + 1) - 1 /\ e + 1 = pos
            BY <3>2, <3>3, <2>4
        <3> HIDE DEF j, e
        <3>5. v[e + 1] = StyleOf(r, j)
            BY <3>2, <3>4 DEF Holds, Shows
        <3>6. v[pos] = StyleOf(r, k - 1)
            BY <3>4, <3>5 DEF j
        <3> QED BY <3>1, <3>6, <2>2, <2>4, <1>2, <1>4
    <2> QED BY <2>3, <2>4
<1> QED BY <1>5, <1>6

\* A run of no value comes before the first.
\* q is r with a new run of len values, all 0, before the first one.
CameFirst(r, q, len) ==
    \E a, b : /\ RunCame(r, a, 1, 0, StyleOf(r, 0))
              /\ RunTook(a, b, 0, 0) /\ RunGrew(b, q, 0, len)

LEMMA NewFirstRun ==
    ASSUME NEW r, IsRuns(r), NEW len \in Int,
           NEW q, q = [starts |-> InsertText(InsertPartition(r.starts, 1, 0), 0, len),
                       styles |-> <<0, StyleOf(r, 0)>> \o Tail(r.styles)]
    PROVE  CameFirst(r, q, len)
<1> DEFINE y == StyleOf(r, 0)
           c == r.styles
           n == Runs(r)
           a == [starts |-> InsertPartition(r.starts, 1, 0), styles |-> InsertAt(c, 1 + 1, y)]
           b == [a EXCEPT !.styles[0 + 1] = 0]
           g == [b EXCEPT !.starts = InsertText(@, 0, len)]
<1>1. n \in Nat \ {0} /\ c \in Seq(Int) /\ Len(c) = n + 1 /\ y \in Int /\ y = c[1]
    BY RunsAre DEF StyleOf
<1> HIDE DEF n
<1>2. 1 \in 0 .. n /\ 0 \in Int
    BY <1>1
<1>3. RunCame(r, a, 1, 0, y)
    <2> HIDE DEF y
    <2> QED BY <1>1, <1>2, RunComes DEF n
<1>4. IsRuns(a) /\ 0 \in 0 .. Runs(a)
    <2>1. IsRuns(a) /\ Runs(a) = n + 1
        BY <1>3 DEF RunCame, n
    <2> HIDE DEF a
    <2> QED BY <2>1, <1>1
<1>5. RunTook(a, b, 0, 0)
    <2> HIDE DEF a
    <2> QED BY <1>4, RunTakes
<1>6. IsRuns(b) /\ 0 \in 0 .. Runs(b)
    <2> HIDE DEF a, b
    <2> QED BY <1>4, <1>5 DEF RunTook
<1>7. RunGrew(b, g, 0, len)
    <2> HIDE DEF b
    <2> QED BY <1>6, RunGrows
<1> DEFINE d == InsertAt(c, 2, y)
           e == [d EXCEPT ![1] = 0]
           t == Tail(c)
           f == <<0, y>> \o t
<1>8. g = [starts |-> InsertText(InsertPartition(r.starts, 1, 0), 0, len), styles |-> e]
    <2> DEFINE sp == InsertPartition(r.starts, 1, 0)
    <2>1. a = [starts |-> sp, styles |-> d] /\ 0 + 1 = 1
        OBVIOUS
    <2> HIDE DEF d, sp
    <2>2. b = [a EXCEPT !.styles[1] = 0]
        BY <2>1
    <2>3. [a EXCEPT !.styles[1] = 0] = [starts |-> sp, styles |-> e]
        <3>1. a.styles = d
            BY <2>1
        <3> HIDE DEF a
        <3>2. [a EXCEPT !.styles[1] = 0] = [a EXCEPT !.styles = [a.styles EXCEPT ![1] = 0]]
            OBVIOUS
        <3>3. [a EXCEPT !.styles[1] = 0] = [a EXCEPT !.styles = e]
            BY <3>1, <3>2, Zenon
        <3> HIDE DEF e
        <3>4. [a EXCEPT !.styles = e] = [starts |-> sp, styles |-> e]
            BY <2>1
        <3> QED BY <3>3, <3>4
    <2>4. b = [starts |-> sp, styles |-> e]
        BY <2>2, <2>3
    <2> HIDE DEF e, b, a
    <2> QED BY <2>4 DEF sp
<1>9. HasInserted(d, c, 2, y)
    <2> HIDE DEF c, y
    <2>1. 2 \in 1 .. Len(c) + 1
        BY <1>1
    <2> QED BY <2>1, <1>1, InsertAtShifts
<1>10. e = f
    <2> HIDE DEF c, y, d
    <2>1. d \in Seq(Int) /\ Len(d) = n + 2
        BY <1>1, <1>9 DEF HasInserted
    <2>2. d[2] = y /\ \A j \in 3 .. n + 2 : d[j] = c[j - 1]
        <3>1. \A j \in 1 .. n + 2 : d[j] = IF j < 2 THEN c[j] ELSE IF j = 2 THEN y ELSE c[j - 1]
            BY <1>1, <1>9 DEF HasInserted
        <3>2. 2 \in 1 .. n + 2
            BY <1>1
        <3> QED BY <3>1, <3>2, <1>1
    <2>3. /\ e \in Seq(Int) /\ Len(e) = n + 2 /\ e[1] = 0 /\ e[2] = y
          /\ \A j \in 3 .. n + 2 : e[j] = c[j - 1]
        BY <1>1, <2>1, <2>2
    <2>4. t \in Seq(Int) /\ Len(t) = n /\ \A j \in 1 .. n : t[j] = c[j + 1]
        BY <1>1
    <2> HIDE DEF t, e
    <2>5. <<0, y>> \in Seq(Int) /\ Len(<<0, y>>) = 2
        BY <1>1
    <2>6. /\ f \in Seq(Int) /\ Len(f) = 2 + n
          /\ \A i \in 1 .. 2 : f[i] = <<0, y>>[i]
          /\ \A i \in 2 + 1 .. 2 + n : f[i] = t[i - 2]
        <3> DEFINE h == <<0, y>>
        <3>1. h \in Seq(Int) /\ Len(h) = 2 /\ f = h \o t
            BY <2>5
        <3> HIDE DEF h, f
        <3>2. /\ h \o t \in Seq(Int) /\ Len(h \o t) = Len(h) + Len(t)
              /\ \A i \in 1 .. Len(h) : (h \o t)[i] = h[i]
              /\ \A i \in Len(h) + 1 .. Len(h) + Len(t) : (h \o t)[i] = t[i - Len(h)]
            <4>1. h \in Seq(Int) /\ t \in Seq(Int)
                BY <3>1, <2>4
            <4> QED BY <4>1, JoinIs
        <3>3. /\ f \in Seq(Int) /\ Len(f) = 2 + n
              /\ \A i \in 1 .. 2 : f[i] = h[i]
              /\ \A i \in 2 + 1 .. 2 + n : f[i] = t[i - 2]
            BY <3>1, <3>2, <2>4
        <3> QED BY <3>3 DEF h
    <2> HIDE DEF f
    <2>7. ASSUME NEW i \in 1 .. n + 2 PROVE e[i] = f[i]
        <3>1. CASE i = 1
            <4>1. 1 \in 1 .. 2
                OBVIOUS
            <4> QED BY <4>1, <3>1, <2>3, <2>6
        <3>2. CASE i = 2
            <4>1. 2 \in 1 .. 2
                OBVIOUS
            <4> QED BY <4>1, <3>2, <2>3, <2>6
        <3>3. CASE i # 1 /\ i # 2
            <4>1. i \in 3 .. n + 2 /\ i \in 2 + 1 .. 2 + n /\ i - 2 \in 1 .. n /\ (i - 2) + 1 = i - 1
                BY <1>1, <3>3
            <4>2. e[i] = c[i - 1] /\ f[i] = t[i - 2] /\ t[i - 2] = c[(i - 2) + 1]
                BY <4>1, <2>3, <2>4, <2>6
            <4> QED BY <4>1, <4>2
        <3> QED BY <3>1, <3>2, <3>3
    <2>8. Len(e) = Len(f) /\ e \in Seq(Int) /\ f \in Seq(Int)
        BY <1>1, <2>3, <2>6
    <2>9. \A i \in 1 .. Len(e) : e[i] = f[i]
        BY <2>3, <2>7
    <2> QED BY <2>8, <2>9, SeqEqual
<1>11. g = q
    BY <1>8, <1>10
<1> HIDE DEF a, b, g, y
<1>12. RunCame(r, a, 1, 0, y) /\ RunTook(a, b, 0, 0) /\ RunGrew(b, q, 0, len)
    BY <1>3, <1>5, <1>7, <1>11
<1>13. RunCame(r, a, 1, 0, StyleOf(r, 0)) /\ RunTook(a, b, 0, 0) /\ RunGrew(b, q, 0, len)
    BY <1>12 DEF y
<1> QED BY <1>13, Zenon DEF CameFirst

LEMMA NewFirstRunIs ==
    ASSUME NEW r, NEW v, AreRunsOf(r, v), Len(v) > 0, StyleOf(r, 0) # 0, NEW len \in Nat \ {0},
           NEW q, q = [starts |-> InsertText(InsertPartition(r.starts, 1, 0), 0, len),
                       styles |-> <<0, StyleOf(r, 0)>> \o Tail(r.styles)],
           NEW w, HasSpace(w, v, 0, len, 0)
    PROVE  AreRunsOf(q, w)
<1> DEFINE n == Runs(r)
           z == Len(v)
<1>1. Holds(r, v) /\ DifferBut(r, v, {}) /\ IsRuns(r)
    BY DEF AreRunsOf, Holds
<1>2. PICK a, b : /\ RunCame(r, a, 1, 0, StyleOf(r, 0))
                  /\ RunTook(a, b, 0, 0) /\ RunGrew(b, q, 0, len)
    <2>1. IsRuns(r) /\ len \in Int
        BY <1>1
    <2>2. CameFirst(r, q, len)
        BY <2>1, NewFirstRun
    <2> QED BY <2>2, Zenon DEF CameFirst
<1>3. /\ n \in Nat \ {0} /\ z \in Int
      /\ \A j \in 0 .. n : RunStart(r, j) \in Int /\ StyleOf(r, j) \in Int
      /\ \A j \in 0 .. n : 0 <= RunStart(r, j) /\ RunStart(r, j) <= z
    BY <1>1, RunsInOrder
<1>4. /\ RunStart(r, 0) = 0 /\ RunStart(r, n) = z /\ StyleOf(r, n) = 0
      /\ \A i, j \in 0 .. n - 1 : i < j => RunStart(r, i) < RunStart(r, j)
      /\ \A j \in 0 .. n - 1 :
             \A x \in RunStart(r, j) .. RunStart(r, j + 1) - 1 : v[x + 1] = StyleOf(r, j)
    BY <1>1 DEF Holds, InOrder, Shows
<1>5. IsRuns(q) /\ Runs(q) = n + 1 /\ Runs(b) = n + 1 /\ Runs(a) = n + 1
    BY <1>2 DEF RunCame, RunTook, RunGrew
<1>6. ASSUME NEW j \in 0 .. n + 1
      PROVE  /\ j = 0 => RunStart(q, j) = 0 /\ StyleOf(q, j) = 0
             /\ j > 0 => RunStart(q, j) = RunStart(r, j - 1) + len /\ StyleOf(q, j) = StyleOf(r, j - 1)
    <2>1. /\ RunStart(q, j) = RunStart(b, j) + (IF j > 0 THEN len ELSE 0)
          /\ StyleOf(q, j) = StyleOf(b, j)
        BY <1>2, <1>5 DEF RunGrew
    <2>2. /\ RunStart(b, j) = RunStart(a, j)
          /\ StyleOf(b, j) = IF j = 0 THEN 0 ELSE StyleOf(a, j)
        BY <1>2, <1>5 DEF RunTook
    <2>3. /\ RunStart(a, j) = IF j < 1 THEN RunStart(r, j)
                              ELSE IF j = 1 THEN 0 ELSE RunStart(r, j - 1)
          /\ StyleOf(a, j) = IF j < 1 THEN StyleOf(r, j)
                             ELSE IF j = 1 THEN StyleOf(r, 0) ELSE StyleOf(r, j - 1)
        BY <1>2, <1>5 DEF RunCame
    <2> HIDE DEF n
    <2>4. CASE j = 0
        <3>1. RunStart(a, j) = 0
            BY <2>3, <2>4, <1>4
        <3> QED BY <3>1, <2>1, <2>2, <2>4
    <2>5. CASE j = 1
        <3>1. j - 1 = 0 /\ j > 0 /\ ~(j < 1)
            BY <2>5
        <3> QED BY <3>1, <2>1, <2>2, <2>3, <2>5, <1>4
    <2>6. CASE j > 1
        BY <2>1, <2>2, <2>3, <2>6, <1>3
    <2> QED BY <2>4, <2>5, <2>6, <1>3
<1>7. /\ Len(w) = z + len
      /\ \A x \in 1 .. z + len :
             /\ x <= len => w[x] = 0
             /\ x > len => w[x] = v[x - len]
    <2>1. /\ Len(w) = z + len
          /\ \A x \in 1 .. z + len :
                 w[x] = IF x <= 0 THEN v[x] ELSE IF x <= 0 + len THEN 0 ELSE v[x - len]
        BY DEF HasSpace
    <2> HIDE DEF z
    <2> QED BY <2>1, <1>3
<1> HIDE DEF n, z
<1>17. RunStart(q, 0) = 0 /\ StyleOf(q, 0) = 0
    <2>1. 0 \in 0 .. n + 1
        BY <1>3
    <2> QED BY <2>1, <1>6
<1>18. ASSUME NEW y \in 0 .. n
       PROVE  RunStart(q, y + 1) = RunStart(r, y) + len /\ StyleOf(q, y + 1) = StyleOf(r, y)
    <2> DEFINE j == y + 1
    <2>1. j \in 0 .. n + 1 /\ j > 0 /\ j - 1 = y
        BY <1>3
    <2> HIDE DEF j
    <2>2. RunStart(q, j) = RunStart(r, j - 1) + len /\ StyleOf(q, j) = StyleOf(r, j - 1)
        BY <2>1, <1>6
    <2> QED BY <2>1, <2>2 DEF j
<1>8. /\ RunStart(q, 0) = 0 /\ RunStart(q, n + 1) = z + len /\ StyleOf(q, n + 1) = 0
    <2>1. n \in 0 .. n
        BY <1>3
    <2> QED BY <2>1, <1>4, <1>17, <1>18
<1>9. ASSUME NEW i \in 0 .. n, NEW j \in 0 .. n, i < j
      PROVE  RunStart(q, i) < RunStart(q, j)
    <2> DEFINE y == j - 1
    <2>1. j \in 0 .. n + 1 /\ j > 0 /\ i \in 0 .. n + 1 /\ y \in 0 .. n - 1 /\ y \in 0 .. n
        BY <1>3, <1>9
    <2>2. RunStart(q, j) = RunStart(r, y) + len /\ RunStart(r, y) \in Int /\ 0 <= RunStart(r, y)
        BY <2>1, <1>3, <1>6
    <2>3. CASE i = 0
        <3> HIDE DEF y
        <3> QED BY <2>2, <2>3, <1>17
    <2>4. CASE i # 0
        <3> DEFINE x == i - 1
        <3>1. x \in 0 .. n - 1 /\ x < y /\ i > 0 /\ x \in 0 .. n
            BY <1>3, <1>9, <2>4
        <3>2. RunStart(q, i) = RunStart(r, x) + len /\ RunStart(r, x) < RunStart(r, y) /\ RunStart(r, x) \in Int
            <4>1. RunStart(q, i) = RunStart(r, x) + len
                BY <3>1, <2>1, <1>6
            <4> HIDE DEF x, y
            <4> QED BY <4>1, <3>1, <2>1, <1>3, <1>4
        <3> HIDE DEF x, y
        <3> QED BY <3>2, <2>2
    <2> QED BY <2>3, <2>4
<1>10. ASSUME NEW j \in 0 .. n PROVE RunStart(q, j) <= z + len
    <2>1. CASE j = 0
        BY <2>1, <1>3, <1>8, <1>4
    <2>2. CASE j # 0
        <3> DEFINE y == j - 1
        <3>1. j \in 0 .. n + 1 /\ j > 0 /\ y \in 0 .. n
            BY <1>3, <2>2
        <3>2. RunStart(q, j) = RunStart(r, y) + len
            BY <3>1, <1>6
        <3>3. RunStart(r, y) \in Int /\ RunStart(r, y) <= z /\ z \in Int
            BY <3>1, <1>3
        <3> HIDE DEF y
        <3> QED BY <3>2, <3>3
    <2> QED BY <2>1, <2>2
<1>11. ASSUME NEW j \in 0 .. n, NEW x \in RunStart(q, j) .. RunStart(q, j + 1) - 1
       PROVE  w[x + 1] = StyleOf(q, j)
    <2> DEFINE i == j + 1
               e == x + 1
    <2>1. i \in 0 .. n + 1 /\ i > 0 /\ i - 1 = j /\ j \in 0 .. n + 1 /\ j \in 0 .. n
        BY <1>3
    <2>2. RunStart(q, i) = RunStart(r, j) + len
        BY <2>1, <1>6
    <2>3. RunStart(r, j) \in Int /\ 0 <= RunStart(r, j) /\ RunStart(r, j) <= z
        BY <2>1, <1>3
    <2>4. CASE j = 0
        <3>1. RunStart(q, j) = 0 /\ RunStart(q, i) = len /\ StyleOf(q, j) = 0
            <4>1. RunStart(r, j) = 0
                BY <2>4, <1>4
            <4> QED BY <4>1, <2>2, <2>4, <1>17
        <3>2. e \in 1 .. z + len /\ e <= len
            BY <3>1, <1>3, <1>11
        <3> HIDE DEF e
        <3>3. w[e] = 0
            BY <3>2, <1>7
        <3> QED BY <3>1, <3>3 DEF e
    <2>5. CASE j # 0
        <3> DEFINE y == j - 1
                   t == x - len
        <3>1. y \in 0 .. n - 1 /\ y + 1 = j /\ j > 0 /\ y \in 0 .. n
            BY <1>3, <2>5
        <3>2. RunStart(q, j) = RunStart(r, y) + len /\ StyleOf(q, j) = StyleOf(r, y)
            BY <2>1, <3>1, <1>6
        <3>3. RunStart(r, y) \in Int /\ 0 <= RunStart(r, y)
            BY <3>1, <1>3
        <3> DEFINE c == RunStart(r, y)
                   d == RunStart(r, j)
        <3>5. c \in Int /\ d \in Int /\ 0 <= c /\ d <= z
            BY <2>3, <3>3
        <3>4. x \in c + len .. d + len - 1
            <4>1. RunStart(q, j) = c + len /\ RunStart(q, i) = d + len
                BY <3>2, <2>2
            <4>2. x \in RunStart(q, j) .. RunStart(q, i) - 1
                BY <1>11
            <4> DEFINE lo == RunStart(q, j)
                       hi == RunStart(q, i)
            <4>3. lo = c + len /\ hi = d + len /\ x \in lo .. hi - 1
                BY <4>1, <4>2
            <4> HIDE DEF c, d, lo, hi
            <4> QED BY <4>3, <3>5
        <3> HIDE DEF c, d
        <3>6. t \in c .. d - 1 /\ t + 1 = e - len /\ e > len /\ e \in 1 .. z + len
            BY <3>4, <3>5, <1>3
        <3> HIDE DEF y, t, e
        <3>7. w[e] = v[e - len]
            BY <3>6, <1>7
        <3>8. t \in RunStart(r, y) .. RunStart(r, y + 1) - 1
            BY <3>1, <3>6 DEF c, d
        <3>9. v[t + 1] = StyleOf(r, y)
            BY <3>1, <3>8, <1>4
        <3> QED BY <3>2, <3>6, <3>7, <3>9 DEF e
    <2> QED BY <2>4, <2>5
<1>12. ASSUME NEW j \in 1 .. n
       PROVE  RunStart(q, j) < z + len /\ StyleOf(q, j) # StyleOf(q, j - 1)
    <2> DEFINE y == j - 1
    <2>1. j \in 0 .. n + 1 /\ j > 0 /\ y \in 0 .. n - 1 /\ y \in 0 .. n + 1 /\ y \in 0 .. n
        BY <1>3
    <2>2. RunStart(q, j) = RunStart(r, y) + len /\ StyleOf(q, j) = StyleOf(r, y)
        BY <2>1, <1>6
    <2>3. CASE j = 1
        <3>1. y = 0 /\ StyleOf(q, y) = 0
            BY <2>3, <1>17
        <3>2. z > 0
            BY DEF z
        <3> QED BY <3>1, <3>2, <2>2, <1>3, <1>4
    <2>4. CASE j # 1
        <3> DEFINE x == y - 1
        <3>1. y \in 1 .. n - 1 /\ x = (j - 1) - 1
            BY <1>3, <2>4
        <3>2. RunStart(r, y) < z /\ StyleOf(r, y) # StyleOf(r, x)
            BY <3>1, <1>1 DEF DifferBut, n, z
        <3>3. StyleOf(q, y) = StyleOf(r, x)
            <4>1. y > 0
                BY <3>1, <1>3
            <4> QED BY <4>1, <2>1, <1>6
        <3>4. RunStart(r, y) \in Int
            BY <2>1, <1>3
        <3> HIDE DEF x
        <3> QED BY <3>2, <3>3, <3>4, <2>2, <1>3
    <2> QED BY <2>3, <2>4
<1> DEFINE m == n + 1
<1>13. Runs(q) = m /\ m - 1 = n
    BY <1>3, <1>5
<1>14. InOrder(q) /\ Shows(q, w)
    BY <1>8, <1>9, <1>11, <1>13 DEF InOrder, Shows
<1>15. Holds(q, w)
    <2>1. RunStart(q, m) = Len(w) /\ StyleOf(q, m) = 0
        BY <1>7, <1>8
    <2>2. \A j \in 0 .. m - 1 : RunStart(q, j) <= Len(w)
        BY <1>7, <1>10, <1>13
    <2> HIDE DEF m
    <2> QED BY <2>1, <2>2, <1>5, <1>13, <1>14 DEF Holds
<1>16. DifferBut(q, w, {})
    <2>1. \A j \in 1 .. m - 1 : RunStart(q, j) < Len(w) /\ StyleOf(q, j) # StyleOf(q, j - 1)
        BY <1>7, <1>12, <1>13
    <2> HIDE DEF m
    <2> QED BY <2>1, <1>13 DEF DifferBut
<1> QED BY <1>15, <1>16 DEF AreRunsOf

LEMMA InsertSpaceIs ==
    ASSUME NEW r, NEW v \in Seq(Int), AreRunsOf(r, v), NEW pos \in Nat, pos <= Len(v),
           NEW len \in Nat \ {0}, Len(v) > 0 \/ StyleOf(r, 0) = 0
    PROVE  /\ AreRunsOf(InsertSpace(r, pos, len), Inserted(v, pos, [k \in 1 .. len |-> SpaceOf(r, pos)]))
           /\ SpaceOf(r, pos) \in Int
<1> DEFINE run == RunFromPosition(r, pos)
           y == SpaceOf(r, pos)
           w == Inserted(v, pos, [k \in 1 .. len |-> y])
           q == InsertSpace(r, pos, len)
           Grown(k) == [r EXCEPT !.starts = InsertText(@, k, len)]
<1>1. Holds(r, v) /\ DifferBut(r, v, {}) /\ IsRuns(r) /\ len \in Nat /\ len \in Int /\ pos \in 0 .. Len(v)
    BY LenProperties DEF AreRunsOf, Holds
<1>2. IsRunAt(r, run, pos) /\ PartitionFromPosition(r.starts, pos) = run
    BY <1>1, RunFound
<1>3. ValueAt(r, pos) = StyleOf(r, run)
    BY <1>2 DEF ValueAt
<1>4. q = IF RunStart(r, run) # pos \/ StyleOf(r, run) = 0 THEN Grown(run)
          ELSE IF run = 0
          THEN [starts |-> InsertText(InsertPartition(r.starts, 1, 0), 0, len),
                styles |-> <<0, StyleOf(r, run)>> \o Tail(r.styles)]
          ELSE Grown(run - 1)
    BY <1>3 DEF InsertSpace
<1>5. y = IF RunStart(r, run) # pos \/ StyleOf(r, run) = 0 THEN StyleOf(r, run)
          ELSE IF run = 0 THEN 0 ELSE StyleOf(r, run - 1)
    BY DEF SpaceOf
<1> HIDE DEF run, q, y
<1>6. /\ run \in 0 .. Runs(r) - 1 /\ run \in 0 .. Runs(r) /\ Runs(r) \in Nat /\ RunStart(r, run) <= pos
      /\ RunStart(r, run) \in Int
    BY <1>1, <1>2, RunsInOrder DEF IsRunAt
<1>7. \A j \in 0 .. Runs(r) : StyleOf(r, j) \in Int
    BY <1>1, RunsInOrder
<1>8. y \in Int
    <2>1. run # 0 => run - 1 \in 0 .. Runs(r)
        BY <1>6
    <2> QED BY <2>1, <1>5, <1>6, <1>7
<1>9. HasSpace(w, v, pos, len, y)
    BY <1>1, <1>8, SpaceIs
<1> HIDE DEF w
<1>10. ASSUME NEW k \in 0 .. Runs(r) - 1, RunStart(r, k) <= pos, pos <= RunStart(r, k + 1),
              y = StyleOf(r, k), q = Grown(k)
       PROVE  AreRunsOf(q, w)
    <2>1. k \in 0 .. Runs(r)
        BY <1>6
    <2>2. RunGrew(r, q, k, len)
        BY <2>1, <1>1, <1>10, RunGrows
    <2>3. HasSpace(w, v, pos, len, StyleOf(r, k))
        BY <1>9, <1>10
    <2>4. Holds(q, w)
        BY <2>2, <2>3, <1>1, <1>10, GrownHolds
    <2>5. Len(w) = Len(v) + len
        BY <1>9 DEF HasSpace
    <2>6. DifferBut(q, w, {})
        BY <2>2, <2>5, <1>1, GrownDiffers
    <2> QED BY <2>4, <2>6 DEF AreRunsOf
<1>11. CASE RunStart(r, run) # pos \/ StyleOf(r, run) = 0
    <2>1. pos <= RunStart(r, run + 1)
        <3>1. CASE run + 1 = Runs(r)
            BY <3>1, <1>1 DEF Holds
        <3>2. CASE run + 1 # Runs(r)
            <4>1. run + 1 \in run + 1 .. Runs(r) - 1 /\ run + 1 \in 0 .. Runs(r)
                BY <3>2, <1>6
            <4>2. pos < RunStart(r, run + 1) /\ RunStart(r, run + 1) \in Int
                BY <4>1, <1>1, <1>2, RunsInOrder DEF IsRunAt
            <4> QED BY <4>2
        <3> QED BY <3>1, <3>2
    <2>2. AreRunsOf(q, w)
        BY <2>1, <1>4, <1>5, <1>6, <1>10, <1>11
    <2> QED BY <2>2, <1>8 DEF q, w, y
<1>12. CASE ~(RunStart(r, run) # pos \/ StyleOf(r, run) = 0) /\ run = 0
    <2>1. pos = 0 /\ y = 0 /\ StyleOf(r, 0) # 0 /\ Len(v) > 0
        BY <1>1, <1>5, <1>12 DEF Holds, InOrder
    <2>2. q = [starts |-> InsertText(InsertPartition(r.starts, 1, 0), 0, len),
               styles |-> <<0, StyleOf(r, 0)>> \o Tail(r.styles)]
        BY <1>4, <1>12
    <2>3. HasSpace(w, v, 0, len, 0)
        BY <2>1, <1>9
    <2>4. AreRunsOf(q, w)
        BY <2>1, <2>2, <2>3, NewFirstRunIs
    <2> QED BY <2>4, <1>8 DEF q, w, y
<1>13. CASE ~(RunStart(r, run) # pos \/ StyleOf(r, run) = 0) /\ run # 0
    <2> DEFINE k == run - 1
    <2>1. k \in 0 .. Runs(r) - 1 /\ k + 1 = run /\ k < run /\ y = StyleOf(r, k) /\ q = Grown(k)
        <3>1. k \in 0 .. Runs(r) - 1 /\ k + 1 = run /\ k < run
            BY <1>6, <1>13
        <3>2. y = StyleOf(r, k) /\ q = Grown(k)
            BY <1>4, <1>5, <1>13
        <3> QED BY <3>1, <3>2
    <2> HIDE DEF k
    <2>2. RunStart(r, k) <= pos
        <3>1. k \in 0 .. Runs(r) /\ k <= run
            BY <2>1, <1>6
        <3>2. RunStart(r, k) <= RunStart(r, run)
            BY <3>1, <2>1, <1>1, <1>6, RunsInOrder
        <3> QED BY <3>2, <1>13
    <2>3. pos <= RunStart(r, k + 1)
        BY <2>1, <1>6, <1>13
    <2>4. AreRunsOf(q, w)
        BY <2>1, <2>2, <2>3, <1>10
    <2> QED BY <2>4, <1>8 DEF q, w, y
<1> QED BY <1>11, <1>12, <1>13

(***************************************************************************)
(* DeleteRange.                                                            *)
(***************************************************************************)

\* w is v without len values from pos on.
HasCut(w, v, pos, len) ==
    /\ w \in Seq(Int) /\ Len(w) = Len(v) - len
    /\ \A x \in 1 .. Len(v) - len : w[x] = IF x <= pos THEN v[x] ELSE v[x + len]

LEMMA RangeCutIs ==
    ASSUME NEW v \in Seq(Int), NEW pos \in Nat, NEW len \in Nat, pos + len <= Len(v)
    PROVE  HasCut(Deleted(v, pos, len), v, pos, len)
<1> DEFINE n == Len(v)
           k == pos + len
           a == SubSeq(v, 1, pos)
           b == SubSeq(v, k + 1, Len(v))
           w == a \o b
<1>1. n \in Nat /\ pos \in 0 .. n /\ k \in 0 .. n /\ k \in Int
    BY LenProperties
<1>2. a \in Seq(Int) /\ Len(a) = pos /\ \A i \in 1 .. pos : a[i] = v[i]
    BY <1>1, CutInTwo
<1>3. b \in Seq(Int) /\ Len(b) = n - k /\ \A i \in 1 .. n - k : b[i] = v[k + i]
    <2> HIDE DEF k
    <2> QED BY <1>1, CutInTwo
<1>4. w = Deleted(v, pos, len)
    BY DEF Deleted
<1> HIDE DEF a, b
<1>5. /\ w \in Seq(Int) /\ Len(w) = Len(a) + Len(b)
      /\ \A i \in 1 .. Len(a) : w[i] = a[i]
      /\ \A i \in Len(a) + 1 .. Len(a) + Len(b) : w[i] = b[i - Len(a)]
    <2>1. a \in Seq(Int) /\ b \in Seq(Int)
        BY <1>2, <1>3
    <2> QED BY <2>1, JoinIs
<1> HIDE DEF w
<1>6. Len(w) = n - len
    <2> HIDE DEF n
    <2> QED BY <1>1, <1>2, <1>3, <1>5 DEF k
<1>7. ASSUME NEW x \in 1 .. n - len
      PROVE  w[x] = IF x <= pos THEN v[x] ELSE v[x + len]
    <2>1. CASE x <= pos
        <3>1. x \in 1 .. pos /\ x \in 1 .. Len(a)
            BY <1>1, <1>2, <2>1
        <3> QED BY <3>1, <2>1, <1>2, <1>5
    <2>2. CASE ~(x <= pos)
        <3> DEFINE i == x - pos
        <3>1. i \in 1 .. n - k /\ x \in Len(a) + 1 .. Len(a) + Len(b) /\ k + i = x + len /\ i = x - Len(a)
            <4> HIDE DEF n
            <4> QED BY <1>1, <1>2, <1>3, <2>2 DEF k
        <3> HIDE DEF i
        <3>2. w[x] = b[i] /\ b[i] = v[k + i]
            BY <3>1, <1>3, <1>5
        <3> QED BY <3>1, <3>2, <2>2
    <2> QED BY <2>1, <2>2
<1>8. HasCut(w, v, pos, len)
    BY <1>5, <1>6, <1>7 DEF HasCut, n
<1> QED BY <1>4, <1>8

\* What goes is all in one run.
LEMMA ShrunkIs ==
    ASSUME NEW r, NEW v, AreRunsOf(r, v), NEW pos \in Nat, NEW len \in Nat \ {0}, NEW k,
           IsRunAt(r, k, pos), IsRunAt(r, k, pos + len), pos + len <= Len(v),
           NEW q, RunGrew(r, q, k, -len), NEW w, HasCut(w, v, pos, len)
    PROVE  /\ Holds(q, w) /\ DifferBut(q, w, {Len(w)})
           /\ k < Runs(r) - 1 => DifferBut(q, w, {})
<1> DEFINE n == Runs(r)
           z == Len(v)
           end == pos + len
<1>1. Holds(r, v) /\ DifferBut(r, v, {})
    BY DEF AreRunsOf
<1>2. /\ n \in Nat \ {0} /\ z \in Int
      /\ \A j \in 0 .. n : RunStart(r, j) \in Int
      /\ \A i, j \in 0 .. n - 1 : i <= j => RunStart(r, i) <= RunStart(r, j)
      /\ \A j \in 0 .. n : 0 <= RunStart(r, j) /\ RunStart(r, j) <= z
    BY <1>1, RunsInOrder
<1>3. /\ RunStart(r, 0) = 0 /\ RunStart(r, n) = z /\ StyleOf(r, n) = 0
      /\ \A i, j \in 0 .. n - 1 : i < j => RunStart(r, i) < RunStart(r, j)
      /\ \A j \in 0 .. n - 1 :
             \A x \in RunStart(r, j) .. RunStart(r, j + 1) - 1 : v[x + 1] = StyleOf(r, j)
    BY <1>1 DEF Holds, InOrder, Shows
<1>4. k \in 0 .. n - 1 /\ RunStart(r, k) <= pos /\ \A j \in k + 1 .. n - 1 : end < RunStart(r, j)
    BY DEF IsRunAt
<1>5. /\ IsRuns(q) /\ Runs(q) = n
      /\ \A j \in 0 .. n : /\ RunStart(q, j) = RunStart(r, j) + (IF j > k THEN -len ELSE 0)
                           /\ StyleOf(q, j) = StyleOf(r, j)
    BY DEF RunGrew
<1>6. /\ Len(w) = z - len
      /\ \A x \in 1 .. z - len : w[x] = IF x <= pos THEN v[x] ELSE v[x + len]
    BY DEF HasCut
<1> HIDE DEF n, z
<1>7. end \in Int /\ pos < end /\ end <= z /\ pos <= z - len /\ len \in Int /\ end = pos + len
    BY <1>2 DEF z
<1> HIDE DEF end
<1>8. ASSUME NEW j \in 0 .. n
      PROVE  /\ j <= k => RunStart(q, j) = RunStart(r, j) /\ RunStart(q, j) <= pos
             /\ j > k => RunStart(q, j) = RunStart(r, j) - len /\ RunStart(r, j) >= end
             /\ j > k /\ j # n => RunStart(r, j) > end
    <2>1. CASE j <= k
        <3>1. j \in 0 .. n - 1 /\ RunStart(r, j) \in Int /\ RunStart(r, k) \in Int /\ ~(j > k)
            BY <2>1, <1>2, <1>4
        <3>2. RunStart(r, j) <= RunStart(r, k)
            BY <3>1, <2>1, <1>2, <1>4
        <3>3. RunStart(q, j) = RunStart(r, j) + 0
            BY <3>1, <1>5
        <3> QED BY <3>1, <3>2, <3>3, <1>4
    <2>2. CASE j > k
        <3>1. RunStart(r, j) \in Int /\ ~(j <= k) /\ (j # n => j \in k + 1 .. n - 1)
            BY <2>2, <1>2, <1>4
        <3>2. RunStart(q, j) = RunStart(r, j) - len
            BY <3>1, <2>2, <1>5, <1>7
        <3>3. j # n => RunStart(r, j) > end
            BY <3>1, <1>4, <1>7
        <3>4. RunStart(r, j) >= end
            BY <3>1, <3>3, <1>3, <1>7
        <3> QED BY <3>1, <3>2, <3>3, <3>4
    <2> QED BY <2>1, <2>2, <1>2, <1>4
<1>9. RunStart(q, 0) = 0 /\ RunStart(q, n) = z - len /\ StyleOf(q, n) = 0
    <2>1. 0 \in 0 .. n /\ n \in 0 .. n /\ 0 <= k /\ n > k
        BY <1>2, <1>4
    <2> QED BY <2>1, <1>3, <1>5, <1>8
<1>10. ASSUME NEW i \in 0 .. n - 1, NEW j \in 0 .. n - 1, i < j
       PROVE  RunStart(q, i) < RunStart(q, j)
    <2>1. i \in 0 .. n /\ j \in 0 .. n /\ j # n
        BY <1>2
    <2>2. RunStart(r, i) < RunStart(r, j) /\ RunStart(r, i) \in Int /\ RunStart(r, j) \in Int
        BY <2>1, <1>2, <1>3, <1>10
    <2>3. CASE j <= k
        <3>1. i <= k
            BY <2>3, <1>2, <1>4, <1>10
        <3> QED BY <3>1, <2>1, <2>2, <2>3, <1>8
    <2>4. CASE i > k
        <3>1. j > k
            BY <2>4, <1>2, <1>4, <1>10
        <3>2. RunStart(q, i) = RunStart(r, i) - len /\ RunStart(q, j) = RunStart(r, j) - len
            BY <3>1, <2>1, <2>4, <1>8
        <3> QED BY <3>2, <2>2, <1>7
    <2>5. CASE i <= k /\ j > k
        <3>1. /\ RunStart(q, i) = RunStart(r, i) /\ RunStart(q, i) <= pos
              /\ RunStart(q, j) = RunStart(r, j) - len /\ RunStart(r, j) > end
            BY <2>1, <2>5, <1>8
        <3> QED BY <3>1, <2>2, <1>7
    <2> QED BY <2>3, <2>4, <2>5, <1>2, <1>4
<1>11. ASSUME NEW j \in 0 .. n - 1
       PROVE  RunStart(q, j) <= z - len /\ RunStart(q, j) \in Int
    <2>1. j \in 0 .. n /\ RunStart(r, j) \in Int /\ RunStart(r, j) <= z
        BY <1>2
    <2>2. CASE j <= k
        <3>1. RunStart(q, j) = RunStart(r, j) /\ RunStart(q, j) <= pos
            BY <2>1, <2>2, <1>8
        <3> QED BY <3>1, <2>1, <1>2, <1>7
    <2>3. CASE j > k
        <3>1. RunStart(q, j) = RunStart(r, j) - len
            BY <2>1, <2>3, <1>8
        <3> QED BY <3>1, <2>1, <1>2, <1>7
    <2> QED BY <2>2, <2>3, <1>2, <1>4
<1>12. ASSUME NEW j \in 0 .. n - 1, NEW x \in RunStart(q, j) .. RunStart(q, j + 1) - 1
       PROVE  w[x + 1] = StyleOf(q, j)
    <2> DEFINE i == j + 1
               e == x + 1
               a == RunStart(r, j)
               b == RunStart(r, i)
               c == RunStart(q, j)
               d == RunStart(q, i)
    <2>1. i \in 0 .. n /\ j \in 0 .. n
        BY <1>2
    <2>2. a \in Int /\ b \in Int /\ 0 <= a /\ b <= z /\ StyleOf(q, j) = StyleOf(r, j)
        BY <2>1, <1>2, <1>5
    <2>3. \A t \in a .. b - 1 : v[t + 1] = StyleOf(r, j)
        BY <1>3
    <2>4. x \in c .. d - 1
        BY <1>12
    <2>5. \A t \in 1 .. z - len : /\ t <= pos => w[t] = v[t]
                                  /\ ~(t <= pos) => w[t] = v[t + len]
        BY <1>6
    <2>6. \/ c = a /\ c <= pos /\ d = b /\ d <= pos
          \/ c = a /\ c <= pos /\ d = b - len
          \/ c = a - len /\ d = b - len /\ a >= end
        <3>1. CASE i <= k
            <4>1. j <= k
                BY <3>1, <1>2, <1>4
            <4> QED BY <3>1, <4>1, <2>1, <1>8
        <3>2. CASE j = k
            <4>1. j <= k /\ i > k
                BY <3>2, <1>2, <1>4
            <4> QED BY <4>1, <2>1, <1>8
        <3>3. CASE j > k
            <4>1. i > k
                BY <3>3, <1>2, <1>4
            <4> QED BY <3>3, <4>1, <2>1, <1>8
        <3> QED BY <3>1, <3>2, <3>3, <1>2, <1>4
    <2> HIDE DEF a, b, c, d, i
    <2>7. /\ x \in Int /\ e \in 1 .. z - len
          /\ e <= pos => x \in a .. b - 1
          /\ ~(e <= pos) => (x + len) \in a .. b - 1 /\ (x + len) + 1 = e + len
        <3>1. x \in Int /\ c <= x /\ x < d
            BY <2>2, <2>4, <2>6, <1>7
        <3>2. e = x + 1
            OBVIOUS
        <3>3. /\ a \in Int /\ b \in Int /\ 0 <= a /\ b <= z
              /\ z \in Int /\ len \in Int /\ len > 0 /\ pos \in Int /\ end = pos + len
              /\ pos <= z - len
            BY <2>2, <1>2, <1>7
        <3> HIDE DEF e
        <3>4. CASE c = a /\ c <= pos /\ d = b /\ d <= pos
            BY <3>1, <3>2, <3>3, <3>4
        <3>5. CASE c = a /\ c <= pos /\ d = b - len
            BY <3>1, <3>2, <3>3, <3>5
        <3>6. CASE c = a - len /\ d = b - len /\ a >= end
            BY <3>1, <3>2, <3>3, <3>6
        <3> QED BY <2>6, <3>4, <3>5, <3>6
    <2> DEFINE t == x + len
    <2> HIDE DEF e, t
    <2>8. CASE e <= pos
        <3>1. w[e] = v[e]
            BY <2>5, <2>7, <2>8
        <3>2. v[x + 1] = StyleOf(r, j)
            BY <2>3, <2>7, <2>8
        <3> QED BY <3>1, <3>2, <2>2 DEF e
    <2>9. CASE ~(e <= pos)
        <3>1. w[e] = v[e + len]
            BY <2>5, <2>7, <2>9
        <3>2. t \in a .. b - 1 /\ t + 1 = e + len
            BY <2>7, <2>9 DEF t
        <3>3. v[t + 1] = StyleOf(r, j)
            BY <3>2, <2>3
        <3> QED BY <3>1, <3>2, <3>3, <2>2 DEF e
    <2> QED BY <2>8, <2>9
<1>13. Holds(q, w)
    <2>1. InOrder(q) /\ Shows(q, w)
        BY <1>5, <1>9, <1>10, <1>12 DEF InOrder, Shows
    <2> QED BY <2>1, <1>5, <1>6, <1>9, <1>11 DEF Holds
<1>14. ASSUME NEW j \in 1 .. n - 1
       PROVE  /\ StyleOf(q, j) # StyleOf(q, j - 1)
              /\ RunStart(q, j) # z - len => RunStart(q, j) < z - len
              /\ k < n - 1 => RunStart(q, j) < z - len
    <2> DEFINE i == j - 1
    <2>1. j \in 0 .. n /\ i \in 0 .. n /\ j \in 0 .. n - 1 /\ j # n
        BY <1>2
    <2>2. RunStart(r, j) < z /\ StyleOf(r, j) # StyleOf(r, i)
        BY <1>1 DEF DifferBut, n, z
    <2>3. StyleOf(q, j) = StyleOf(r, j) /\ StyleOf(q, i) = StyleOf(r, i)
        BY <2>1, <1>5
    <2> HIDE DEF i
    <2>4. RunStart(q, j) <= z - len /\ RunStart(q, j) \in Int /\ RunStart(r, j) \in Int
        BY <2>1, <1>2, <1>11
    <2>5. ASSUME k < n - 1 PROVE RunStart(q, j) < z - len
        <3>1. CASE j > k
            <4>1. RunStart(q, j) = RunStart(r, j) - len
                BY <3>1, <2>1, <1>8
            <4> QED BY <4>1, <2>2, <2>4, <1>2, <1>7
        <3>2. CASE j <= k
            <4>1. k + 1 \in 0 .. n /\ k + 1 > k /\ k + 1 # n
                BY <2>5, <1>2, <1>4
            <4>2. RunStart(r, k + 1) > end /\ RunStart(r, k + 1) <= z /\ RunStart(r, k + 1) \in Int
                BY <4>1, <1>2, <1>8
            <4>3. RunStart(q, j) <= pos
                BY <3>2, <2>1, <1>8
            <4> QED BY <4>2, <4>3, <2>4, <1>2, <1>7
        <3> QED BY <3>1, <3>2, <1>2, <1>4
    <2>6. RunStart(q, j) # z - len => RunStart(q, j) < z - len
        BY <2>4, <1>2, <1>7
    <2> QED BY <2>2, <2>3, <2>5, <2>6 DEF i
<1>15. DifferBut(q, w, {Len(w)})
    BY <1>5, <1>6, <1>14 DEF DifferBut
<1>16. k < n - 1 => DifferBut(q, w, {})
    BY <1>5, <1>6, <1>14 DEF DifferBut
<1> QED BY <1>13, <1>15, <1>16 DEF n

\* Runs m to k - 1 of b go, of v what they hold: c is b with them emptied.
RunsTaken(b, v, pos, end, m, k, c, d) ==
    /\ Holds(b, v) /\ DifferBut(b, v, {pos, end}) /\ end <= Len(v)
    /\ m \in 0 .. Runs(b) - 1 /\ RunStart(b, m) = pos
    /\ k \in 0 .. Runs(b) - 1 /\ RunStart(b, k) = end /\ m < k
    /\ RunGrew(b, c, m, pos - end) /\ RunsWent(c, d, m, k - m)

RunsKept(d, w, pos, m) ==
    /\ Holds(d, w) /\ DifferBut(d, w, {pos})
    /\ m \in 0 .. Runs(d) - 1 /\ RunStart(d, m) = pos

LEMMA TakenIs ==
    ASSUME NEW b, NEW v, NEW pos \in Nat, NEW len \in Nat \ {0}, NEW m, NEW k, NEW c, NEW d,
           RunsTaken(b, v, pos, pos + len, m, k, c, d), NEW w, HasCut(w, v, pos, len)
    PROVE  RunsKept(d, w, pos, m)
<1>20. /\ Holds(b, v) /\ DifferBut(b, v, {pos, pos + len}) /\ pos + len <= Len(v)
       /\ m \in 0 .. Runs(b) - 1 /\ RunStart(b, m) = pos
       /\ k \in 0 .. Runs(b) - 1 /\ RunStart(b, k) = pos + len /\ m < k
       /\ RunsWent(c, d, m, k - m)
    BY DEF RunsTaken
<1>21. RunGrew(b, c, m, -len)
    <2>1. pos - (pos + len) = -len
        OBVIOUS
    <2>2. RunGrew(b, c, m, pos - (pos + len))
        BY DEF RunsTaken
    <2> QED BY <2>1, <2>2
<1> DEFINE n == Runs(b)
           z == Len(v)
           g == k - m
           h == n - g
           end == pos + len
<1>1. /\ n \in Nat \ {0} /\ z \in Int
      /\ \A j \in 0 .. n : RunStart(b, j) \in Int
      /\ \A i, j \in 0 .. n - 1 : i <= j => RunStart(b, i) <= RunStart(b, j)
      /\ \A j \in 0 .. n : 0 <= RunStart(b, j) /\ RunStart(b, j) <= z
    BY <1>20, RunsInOrder
<1>2. /\ RunStart(b, 0) = 0 /\ RunStart(b, n) = z /\ StyleOf(b, n) = 0
      /\ \A i, j \in 0 .. n - 1 : i < j => RunStart(b, i) < RunStart(b, j)
      /\ \A j \in 0 .. n - 1 :
             \A x \in RunStart(b, j) .. RunStart(b, j + 1) - 1 : v[x + 1] = StyleOf(b, j)
    BY <1>20 DEF Holds, InOrder, Shows
<1>3. /\ Runs(c) = n
      /\ \A j \in 0 .. n : /\ RunStart(c, j) = RunStart(b, j) + (IF j > m THEN -len ELSE 0)
                           /\ StyleOf(c, j) = StyleOf(b, j)
    BY <1>21 DEF RunGrew
<1>4. /\ IsRuns(d) /\ Runs(d) = h
      /\ \A j \in 0 .. h :
           /\ RunStart(d, j) = IF j < m THEN RunStart(c, j) ELSE RunStart(c, j + g)
           /\ StyleOf(d, j) = IF j < m THEN StyleOf(c, j) ELSE StyleOf(c, j + g)
    BY <1>3, <1>20 DEF RunsWent
<1>5. /\ Len(w) = z - len
      /\ \A x \in 1 .. z - len : /\ x <= pos => w[x] = v[x]
                                 /\ ~(x <= pos) => w[x] = v[x + len]
    BY DEF HasCut
<1>6. /\ m \in Int /\ k \in Int /\ g \in Int /\ g > 0 /\ m + g = k /\ h \in Int /\ m <= h - 1 /\ 0 <= m
      /\ h + g = n
    BY <1>1, <1>20
<1>7. end \in Int /\ pos < end /\ end <= z /\ len \in Int /\ end = pos + len /\ len > 0 /\ pos \in Int
    BY <1>1, <1>20
<1>8. /\ RunStart(b, m) = pos /\ RunStart(b, k) = end /\ DifferBut(b, v, {pos, end})
      /\ m \in 0 .. n - 1 /\ k \in 0 .. n - 1
    BY <1>20
<1> HIDE DEF n, z, g, h, end
<1>9. ASSUME NEW j \in 0 .. h, j < m
      PROVE  RunStart(d, j) = RunStart(b, j) /\ StyleOf(d, j) = StyleOf(b, j) /\ j \in 0 .. n - 1
    <2>1. j \in 0 .. n /\ ~(j > m) /\ j \in 0 .. n - 1
        BY <1>1, <1>6, <1>9
    <2>2. RunStart(d, j) = RunStart(c, j) /\ StyleOf(d, j) = StyleOf(c, j)
        BY <1>4, <1>9
    <2>3. RunStart(c, j) = RunStart(b, j) + 0 /\ StyleOf(c, j) = StyleOf(b, j)
        BY <2>1, <1>3
    <2>4. RunStart(b, j) \in Int
        BY <2>1, <1>1
    <2> QED BY <2>1, <2>2, <2>3, <2>4
<1>10. ASSUME NEW j \in 0 .. h, ~(j < m)
       PROVE  /\ RunStart(d, j) = RunStart(b, j + g) - len /\ StyleOf(d, j) = StyleOf(b, j + g)
              /\ j + g \in 0 .. n /\ j + g >= k /\ (j # h => j + g \in 0 .. n - 1)
    <2> DEFINE i == j + g
    <2>1. i \in 0 .. n /\ i > m /\ i >= k /\ (j # h => i \in 0 .. n - 1)
        BY <1>1, <1>6, <1>10
    <2>2. RunStart(d, j) = RunStart(c, i) /\ StyleOf(d, j) = StyleOf(c, i)
        BY <1>4, <1>10
    <2> HIDE DEF i
    <2>3. RunStart(c, i) = RunStart(b, i) + -len /\ StyleOf(c, i) = StyleOf(b, i)
        BY <2>1, <1>3
    <2>4. RunStart(b, i) \in Int
        BY <2>1, <1>1
    <2>5. RunStart(d, j) = RunStart(b, i) - len
        BY <2>2, <2>3, <2>4, <1>7
    <2> QED BY <2>1, <2>2, <2>3, <2>5 DEF i
<1>11. RunStart(d, m) = pos /\ m \in 0 .. h - 1 /\ m \in 0 .. h
    <2>1. m \in 0 .. h /\ ~(m < m) /\ m \in 0 .. h - 1
        BY <1>6
    <2>2. RunStart(d, m) = RunStart(b, m + g) - len
        BY <2>1, <1>10
    <2>3. RunStart(b, m + g) = end
        BY <1>6, <1>8
    <2> QED BY <2>1, <2>2, <2>3, <1>7
<1>12. RunStart(d, 0) = 0
    <2>1. CASE m = 0
        BY <2>1, <1>2, <1>8, <1>11
    <2>2. CASE m # 0
        <3>1. 0 \in 0 .. h /\ 0 < m
            BY <2>2, <1>6
        <3> QED BY <3>1, <1>2, <1>9
    <2> QED BY <2>1, <2>2
<1>13. RunStart(d, h) = z - len /\ StyleOf(d, h) = 0
    <2>1. h \in 0 .. h /\ ~(h < m)
        BY <1>6
    <2>2. RunStart(d, h) = RunStart(b, h + g) - len /\ StyleOf(d, h) = StyleOf(b, h + g)
        BY <2>1, <1>10
    <2> QED BY <2>2, <1>2, <1>6
<1>14. ASSUME NEW j \in 0 .. h - 1
       PROVE  /\ RunStart(d, j) \in Int
              /\ j < m => RunStart(d, j) < pos
              /\ j = m => RunStart(d, j) = pos
              /\ j > m => RunStart(d, j) > pos
              /\ RunStart(d, j) <= z - len
    <2>1. j \in 0 .. h
        BY <1>6
    <2>2. CASE j < m
        <3>1. RunStart(d, j) = RunStart(b, j) /\ j \in 0 .. n - 1 /\ j \in 0 .. n
            <4>1. RunStart(d, j) = RunStart(b, j) /\ j \in 0 .. n - 1
                BY <2>1, <2>2, <1>9
            <4> QED BY <4>1, <1>1
        <3>2. RunStart(b, j) < RunStart(b, m) /\ RunStart(b, j) \in Int
            BY <3>1, <2>2, <1>1, <1>2, <1>8
        <3> QED BY <3>1, <3>2, <2>2, <1>6, <1>7, <1>8, <1>1
    <2>3. CASE ~(j < m)
        <3> DEFINE i == j + g
        <3>1. RunStart(d, j) = RunStart(b, i) - len /\ i \in 0 .. n - 1 /\ i \in 0 .. n
            <4>1. RunStart(d, j) = RunStart(b, i) - len /\ i \in 0 .. n /\ (j # h => i \in 0 .. n - 1)
                BY <2>1, <2>3, <1>10
            <4>2. j # h
                BY <1>6
            <4> QED BY <4>1, <4>2
        <3>2. RunStart(b, i) \in Int /\ RunStart(b, i) <= z
            BY <3>1, <1>1
        <3>3. j = m \/ j > m
            BY <2>3, <1>6
        <3>4. CASE j > m
            <4>1. i > k
                BY <3>4, <1>6
            <4> HIDE DEF i
            <4>2. RunStart(b, k) < RunStart(b, i)
                BY <3>1, <4>1, <1>2, <1>8
            <4> QED BY <3>1, <3>2, <3>4, <4>2, <1>1, <1>6, <1>7, <1>8
        <3>5. CASE j = m
            <4> HIDE DEF i
            <4> QED BY <3>1, <3>2, <3>5, <1>1, <1>6, <1>7, <1>11
        <3> QED BY <3>3, <3>4, <3>5
    <2> QED BY <2>2, <2>3
<1>15. ASSUME NEW i \in 0 .. h - 1, NEW j \in 0 .. h - 1, i < j
       PROVE  RunStart(d, i) < RunStart(d, j)
    <2>1. i \in 0 .. h /\ j \in 0 .. h /\ i \in Int /\ j \in Int
        BY <1>6
    <2>2. /\ RunStart(d, i) \in Int /\ RunStart(d, j) \in Int
          /\ i < m => RunStart(d, i) < pos
          /\ j >= m => RunStart(d, j) >= pos
        BY <1>14, <1>6, <1>7
    <2>3. CASE i < m /\ j >= m
        BY <2>2, <2>3, <1>7
    <2>4. CASE j < m
        <3>1. i < m
            BY <2>1, <2>4, <1>6, <1>15
        <3>2. RunStart(d, i) = RunStart(b, i) /\ i \in 0 .. n - 1
            BY <2>1, <3>1, <1>9
        <3>3. RunStart(d, j) = RunStart(b, j) /\ j \in 0 .. n - 1
            BY <2>1, <2>4, <1>9
        <3> QED BY <3>2, <3>3, <1>2, <1>15
    <2>5. CASE ~(i < m)
        <3> DEFINE x == i + g
                   y == j + g
        <3>1. ~(j < m) /\ i # h /\ j # h /\ x < y
            BY <2>1, <2>5, <1>6, <1>15
        <3>2. RunStart(d, i) = RunStart(b, x) - len /\ x \in 0 .. n - 1
            BY <2>1, <2>5, <3>1, <1>10
        <3>3. RunStart(d, j) = RunStart(b, y) - len /\ y \in 0 .. n - 1
            BY <2>1, <3>1, <1>10
        <3> HIDE DEF x, y
        <3>4. RunStart(b, x) < RunStart(b, y) /\ x \in 0 .. n /\ y \in 0 .. n
            BY <3>1, <3>2, <3>3, <1>1, <1>2
        <3>5. RunStart(b, x) \in Int /\ RunStart(b, y) \in Int
            BY <3>4, <1>1
        <3> QED BY <3>2, <3>3, <3>4, <3>5, <1>7
    <2> QED BY <2>1, <2>3, <2>4, <2>5, <1>6
<1>16. ASSUME NEW j \in 0 .. h - 1, NEW x \in RunStart(d, j) .. RunStart(d, j + 1) - 1
       PROVE  w[x + 1] = StyleOf(d, j)
    <2> DEFINE i == j + 1
               e == x + 1
    <2>1. i \in 0 .. h /\ j \in 0 .. h /\ j \in Int /\ j # h
        BY <1>6
    <2>2. RunStart(d, j) \in Int /\ x \in RunStart(d, j) .. RunStart(d, i) - 1
        BY <1>14, <1>16
    <2>3. CASE j < m
        <3>1. RunStart(d, j) = RunStart(b, j) /\ StyleOf(d, j) = StyleOf(b, j) /\ j \in 0 .. n - 1
            BY <2>1, <2>3, <1>9
        <3>2. RunStart(d, i) = RunStart(b, i) /\ RunStart(b, i) <= pos /\ RunStart(b, i) \in Int
            <4>1. CASE i < m
                <5>1. RunStart(d, i) = RunStart(b, i) /\ i \in 0 .. n - 1
                    BY <2>1, <4>1, <1>9
                <5>2. i \in 0 .. h - 1
                    BY <2>1, <4>1, <1>6
                <5>3. RunStart(d, i) < pos /\ RunStart(d, i) \in Int
                    BY <4>1, <5>2, <1>14
                <5> QED BY <5>1, <5>3, <1>7
            <4>2. CASE i = m
                BY <4>2, <1>7, <1>8, <1>11
            <4> QED BY <4>1, <4>2, <2>1, <2>3, <1>6
        <3>3. 0 <= RunStart(b, j)
            <4>1. j \in 0 .. n
                BY <3>1, <1>1
            <4> QED BY <4>1, <1>1
        <3> DEFINE lo == RunStart(b, j)
                   hi == RunStart(b, i)
        <3>4. x \in lo .. hi - 1 /\ v[x + 1] = StyleOf(b, j)
            BY <2>2, <3>1, <3>2, <1>2
        <3>5. hi <= pos /\ hi \in Int /\ lo \in Int /\ 0 <= lo
            BY <2>2, <3>1, <3>2, <3>3
        <3> HIDE DEF lo, hi
        <3>6. e \in 1 .. z - len /\ e <= pos
            BY <3>4, <3>5, <1>1, <1>7
        <3>7. w[e] = v[e]
            <4> HIDE DEF e
            <4> QED BY <3>6, <1>5
        <3> QED BY <3>1, <3>4, <3>7
    <2>4. CASE ~(j < m)
        <3> DEFINE y == j + g
                   f == i + g
                   lo == RunStart(b, y)
                   hi == RunStart(b, f)
                   t == x + len
        <3>1. RunStart(d, j) = lo - len /\ StyleOf(d, j) = StyleOf(b, y) /\ y \in 0 .. n - 1 /\ y \in 0 .. n /\ y >= k
            BY <2>1, <2>4, <1>10
        <3>2. RunStart(d, i) = hi - len /\ f \in 0 .. n
            <4>1. ~(i < m)
                BY <2>1, <2>4, <1>6
            <4> HIDE DEF i
            <4> QED BY <2>1, <4>1, <1>10
        <3>3. f = y + 1
            BY <2>1, <1>6
        <3>4. lo \in Int /\ hi \in Int /\ hi <= z
            <4> HIDE DEF y, f
            <4> QED BY <3>1, <3>2, <1>1
        <3>5. end <= lo
            <4> HIDE DEF y, f
            <4>1. RunStart(b, k) <= RunStart(b, y)
                BY <3>1, <1>1, <1>8
            <4> QED BY <4>1, <1>8
        <3>6. \A q \in lo .. hi - 1 : v[q + 1] = StyleOf(b, y)
            <4> HIDE DEF y, f
            <4> QED BY <3>1, <3>3, <1>2
        <3>7. x \in lo - len .. hi - len - 1
            <4> HIDE DEF y, f, lo, hi
            <4>1. x \in RunStart(d, j) .. RunStart(d, i) - 1
                BY <2>2
            <4> QED BY <4>1, <3>1, <3>2, <3>4
        <3> HIDE DEF y, f, lo, hi
        <3>8. t \in lo .. hi - 1 /\ t + 1 = e + len /\ e \in 1 .. z - len /\ ~(e <= pos)
            BY <3>4, <3>5, <3>7, <1>1, <1>7
        <3> HIDE DEF t, e
        <3>9. w[e] = v[e + len]
            BY <3>8, <1>5
        <3>10. v[t + 1] = StyleOf(b, y)
            BY <3>6, <3>8
        <3>11. w[e] = StyleOf(d, j)
            BY <3>1, <3>8, <3>9, <3>10
        <3> QED BY <3>11 DEF e
    <2> QED BY <2>3, <2>4
<1>17. Holds(d, w)
    <2>1. InOrder(d) /\ Shows(d, w)
        BY <1>4, <1>12, <1>15, <1>16 DEF InOrder, Shows
    <2> QED BY <2>1, <1>4, <1>5, <1>13, <1>14 DEF Holds
<1>18. ASSUME NEW j \in 1 .. h - 1
       PROVE  \/ RunStart(d, j) \in {pos}
              \/ RunStart(d, j) < z - len /\ StyleOf(d, j) # StyleOf(d, j - 1)
    <2> DEFINE i == j - 1
    <2>1. j \in 0 .. h /\ i \in 0 .. h /\ j \in 0 .. h - 1 /\ j # h /\ i # h
        BY <1>6
    <2>2. CASE j < m
        <3>1. i < m /\ j \in 1 .. n - 1
            BY <2>1, <2>2, <1>1, <1>6
        <3>2. RunStart(d, j) = RunStart(b, j) /\ StyleOf(d, j) = StyleOf(b, j)
            BY <2>1, <2>2, <1>9
        <3>3. StyleOf(d, i) = StyleOf(b, i)
            BY <2>1, <3>1, <1>9
        <3>4. RunStart(d, j) < pos /\ RunStart(d, j) \in Int
            BY <2>1, <2>2, <1>14
        <3>5. RunStart(b, j) \notin {pos, end}
            BY <3>2, <3>4, <1>7
        <3>6. StyleOf(b, j) # StyleOf(b, i)
            BY <3>1, <3>5, <1>8 DEF DifferBut, n
        <3> QED BY <3>2, <3>3, <3>4, <3>6, <1>1, <1>7
    <2>3. CASE j = m
        BY <2>3, <1>11
    <2>4. CASE j > m
        <3> DEFINE y == j + g
                   f == i + g
        <3>1. ~(j < m) /\ ~(i < m) /\ f = y - 1 /\ y > k
            BY <2>1, <2>4, <1>6
        <3>2. RunStart(d, j) = RunStart(b, y) - len /\ StyleOf(d, j) = StyleOf(b, y) /\ y \in 0 .. n - 1
            BY <2>1, <3>1, <1>10
        <3>3. StyleOf(d, i) = StyleOf(b, f)
            <4> HIDE DEF i
            <4> QED BY <2>1, <3>1, <1>10
        <3> HIDE DEF y, f
        <3>4. y \in 1 .. n - 1 /\ y \in 0 .. n
            BY <3>1, <3>2, <1>1, <1>6
        <3>5. RunStart(b, k) < RunStart(b, y) /\ RunStart(b, y) \in Int
            BY <3>1, <3>2, <3>4, <1>1, <1>2, <1>8
        <3>6. RunStart(b, y) \notin {pos, end}
            BY <3>5, <1>7, <1>8
        <3>7. RunStart(b, y) < z /\ StyleOf(b, y) # StyleOf(b, y - 1)
            BY <3>4, <3>6, <1>8 DEF DifferBut, n, z
        <3>8. StyleOf(d, j) # StyleOf(d, i)
            BY <3>1, <3>2, <3>3, <3>7
        <3> QED BY <3>2, <3>5, <3>7, <3>8, <1>1, <1>7
    <2> QED BY <2>1, <2>2, <2>3, <2>4, <1>6
<1>19. DifferBut(d, w, {pos})
    BY <1>4, <1>5, <1>18 DEF DifferBut
<1> QED BY <1>4, <1>11, <1>17, <1>19 DEF RunsKept

LEMMA BothSplit ==
    ASSUME NEW r, NEW v, AreRunsOf(r, v), NEW pos \in Nat, NEW end \in Nat, pos < end, end <= Len(v),
           NEW a, a = SplitRun(r, pos), NEW m, m = RunAfterSplit(r, pos),
           NEW b, b = SplitRun(a, end), NEW k, k = RunAfterSplit(a, end)
    PROVE  /\ Holds(b, v) /\ DifferBut(b, v, {pos, end})
           /\ m \in 0 .. Runs(b) - 1 /\ RunStart(b, m) = pos
           /\ k \in 0 .. Runs(b) - 1 /\ RunStart(b, k) = end /\ m < k
<1>1. Holds(r, v) /\ DifferBut(r, v, {}) /\ pos <= Len(v) /\ Len(v) \in Int
    <2>1. Holds(r, v) /\ DifferBut(r, v, {})
        BY DEF AreRunsOf
    <2>2. Len(v) \in Int
        BY <2>1, RunsInOrder
    <2> QED BY <2>1, <2>2
<1>2. SplitAt(r, a, m, pos)
    BY <1>1, SplitIs
<1>3. Holds(a, v) /\ m \in 0 .. Runs(a) - 1 /\ RunStart(a, m) = pos
    BY <1>1, <1>2, SplitKeeps
<1>4. DifferBut(a, v, {pos})
    <2> DEFINE E == {}
    <2>1. DifferBut(r, v, E)
        BY <1>1
    <2> HIDE DEF E
    <2>2. DifferBut(a, v, E \cup {pos})
        BY <2>1, <1>1, <1>2, SplitDiffers
    <2>3. E \cup {pos} \subseteq {pos}
        BY DEF E
    <2> QED BY <2>2, <2>3, DifferLess
<1>5. SplitAt(a, b, k, end)
    BY <1>3, SplitIs
<1>6. Holds(b, v) /\ k \in 0 .. Runs(b) - 1 /\ RunStart(b, k) = end
    BY <1>3, <1>5, SplitKeeps
<1>7. DifferBut(b, v, {pos, end})
    <2> DEFINE E == {pos}
    <2>1. DifferBut(a, v, E)
        BY <1>4
    <2> HIDE DEF E
    <2>2. DifferBut(b, v, E \cup {end})
        BY <2>1, <1>3, <1>5, SplitDiffers
    <2>3. E \cup {end} \subseteq {pos, end}
        BY DEF E
    <2> QED BY <2>2, <2>3, DifferLess
<1>8. RunStart(b, m) = pos /\ m \in 0 .. Runs(b) - 1
    <2>1. CASE b = a
        BY <2>1, <1>3
    <2>2. CASE b # a
        <3> DEFINE i == k - 1
        <3>1. IsRunAt(a, i, end) /\ k \in 1 .. Runs(a) /\ RunCame(a, b, k, end, StyleOf(a, k - 1))
            BY <2>2, <1>5 DEF SplitAt
        <3>2. Runs(b) = Runs(a) + 1 /\ Runs(a) \in Nat
            BY <3>1, <1>3, RunsInOrder DEF RunCame
        <3>3. m < k
            <4>1. CASE k <= m
                <5>1. m \in i + 1 .. Runs(a) - 1
                    BY <4>1, <3>1, <3>2, <1>3
                <5>2. end < RunStart(a, m)
                    BY <5>1, <3>1 DEF IsRunAt
                <5> QED BY <5>2, <1>3
            <4> QED BY <4>1, <3>1, <1>3
        <3>4. m \in 0 .. Runs(b) - 1 /\ m \in 0 .. Runs(b)
            BY <3>2, <1>3
        <3>5. RunStart(b, m) = RunStart(a, m)
            BY <3>1, <3>3, <3>4 DEF RunCame
        <3> QED BY <3>4, <3>5, <1>3
    <2> QED BY <2>1, <2>2
<1>9. m < k
    <2>1. CASE k <= m
        <3>1. RunStart(b, k) <= RunStart(b, m)
            BY <2>1, <1>6, <1>8, RunsInOrder
        <3> QED BY <3>1, <1>6, <1>8
    <2>2. Runs(b) \in Nat
        BY <1>6, RunsInOrder
    <2> QED BY <2>1, <2>2, <1>6, <1>8
<1> QED BY <1>6, <1>7, <1>8, <1>9

\* What is left of what was taken, and whether it differs from the run before.
LEMMA TidiedIs ==
    ASSUME NEW d, NEW w, Holds(d, w), NEW pos, DifferBut(d, w, {pos}),
           NEW m \in 0 .. Runs(d) - 1, RunStart(d, m) = pos
    PROVE  AreRunsOf(RemoveRunIfSameAsPrevious(RemoveRunIfEmpty(d, m), m), w)
<1> DEFINE e == RemoveRunIfEmpty(d, m)
           q == RemoveRunIfSameAsPrevious(e, m)
           E == {pos}
<1>1. /\ Runs(d) \in Nat \ {0} /\ Len(w) \in Int /\ m \in 0 .. Runs(d) /\ IsRuns(d)
      /\ RunStart(d, m) \in Int
    BY RunsInOrder DEF Holds
<1>2. DifferBut(d, w, E)
    OBVIOUS
<1> HIDE DEF E
<1>3. LET f == RemoveRunIfEmpty(d, m)
      IN  /\ Holds(f, w) /\ DifferBut(f, w, E)
          /\ m = Runs(d) - 1 => DifferBut(f, w, E \ {Len(w)})
    BY <1>1, <1>2, EmptyGoes
<1>4. /\ Holds(e, w) /\ DifferBut(e, w, E)
      /\ m = Runs(d) - 1 => DifferBut(e, w, E \ {Len(w)})
    BY <1>3
<1>5. m \in 0 .. Runs(e) /\ RunStart(e, m) = pos
    <2>1. CASE m < Runs(d) /\ Runs(d) > 1 /\ RunStart(d, m) = RunStart(d, m + 1)
        <3>1. e = RemoveRun(d, m)
            BY <2>1 DEF RemoveRunIfEmpty
        <3> HIDE DEF e
        <3>2. RunsWent(d, e, m, 1)
            BY <3>1, <2>1, <1>1, RunGoes
        <3>3. Runs(e) = Runs(d) - 1
            BY <3>2 DEF RunsWent
        <3>4. m \in 0 .. Runs(e) /\ ~(m < m)
            BY <3>3, <1>1
        <3>5. RunStart(e, m) = RunStart(d, m + 1)
            BY <3>2, <3>4 DEF RunsWent
        <3> QED BY <3>4, <3>5, <2>1
    <2>2. CASE ~(m < Runs(d) /\ Runs(d) > 1 /\ RunStart(d, m) = RunStart(d, m + 1))
        <3>1. e = d
            BY <2>2 DEF RemoveRunIfEmpty
        <3> QED BY <3>1, <1>1
    <2> QED BY <2>1, <2>2
<1> HIDE DEF e
<1>6. CASE pos = Len(w)
    <2>1. m = Runs(d) - 1
        <3>1. CASE m < Runs(d) - 1
            <4> DEFINE i == m + 1
            <4>1. i \in 0 .. Runs(d) - 1 /\ m < i /\ i \in 0 .. Runs(d)
                BY <3>1, <1>1
            <4> HIDE DEF i
            <4>2. RunStart(d, m) < RunStart(d, i) /\ RunStart(d, i) <= Len(w) /\ RunStart(d, i) \in Int
                BY <4>1, RunsInOrder DEF Holds, InOrder
            <4> QED BY <4>2, <1>1, <1>6
        <3> QED BY <3>1, <1>1
    <2> DEFINE F == E \ {Len(w)}
    <2>2. DifferBut(e, w, F)
        BY <2>1, <1>4
    <2> HIDE DEF F
    <2>3. Merged(e, q, w, F, m)
        BY <2>2, <1>4, <1>5, SameGoes
    <2>4. F = {}
        BY <1>6 DEF F, E
    <2>5. Holds(q, w) /\ DifferBut(q, w, F \ ({RunStart(e, m)} \ {Len(w)}))
        BY <2>3 DEF Merged
    <2>6. F \ ({RunStart(e, m)} \ {Len(w)}) \subseteq {}
        BY <2>4
    <2>7. DifferBut(q, w, {})
        BY <2>5, <2>6, DifferLess
    <2> QED BY <2>5, <2>7 DEF AreRunsOf, e
<1>7. CASE pos # Len(w)
    <2>1. Merged(e, q, w, E, m)
        BY <1>4, <1>5, SameGoes
    <2>2. Holds(q, w) /\ DifferBut(q, w, E \ ({RunStart(e, m)} \ {Len(w)}))
        BY <2>1 DEF Merged
    <2>3. E \ ({RunStart(e, m)} \ {Len(w)}) \subseteq {}
        BY <1>5, <1>7 DEF E
    <2>4. DifferBut(q, w, {})
        BY <2>2, <2>3, DifferLess
    <2> QED BY <2>2, <2>4 DEF AreRunsOf, e
<1> QED BY <1>6, <1>7

LEMMA DeleteRangeIs ==
    ASSUME NEW r, NEW v \in Seq(Int), AreRunsOf(r, v), NEW pos \in Nat, NEW len \in Nat \ {0},
           pos + len <= Len(v), len < Len(v)
    PROVE  AreRunsOf(DeleteRange(r, pos, len), Deleted(v, pos, len))
<1> DEFINE end == pos + len
           first == RunFromPosition(r, pos)
           last == RunFromPosition(r, end)
           a == SplitRun(r, pos)
           b == SplitRun(a, end)
           m == RunAfterSplit(r, pos)
           k == RunAfterSplit(a, end)
           w == Deleted(v, pos, len)
           Shrunk(s, i) == [s EXCEPT !.starts = InsertText(@, i, -len)]
           g == Shrunk(r, first)
           c == Shrunk(b, m)
           d == RemoveRuns(c, m, k - m)
<1>1. /\ Holds(r, v) /\ IsRuns(r) /\ end \in Nat /\ pos < end /\ end <= Len(v) /\ -len \in Int
      /\ Runs(r) \in Nat \ {0} /\ Len(v) \in Int
    <2>1. Holds(r, v) /\ IsRuns(r)
        BY DEF AreRunsOf, Holds
    <2>2. Runs(r) \in Nat \ {0} /\ Len(v) \in Int
        BY <2>1, RunsInOrder
    <2> QED BY <2>1, <2>2
<1>2. DeleteRange(r, pos, len) =
          IF first = last THEN RemoveRunIfEmpty(g, first)
          ELSE RemoveRunIfSameAsPrevious(RemoveRunIfEmpty(d, m), m)
    BY DEF DeleteRange
<1>3. HasCut(w, v, pos, len)
    BY RangeCutIs
<1>4. IsRunAt(r, first, pos) /\ IsRunAt(r, last, end)
    BY <1>1, RunFound
<1> HIDE DEF first, last, w
<1>5. CASE first = last
    <2>1. first \in 0 .. Runs(r) - 1 /\ first \in 0 .. Runs(r)
        BY <1>1, <1>4 DEF IsRunAt
    <2>2. RunGrew(r, g, first, -len)
        BY <2>1, <1>1, RunGrows
    <2> HIDE DEF g
    <2>3. IsRunAt(r, first, pos + len)
        BY <1>4, <1>5 DEF end
    <2>4. /\ Holds(g, w) /\ DifferBut(g, w, {Len(w)})
          /\ first < Runs(r) - 1 => DifferBut(g, w, {})
        BY <2>2, <2>3, <1>3, <1>4, ShrunkIs
    <2>5. Runs(g) = Runs(r)
        BY <2>2 DEF RunGrew
    <2> DEFINE q == RemoveRunIfEmpty(g, first)
               E == IF first < Runs(r) - 1 THEN {} ELSE {Len(w)}
    <2>6. DifferBut(g, w, E)
        BY <2>4
    <2> HIDE DEF E
    <2>7. LET f == RemoveRunIfEmpty(g, first)
          IN  /\ Holds(f, w) /\ DifferBut(f, w, E)
              /\ first = Runs(g) - 1 => DifferBut(f, w, E \ {Len(w)})
        BY <2>1, <2>4, <2>5, <2>6, EmptyGoes
    <2>8. /\ Holds(q, w) /\ DifferBut(q, w, E)
          /\ first = Runs(g) - 1 => DifferBut(q, w, E \ {Len(w)})
        BY <2>7
    <2> HIDE DEF q
    <2>9. DifferBut(q, w, {})
        <3>1. CASE first < Runs(r) - 1
            BY <3>1, <2>8 DEF E
        <3>2. CASE ~(first < Runs(r) - 1)
            <4>1. first = Runs(g) - 1
                BY <3>2, <2>1, <2>5, <1>1
            <4>2. E \ {Len(w)} \subseteq {}
                BY <3>2 DEF E
            <4> QED BY <4>1, <4>2, <2>8, DifferLess
        <3> QED BY <3>1, <3>2
    <2> QED BY <2>8, <2>9, <1>2, <1>5 DEF AreRunsOf, q, w
<1>6. CASE first # last
    <2>1. /\ Holds(b, v) /\ DifferBut(b, v, {pos, end})
          /\ m \in 0 .. Runs(b) - 1 /\ RunStart(b, m) = pos
          /\ k \in 0 .. Runs(b) - 1 /\ RunStart(b, k) = end /\ m < k
        <3> HIDE DEF end
        <3> QED BY <1>1, BothSplit
    <2> HIDE DEF a, b, m, k
    <2>2. Runs(b) \in Nat /\ IsRuns(b)
        BY <2>1, RunsInOrder DEF Holds
    <2>3. m \in 0 .. Runs(b)
        BY <2>1, <2>2
    <2>4. RunGrew(b, c, m, -len)
        BY <2>2, <2>3, <1>1, RunGrows
    <2> HIDE DEF c
    <2>5. IsRuns(c) /\ Runs(c) = Runs(b)
        BY <2>4 DEF RunGrew
    <2>6. m \in Nat /\ k - m \in Nat /\ k - m < Runs(c) /\ m + (k - m) <= Runs(c)
        BY <2>1, <2>2, <2>5
    <2> DEFINE i == k - m
    <2>7. RunsWent(c, d, m, i)
        <3> HIDE DEF i
        <3>1. i \in Nat /\ i < Runs(c) /\ m + i <= Runs(c)
            BY <2>6 DEF i
        <3>2. RunsWent(c, RemoveRuns(c, m, i), m, i)
            BY <3>1, <2>5, <2>6, RunsGo
        <3> QED BY <3>2 DEF i
    <2>8. RunsKept(d, w, pos, m)
        <3> HIDE DEF d
        <3>1. end = pos + len /\ pos - end = -len
            OBVIOUS
        <3>2. RunGrew(b, c, m, pos - end)
            BY <3>1, <2>4
        <3>3. RunsTaken(b, v, pos, end, m, k, c, d)
            <4> HIDE DEF end
            <4> QED BY <3>2, <2>1, <2>7, <1>1 DEF RunsTaken
        <3>4. RunsTaken(b, v, pos, pos + len, m, k, c, d)
            BY <3>1, <3>3
        <3> QED BY <3>4, <1>3, TakenIs
    <2> HIDE DEF d
    <2>9. AreRunsOf(RemoveRunIfSameAsPrevious(RemoveRunIfEmpty(d, m), m), w)
        BY <2>8, TidiedIs DEF RunsKept
    <2> QED BY <2>9, <1>2, <1>6 DEF w
<1> QED BY <1>5, <1>6

(***************************************************************************)
(* The decorations.                                                        *)
(***************************************************************************)

AllZero(v) == \A x \in 1 .. Len(v) : v[x] = 0

LEMMA EmptyIsZero ==
    ASSUME NEW r, NEW v \in Seq(Int), AreRunsOf(r, v), Len(v) > 0
    PROVE  IsEmptyDecoration(r) <=> AllZero(v)
<1> DEFINE n == Runs(r)
           z == Len(v)
<1>1. Holds(r, v) /\ DifferBut(r, v, {})
    BY DEF AreRunsOf
<1>2. /\ n \in Nat \ {0} /\ z \in Int /\ z > 0
      /\ \A j \in 0 .. n : RunStart(r, j) \in Int
      /\ \A j \in 0 .. n : 0 <= RunStart(r, j) /\ RunStart(r, j) <= z
    BY <1>1, RunsInOrder
<1>3. /\ RunStart(r, 0) = 0 /\ RunStart(r, n) = z
      /\ \A i, j \in 0 .. n - 1 : i < j => RunStart(r, i) < RunStart(r, j)
      /\ \A j \in 0 .. n - 1 :
             \A x \in RunStart(r, j) .. RunStart(r, j + 1) - 1 : v[x + 1] = StyleOf(r, j)
      /\ \A j \in 1 .. n - 1 : RunStart(r, j) < z /\ StyleOf(r, j) # StyleOf(r, j - 1)
    BY <1>1 DEF Holds, InOrder, Shows, DifferBut
<1> HIDE DEF n, z
<1>4. ASSUME NEW j \in 0 .. n - 1
      PROVE  RunStart(r, j) < RunStart(r, j + 1) /\ v[RunStart(r, j) + 1] = StyleOf(r, j)
             /\ RunStart(r, j) + 1 \in 1 .. z
    <2> DEFINE i == j + 1
    <2>1. i \in 0 .. n /\ j \in 0 .. n
        BY <1>2
    <2>2. RunStart(r, j) < RunStart(r, i)
        <3>1. CASE i = n
            <4>1. RunStart(r, j) < z
                <5>1. CASE j = 0
                    BY <5>1, <1>2, <1>3
                <5>2. CASE j # 0
                    <6>1. j \in 1 .. n - 1
                        BY <5>2, <1>2
                    <6> QED BY <6>1, <1>3
                <5> QED BY <5>1, <5>2
            <4> QED BY <4>1, <3>1, <1>3
        <3>2. CASE i # n
            <4>1. i \in 0 .. n - 1 /\ j < i
                BY <3>2, <1>2
            <4> HIDE DEF i
            <4> QED BY <4>1, <1>3
        <3> QED BY <3>1, <3>2
    <2>3. RunStart(r, j) \in Int /\ RunStart(r, i) \in Int /\ 0 <= RunStart(r, j) /\ RunStart(r, i) <= z
        <3> HIDE DEF i
        <3> QED BY <2>1, <1>2
    <2>4. RunStart(r, j) \in RunStart(r, j) .. RunStart(r, j + 1) - 1
        BY <2>2, <2>3
    <2>5. RunStart(r, j) + 1 \in 1 .. z
        <3> HIDE DEF i
        <3> QED BY <2>2, <2>3, <1>2
    <2> QED BY <2>2, <2>4, <2>5, <1>3
<1>5. ASSUME AllZero(v) PROVE IsEmptyDecoration(r)
    <2>1. ASSUME NEW j \in 0 .. n - 1 PROVE StyleOf(r, j) = 0
        <3>1. v[RunStart(r, j) + 1] = StyleOf(r, j) /\ RunStart(r, j) + 1 \in 1 .. z
            BY <1>4
        <3> DEFINE x == RunStart(r, j) + 1
        <3>2. x \in 1 .. Len(v)
            BY <3>1 DEF z
        <3> HIDE DEF x
        <3>3. v[x] = 0
            BY <3>2, <1>5 DEF AllZero
        <3> QED BY <3>1, <3>3 DEF x
    <2>2. n = 1
        <3>1. CASE n > 1
            <4>1. 1 \in 0 .. n - 1 /\ 0 \in 0 .. n - 1 /\ 1 \in 1 .. n - 1 /\ 1 - 1 = 0
                BY <3>1, <1>2
            <4>2. StyleOf(r, 1) # StyleOf(r, 1 - 1)
                BY <4>1, <1>3
            <4> QED BY <4>1, <4>2, <2>1
        <3> QED BY <3>1, <1>2
    <2>3. StyleOf(r, 0) = 0
        BY <2>1, <2>2
    <2>4. Runs(r) = 1
        BY <2>2 DEF n
    <2>5. AllSame(r)
        BY <2>4 DEF AllSame
    <2> QED BY <2>3, <2>4, <2>5 DEF IsEmptyDecoration, AllSameAs
<1>6. ASSUME IsEmptyDecoration(r) PROVE AllZero(v)
    <2>1. n = 1 /\ StyleOf(r, 0) = 0
        BY <1>6 DEF IsEmptyDecoration, AllSameAs, n
    <2>2. ASSUME NEW x \in 1 .. z PROVE v[x] = 0
        <3> DEFINE y == x - 1
        <3>1. 0 \in 0 .. n - 1 /\ 0 + 1 = n
            BY <2>1
        <3>2. y \in RunStart(r, 0) .. RunStart(r, 0 + 1) - 1 /\ y + 1 = x
            BY <3>1, <1>2, <1>3
        <3> HIDE DEF y
        <3>3. v[y + 1] = StyleOf(r, 0)
            BY <3>1, <3>2, <1>3
        <3> QED BY <3>2, <3>3, <2>1
    <2> QED BY <2>2 DEF AllZero, z
<1> QED BY <1>5, <1>6

\* A new one is nowhere.
LEMMA NewRunsAre ==
    /\ AreRunsOf(NewRunStyles, <<>>) /\ StyleOf(NewRunStyles, 0) = 0
    /\ SpaceOf(NewRunStyles, 0) = 0
<1> DEFINE r == NewRunStyles
           p == EmptyPartitioning
           b == <<0, 0>>
           e == <<>>
<1>1. r = [starts |-> p, styles |-> b] /\ r.starts = p /\ r.styles = b
    BY DEF NewRunStyles
<1>2. b \in Seq(Int) /\ Len(b) = 2 /\ b[1] = 0 /\ b[2] = 0
    OBVIOUS
<1>3. e \in Seq(Chars) /\ Len(e) = 0
    OBVIOUS
<1>4. IndexOf(p, LineBreaks(e), Len(e)) /\ Partitions(p) = 1
    <2> HIDE DEF e, p
    <2>1. IndexOf(EmptyLines.starts, LineBreaks(e), Len(e)) /\ Partitions(EmptyLines.starts) = 1
        BY <1>3, EmptyIndex
    <2>2. EmptyLines.starts = p
        BY DEF EmptyLines, p
    <2> QED BY <2>1, <2>2
<1>5. WellFormed(p)
    BY <1>4 DEF IndexOf
<1>6. PositionFromPartition(p, 0) = 0 /\ PositionFromPartition(p, 1) = 0
    BY DEF EmptyPartitioning, PositionFromPartition
<1> HIDE DEF r, p, b, e
<1>7. Runs(r) = 1 /\ RunStart(r, 0) = 0 /\ RunStart(r, 1) = 0
    BY <1>1, <1>4, <1>6 DEF Runs, RunStart
<1>8. StyleOf(r, 0) = 0 /\ StyleOf(r, 1) = 0
    BY <1>1, <1>2 DEF StyleOf
<1>9. IsRuns(r)
    BY <1>1, <1>2, <1>5, <1>7 DEF IsRuns
<1>10. Holds(r, e)
    <2>1. InOrder(r)
        BY <1>7 DEF InOrder
    <2>2. Shows(r, e)
        BY <1>7 DEF Shows
    <2> QED BY <2>1, <2>2, <1>3, <1>7, <1>8, <1>9 DEF Holds
<1>11. DifferBut(r, e, {})
    BY <1>7 DEF DifferBut
<1>12. SpaceOf(r, 0) = 0
    <2> DEFINE k == RunFromPosition(r, 0)
    <2>1. IsRunAt(r, k, 0)
        BY <1>10, RunFound
    <2> HIDE DEF k
    <2>2. k = 0
        BY <2>1, <1>10, FirstRun
    <2> QED BY <2>2, <1>8 DEF SpaceOf, k
<1> QED BY <1>8, <1>10, <1>11, <1>12 DEF AreRunsOf, r, e

LEMMA SpaceIsZero ==
    ASSUME NEW v \in Seq(Int), AllZero(v), NEW pos \in 0 .. Len(v), NEW len \in Nat
    PROVE  /\ ShadeOfNew(v, pos) = 0
           /\ AllZero(Inserted(v, pos, [k \in 1 .. len |-> 0]))
<1> DEFINE w == Inserted(v, pos, [k \in 1 .. len |-> 0])
           n == Len(v)
<1>1. n \in Nat /\ pos \in Nat /\ pos <= n
    BY LenProperties
<1>2. ShadeOfNew(v, pos) = 0
    <2>1. CASE pos \in 1 .. Len(v) - 1
        <3>1. v[pos + 1] = 0
            <4> DEFINE x == pos + 1
            <4>1. x \in 1 .. Len(v)
                BY <1>1, <2>1
            <4> HIDE DEF x
            <4>2. v[x] = 0
                BY <4>1 DEF AllZero
            <4> QED BY <4>2 DEF x
        <3> QED BY <3>1 DEF ShadeOfNew
    <2>2. CASE pos \notin 1 .. Len(v) - 1
        BY <2>2 DEF ShadeOfNew
    <2> QED BY <2>1, <2>2
<1>3. HasSpace(w, v, pos, len, 0)
    <2>1. 0 \in Int
        OBVIOUS
    <2> QED BY <2>1, SpaceIs
<1> HIDE DEF w
<1>4. AllZero(w)
    <2>1. ASSUME NEW x \in 1 .. Len(w) PROVE w[x] = 0
        <3>1. Len(w) = n + len
            BY <1>3 DEF HasSpace
        <3>2. w[x] = IF x <= pos THEN v[x] ELSE IF x <= pos + len THEN 0 ELSE v[x - len]
            BY <1>3, <3>1 DEF HasSpace
        <3>3. x <= pos => x \in 1 .. Len(v)
            BY <1>1, <3>1
        <3>4. ~(x <= pos + len) => x - len \in 1 .. Len(v)
            BY <1>1, <3>1
        <3>5. x <= pos => v[x] = 0
            BY <3>3 DEF AllZero
        <3>6. ~(x <= pos + len) => v[x - len] = 0
            BY <3>4 DEF AllZero
        <3>7. CASE x <= pos
            BY <3>2, <3>5, <3>7
        <3>8. CASE ~(x <= pos)
            BY <3>2, <3>6, <3>8
        <3> QED BY <3>7, <3>8
    <2> QED BY <2>1 DEF AllZero
<1> QED BY <1>2, <1>4 DEF w

LEMMA SpaceIsNotZero ==
    ASSUME NEW v \in Seq(Int), ~AllZero(v), NEW pos \in 0 .. Len(v), NEW len \in Nat, NEW y \in Int
    PROVE  ~AllZero(Inserted(v, pos, [k \in 1 .. len |-> y])) /\ Len(v) > 0
<1> DEFINE w == Inserted(v, pos, [k \in 1 .. len |-> y])
           n == Len(v)
<1>1. n \in Nat /\ pos \in Nat /\ pos <= n
    BY LenProperties
<1>2. HasSpace(w, v, pos, len, y)
    BY SpaceIs
<1>3. PICK x \in 1 .. n : v[x] # 0
    BY DEF AllZero
<1> HIDE DEF w
<1> DEFINE z == IF x <= pos THEN x ELSE x + len
<1>4. z \in 1 .. n + len /\ (z <= pos <=> x <= pos) /\ (~(x <= pos) => ~(z <= pos + len) /\ z - len = x)
      /\ (x <= pos => z = x)
    BY <1>1
<1> HIDE DEF z
<1>5. w[z] = IF z <= pos THEN v[z] ELSE IF z <= pos + len THEN y ELSE v[z - len]
    BY <1>2, <1>4 DEF HasSpace
<1>6. w[z] # 0
    <2>1. CASE x <= pos
        BY <2>1, <1>3, <1>4, <1>5
    <2>2. CASE ~(x <= pos)
        BY <2>2, <1>3, <1>4, <1>5
    <2> QED BY <2>1, <2>2
<1>7. z \in 1 .. Len(w)
    BY <1>2, <1>4 DEF HasSpace
<1>8. ~AllZero(w)
    BY <1>6, <1>7 DEF AllZero
<1> QED BY <1>1, <1>3, <1>8 DEF w

LEMMA CutIsZero ==
    ASSUME NEW v \in Seq(Int), AllZero(v), NEW pos \in Nat, NEW len \in Nat, pos + len <= Len(v)
    PROVE  AllZero(Deleted(v, pos, len))
<1> DEFINE w == Deleted(v, pos, len)
<1>1. HasCut(w, v, pos, len)
    BY RangeCutIs
<1>2. Len(v) \in Nat
    BY LenProperties
<1> HIDE DEF w
<1>3. ASSUME NEW x \in 1 .. Len(w) PROVE w[x] = 0
    <2>1. Len(w) = Len(v) - len
        BY <1>1 DEF HasCut
    <2>2. w[x] = IF x <= pos THEN v[x] ELSE v[x + len]
        BY <1>1, <2>1 DEF HasCut
    <2>3. x \in 1 .. Len(v) /\ x + len \in 1 .. Len(v)
        BY <1>2, <2>1
    <2>4. v[x] = 0 /\ v[x + len] = 0
        BY <2>3 DEF AllZero
    <2> QED BY <2>2, <2>4
<1> QED BY <1>3 DEF AllZero, w

\* What was appended is made to have no value.
LEMMA AppendedIs ==
    ASSUME NEW v \in Seq(Int), NEW len \in Nat, NEW y \in Int
    PROVE  LET w == Inserted(v, Len(v), [k \in 1 .. len |-> y])
               u == Inserted(v, Len(v), [k \in 1 .. len |-> 0])
           IN  /\ Filled(w, Len(v), Len(v) + len, 0) = u
               /\ w \in Seq(Int) /\ Len(w) = Len(v) + len
               /\ ShadeOfNew(v, Len(v)) = 0
<1> DEFINE n == Len(v)
           w == Inserted(v, n, [k \in 1 .. len |-> y])
           u == Inserted(v, n, [k \in 1 .. len |-> 0])
           f == Filled(w, n, n + len, 0)
<1>1. n \in Nat /\ n \in 0 .. n
    BY LenProperties
<1>2. HasSpace(w, v, n, len, y) /\ HasSpace(u, v, n, len, 0)
    <2>1. n \in 0 .. Len(v) /\ 0 \in Int
        BY <1>1
    <2> HIDE DEF n
    <2> QED BY <2>1, SpaceIs
<1> HIDE DEF w, u
<1>3. w \in Seq(Int) /\ Len(w) = n + len /\ u \in Seq(Int) /\ Len(u) = n + len
    BY <1>2 DEF HasSpace
<1>4. f \in Seq(Int) /\ Len(f) = Len(w)
    BY <1>3, FilledIs
<1>5. ASSUME NEW x \in 1 .. n + len PROVE f[x] = u[x]
    <2>1. f[x] = IF x \in n + 1 .. n + len THEN 0 ELSE w[x]
        BY <1>3 DEF Filled
    <2>2. w[x] = IF x <= n THEN v[x] ELSE IF x <= n + len THEN y ELSE v[x - len]
        BY <1>2 DEF HasSpace
    <2>3. u[x] = IF x <= n THEN v[x] ELSE IF x <= n + len THEN 0 ELSE v[x - len]
        BY <1>2 DEF HasSpace
    <2> HIDE DEF f, n
    <2>4. CASE x <= n
        <3>1. x \notin n + 1 .. n + len
            BY <2>4, <1>1
        <3> QED BY <3>1, <2>1, <2>2, <2>3, <2>4
    <2>5. CASE ~(x <= n)
        <3>1. x \in n + 1 .. n + len /\ x <= n + len
            BY <2>5, <1>1
        <3> QED BY <3>1, <2>1, <2>3, <2>5
    <2> QED BY <2>4, <2>5
<1>6. f = u
    <2> HIDE DEF f, n
    <2>1. Len(f) = Len(u) /\ f \in Seq(Int) /\ u \in Seq(Int) /\ \A x \in 1 .. Len(f) : f[x] = u[x]
        BY <1>3, <1>4, <1>5
    <2> QED BY <2>1, SeqEqual
<1>7. ShadeOfNew(v, n) = 0
    <2>1. n \notin 1 .. n - 1
        BY <1>1
    <2> QED BY <2>1 DEF ShadeOfNew
<1> QED BY <1>3, <1>6, <1>7 DEF w, u

\* What the decorations hold for an indicator with the values v.
Shade(d, i, v) ==
    IF i \in DOMAIN d.list THEN AreRunsOf(d.list[i], v) /\ ~AllZero(v) ELSE AllZero(v)

\* The decorations hold the n values of each indicator, and nothing for one that
\* is 0 everywhere; the current one is there and was selected.
DecoShows(d, sh, n) ==
    /\ \A i \in Indicators : sh[i] \in Seq(Int) /\ Len(sh[i]) = n /\ Shade(d, i, sh[i])
    /\ d.current # Null => d.current \in DOMAIN d.list /\ d.current = d.indicator

Spaced(v, pos, len) == Inserted(v, pos, [k \in 1 .. len |-> ShadeOfNew(v, pos)])

LEMMA ShadeIsNumber ==
    ASSUME NEW v \in Seq(Int), NEW pos \in 0 .. Len(v)
    PROVE  ShadeOfNew(v, pos) \in Int
<1>1. CASE pos \in 1 .. Len(v) - 1
    <2>1. pos \in 1 .. Len(v)
        BY <1>1, LenProperties
    <2>2. v[pos] \in Int
        BY <2>1
    <2> QED BY <2>2 DEF ShadeOfNew
<1>2. CASE pos \notin 1 .. Len(v) - 1
    BY <1>2 DEF ShadeOfNew
<1> QED BY <1>1, <1>2

LEMMA SpacedIs ==
    ASSUME NEW v \in Seq(Int), NEW pos \in 0 .. Len(v), NEW len \in Nat
    PROVE  Spaced(v, pos, len) \in Seq(Int) /\ Len(Spaced(v, pos, len)) = Len(v) + len
<1> DEFINE y == ShadeOfNew(v, pos)
<1>1. y \in Int
    BY ShadeIsNumber
<1>2. Spaced(v, pos, len) = Inserted(v, pos, [k \in 1 .. len |-> y])
    BY DEF Spaced
<1> HIDE DEF y
<1>3. HasSpace(Inserted(v, pos, [k \in 1 .. len |-> y]), v, pos, len, y)
    BY <1>1, SpaceIs
<1> QED BY <1>2, <1>3 DEF HasSpace

\* An insertion between two characters.
LEMMA SpaceInside ==
    ASSUME NEW r, NEW v \in Seq(Int), AreRunsOf(r, v), NEW pos \in Nat, pos < Len(v),
           NEW len \in Nat \ {0}
    PROVE  AreRunsOf(InsertSpace(r, pos, len), Spaced(v, pos, len))
<1>1. Holds(r, v)
    BY DEF AreRunsOf
<1>2. SpaceOf(r, pos) = ShadeOfNew(v, pos)
    BY <1>1, ShadeIs
<1>3. pos <= Len(v) /\ (Len(v) > 0 \/ StyleOf(r, 0) = 0)
    BY LenProperties
<1>4. AreRunsOf(InsertSpace(r, pos, len), Inserted(v, pos, [k \in 1 .. len |-> SpaceOf(r, pos)]))
    BY <1>3, InsertSpaceIs
<1> QED BY <1>2, <1>4 DEF Spaced

\* An insertion behind the last character.
LEMMA SpaceBehind ==
    ASSUME NEW r, NEW v \in Seq(Int), AreRunsOf(r, v), NEW pos, pos = Len(v), pos > 0,
           NEW len \in Nat \ {0}
    PROVE  AreRunsOf(FillRange(InsertSpace(r, pos, len), pos, 0, len), Spaced(v, pos, len))
<1> DEFINE y == SpaceOf(r, pos)
           q == InsertSpace(r, pos, len)
           w == Inserted(v, pos, [k \in 1 .. len |-> y])
           u == Inserted(v, pos, [k \in 1 .. len |-> 0])
<1>1. pos \in Nat /\ pos <= Len(v) /\ (Len(v) > 0 \/ StyleOf(r, 0) = 0)
    BY LenProperties
<1>2. AreRunsOf(q, w) /\ y \in Int
    BY <1>1, InsertSpaceIs
<1> HIDE DEF y, q
<1>3. /\ Filled(w, pos, pos + len, 0) = u /\ w \in Seq(Int) /\ Len(w) = pos + len
      /\ ShadeOfNew(v, pos) = 0
    <2>1. LET w0 == Inserted(v, Len(v), [k \in 1 .. len |-> y])
              u0 == Inserted(v, Len(v), [k \in 1 .. len |-> 0])
          IN  /\ Filled(w0, Len(v), Len(v) + len, 0) = u0
              /\ w0 \in Seq(Int) /\ Len(w0) = Len(v) + len
              /\ ShadeOfNew(v, Len(v)) = 0
        BY <1>2, AppendedIs
    <2> QED BY <2>1
<1> HIDE DEF w
<1>4. pos + len <= Len(w) /\ 0 \in Int
    BY <1>1, <1>3
<1>5. AreRunsOf(FillRange(q, pos, 0, len), Filled(w, pos, pos + len, 0))
    BY <1>1, <1>2, <1>3, <1>4, FillRangeIs
<1>6. u = Spaced(v, pos, len)
    BY <1>3 DEF Spaced
<1> QED BY <1>3, <1>5, <1>6 DEF q

\* An insertion, for one indicator.
LEMMA InsertShade ==
    ASSUME NEW d, NEW n \in Nat, IsDeco(d, n), NEW i, NEW v \in Seq(Int), Len(v) = n, Shade(d, i, v),
           NEW pos \in 0 .. n, NEW len \in Nat \ {0}
    PROVE  Shade(DecorationsInsert(d, pos, len), i, Spaced(v, pos, len))
<1> DEFINE list == [j \in DOMAIN d.list |->
                       IF pos = d.length THEN FillRange(InsertSpace(d.list[j], pos, len), pos, 0, len)
                       ELSE InsertSpace(d.list[j], pos, len)]
           e == DecorationsInsert(d, pos, len)
           y == ShadeOfNew(v, pos)
<1>1. DOMAIN list = DOMAIN d.list /\ d.length = n /\ len \in Nat /\ pos \in 0 .. Len(v)
    BY DEF IsDeco
<1>2. e.list = list
    <2>1. e = [d EXCEPT !.length = d.length + len, !.list = list]
        BY DEF DecorationsInsert
    <2> HIDE DEF e, list
    <2> QED BY <2>1 DEF IsDeco
<1>3. y \in Int
    BY <1>1, ShadeIsNumber
<1>4. CASE i \in DOMAIN d.list
    <2>1. AreRunsOf(d.list[i], v) /\ ~AllZero(v)
        BY <1>4 DEF Shade
    <2>2. ~AllZero(Spaced(v, pos, len)) /\ Len(v) > 0
        <3> HIDE DEF y
        <3>1. ~AllZero(Inserted(v, pos, [k \in 1 .. len |-> y])) /\ Len(v) > 0
            BY <2>1, <1>1, <1>3, SpaceIsNotZero
        <3> QED BY <3>1 DEF Spaced, y
    <2>3. AreRunsOf(list[i], Spaced(v, pos, len))
        <3>1. CASE pos = n
            <4>1. list[i] = FillRange(InsertSpace(d.list[i], pos, len), pos, 0, len)
                BY <3>1, <1>1, <1>4
            <4>2. AreRunsOf(FillRange(InsertSpace(d.list[i], pos, len), pos, 0, len), Spaced(v, pos, len))
                BY <3>1, <2>1, <2>2, SpaceBehind
            <4> QED BY <4>1, <4>2
        <3>2. CASE pos # n
            <4>1. list[i] = InsertSpace(d.list[i], pos, len)
                BY <3>2, <1>1, <1>4
            <4>2. pos \in Nat /\ pos < Len(v)
                BY <3>2
            <4>3. AreRunsOf(InsertSpace(d.list[i], pos, len), Spaced(v, pos, len))
                BY <4>2, <2>1, SpaceInside
            <4> QED BY <4>1, <4>3
        <3> QED BY <3>1, <3>2
    <2> HIDE DEF list, e
    <2> QED BY <1>1, <1>2, <1>4, <2>2, <2>3 DEF Shade, e
<1>5. CASE i \notin DOMAIN d.list
    <2>1. AllZero(v)
        BY <1>5 DEF Shade
    <2>2. y = 0 /\ AllZero(Inserted(v, pos, [k \in 1 .. len |-> 0]))
        BY <2>1, <1>1, SpaceIsZero
    <2>3. AllZero(Spaced(v, pos, len))
        BY <2>2 DEF Spaced
    <2> HIDE DEF list, e
    <2> QED BY <1>1, <1>2, <1>5, <2>3 DEF Shade, e
<1> QED BY <1>4, <1>5

LEMMA InsertShows ==
    ASSUME NEW d, NEW n \in Nat, IsDeco(d, n), NEW sh, DecoShows(d, sh, n),
           NEW pos \in 0 .. n, NEW len \in Nat \ {0}
    PROVE  DecoShows(DecorationsInsert(d, pos, len), [i \in Indicators |-> Spaced(sh[i], pos, len)], n + len)
<1> DEFINE list == [j \in DOMAIN d.list |->
                       IF pos = d.length THEN FillRange(InsertSpace(d.list[j], pos, len), pos, 0, len)
                       ELSE InsertSpace(d.list[j], pos, len)]
           e == DecorationsInsert(d, pos, len)
           new == [i \in Indicators |-> Spaced(sh[i], pos, len)]
<1>1. DOMAIN e.list = DOMAIN d.list /\ e.current = d.current /\ e.indicator = d.indicator
    <2>1. DOMAIN list = DOMAIN d.list
        OBVIOUS
    <2>2. e = [d EXCEPT !.length = d.length + len, !.list = list]
        BY DEF DecorationsInsert
    <2> HIDE DEF e, list
    <2> QED BY <2>1, <2>2 DEF IsDeco
<1>2. ASSUME NEW i \in Indicators
      PROVE  new[i] \in Seq(Int) /\ Len(new[i]) = n + len /\ Shade(e, i, new[i])
    <2> DEFINE v == sh[i]
    <2>1. v \in Seq(Int) /\ Len(v) = n /\ Shade(d, i, v) /\ len \in Nat
        BY DEF DecoShows
    <2>2. new[i] = Spaced(v, pos, len)
        OBVIOUS
    <2> HIDE DEF v, new, e
    <2>3. pos \in 0 .. Len(v)
        BY <2>1
    <2>4. Spaced(v, pos, len) \in Seq(Int) /\ Len(Spaced(v, pos, len)) = Len(v) + len
        BY <2>1, <2>3, SpacedIs
    <2>5. Shade(e, i, Spaced(v, pos, len))
        BY <2>1, InsertShade DEF e
    <2> QED BY <2>1, <2>2, <2>4, <2>5
<1>3. d.current # Null => d.current \in DOMAIN d.list /\ d.current = d.indicator
    BY DEF DecoShows
<1> HIDE DEF e, new
<1>4. DecoShows(e, new, n + len)
    BY <1>1, <1>2, <1>3 DEF DecoShows
<1> QED BY <1>4 DEF e, new

\* What stays of the values when some are removed, and Delete takes out the
\* indicators that are nowhere: for one indicator.
LEMMA DeleteShade ==
    ASSUME NEW d, NEW n \in Nat, IsDeco(d, n), NEW i, NEW v \in Seq(Int), Len(v) = n, Shade(d, i, v),
           NEW pos \in Nat, NEW len \in Nat \ {0}, pos + len <= n
    PROVE  Shade(DecorationsDelete(d, pos, len), i, Deleted(v, pos, len))
<1> DEFINE list == [j \in DOMAIN d.list |-> DeleteRange(d.list[j], pos, len)]
           cut == [d EXCEPT !.length = d.length - len, !.list = list]
           gone == {j \in DOMAIN cut.list : cut.length = 0 \/ IsEmptyDecoration(cut.list[j])}
           left == [j \in DOMAIN cut.list \ gone |-> cut.list[j]]
           e == DecorationsDelete(d, pos, len)
           w == Deleted(v, pos, len)
<1>1. cut.list = list /\ DOMAIN list = DOMAIN d.list /\ cut.length = n - len
    BY DEF IsDeco
<1>2. e.list = left
    <2>1. e = Delete(cut, gone)
        BY DEF DecorationsDelete
    <2>2. cut = [length |-> cut.length, list |-> cut.list, current |-> cut.current, indicator |-> cut.indicator]
        <3>1. cut = [d EXCEPT !.length = d.length - len, !.list = list]
            OBVIOUS
        <3> HIDE DEF cut, list
        <3> QED BY <3>1 DEF IsDeco
    <2> HIDE DEF cut, gone, e
    <2> QED BY <2>1, <2>2 DEF Delete
<1>3. HasCut(w, v, pos, len)
    <2>1. len \in Nat
        OBVIOUS
    <2> HIDE DEF w
    <2> QED BY <2>1, RangeCutIs DEF w
<1>4. w \in Seq(Int) /\ Len(w) = n - len
    <2> HIDE DEF w
    <2> QED BY <1>3 DEF HasCut
<1>5. DOMAIN left = DOMAIN cut.list \ gone /\ \A j \in DOMAIN left : left[j] = cut.list[j]
    OBVIOUS
<1>6. CASE i \in DOMAIN d.list
    <2>1. AreRunsOf(d.list[i], v) /\ ~AllZero(v) /\ cut.list[i] = DeleteRange(d.list[i], pos, len)
        BY <1>1, <1>6 DEF Shade
    <2>2. i \in gone <=> (n - len = 0 \/ IsEmptyDecoration(cut.list[i]))
        BY <1>1, <1>6
    <2>3. CASE len = n
        <3>1. i \notin DOMAIN left
            BY <2>2, <2>3, <1>5
        <3>2. AllZero(w)
            <4>1. Len(w) = 0
                BY <1>4, <2>3
            <4> HIDE DEF w
            <4>2. 1 .. Len(w) = {}
                BY <4>1
            <4> QED BY <4>2 DEF AllZero
        <3> HIDE DEF e, left, w
        <3> QED BY <3>1, <3>2, <1>2 DEF Shade, e, w
    <2>4. CASE len # n
        <3>1. len < Len(v) /\ pos + len <= Len(v) /\ n - len # 0 /\ Len(w) > 0
            BY <2>4, <1>4
        <3>2. AreRunsOf(cut.list[i], w)
            <4>1. AreRunsOf(DeleteRange(d.list[i], pos, len), Deleted(v, pos, len))
                BY <3>1, <2>1, DeleteRangeIs
            <4> QED BY <4>1, <2>1
        <3> DEFINE r == cut.list[i]
        <3>3. IsEmptyDecoration(r) <=> AllZero(w)
            <4>1. AreRunsOf(r, w)
                BY <3>2
            <4> HIDE DEF r, w
            <4> QED BY <4>1, <3>1, <1>4, EmptyIsZero
        <3>4. i \in DOMAIN left <=> ~AllZero(w)
            BY <3>1, <3>3, <2>2, <1>1, <1>5, <1>6
        <3>5. i \in DOMAIN left => left[i] = cut.list[i]
            BY <1>5
        <3> HIDE DEF e, left, w, cut
        <3> QED BY <3>2, <3>4, <3>5, <1>2 DEF Shade, e, w
    <2> QED BY <2>3, <2>4
<1>7. CASE i \notin DOMAIN d.list
    <2>1. AllZero(v)
        BY <1>7 DEF Shade
    <2>2. AllZero(w)
        <3>1. len \in Nat /\ pos + len <= Len(v)
            OBVIOUS
        <3> QED BY <2>1, <3>1, CutIsZero
    <2>3. i \notin DOMAIN left
        BY <1>1, <1>5, <1>7
    <2> HIDE DEF e, left, w
    <2> QED BY <2>2, <2>3, <1>2 DEF Shade, e, w
<1> QED BY <1>6, <1>7

CurrentStands(d) == d.current # Null => d.current \in DOMAIN d.list /\ d.current = d.indicator

\* When an indicator goes, none is current.
LEMMA DeleteStands ==
    ASSUME NEW d, NEW n, IsDeco(d, n), CurrentStands(d), NEW gone
    PROVE  CurrentStands(Delete(d, gone))
<1> DEFINE list == [i \in DOMAIN d.list \ gone |-> d.list[i]]
           current == IF gone \cap DOMAIN d.list # {} THEN Null ELSE d.current
           e == Delete(d, gone)
<1>1. DOMAIN list = DOMAIN d.list \ gone
    OBVIOUS
<1>2. e.list = list /\ e.current = current /\ e.indicator = d.indicator
    <2>1. e = [d EXCEPT !.list = list, !.current = current]
        BY DEF Delete
    <2> HIDE DEF e, list, current
    <2> QED BY <2>1 DEF IsDeco
<1> HIDE DEF e, list
<1>3. CASE gone \cap DOMAIN d.list # {}
    BY <1>2, <1>3 DEF CurrentStands, e
<1>4. CASE gone \cap DOMAIN d.list = {}
    <2>1. DOMAIN list = DOMAIN d.list
        BY <1>1, <1>4
    <2>2. CurrentStands(e)
        BY <2>1, <1>2, <1>4 DEF CurrentStands
    <2> QED BY <2>2 DEF e
<1> QED BY <1>3, <1>4

LEMMA DeleteShows ==
    ASSUME NEW d, NEW n \in Nat, IsDeco(d, n), NEW sh, DecoShows(d, sh, n),
           NEW pos \in Nat, NEW len \in Nat \ {0}, pos + len <= n
    PROVE  DecoShows(DecorationsDelete(d, pos, len), [i \in Indicators |-> Deleted(sh[i], pos, len)], n - len)
<1> DEFINE list == [j \in DOMAIN d.list |-> DeleteRange(d.list[j], pos, len)]
           cut == [d EXCEPT !.length = d.length - len, !.list = list]
           gone == {j \in DOMAIN cut.list : cut.length = 0 \/ IsEmptyDecoration(cut.list[j])}
           e == DecorationsDelete(d, pos, len)
           new == [i \in Indicators |-> Deleted(sh[i], pos, len)]
<1>1. CurrentStands(e)
    <2>1. e = Delete(cut, gone)
        BY DEF DecorationsDelete
    <2>2. DOMAIN list = DOMAIN d.list
        OBVIOUS
    <2>3. cut = [d EXCEPT !.length = d.length - len, !.list = list]
        OBVIOUS
    <2> HIDE DEF cut, gone, e, list
    <2>4. CurrentStands(cut) /\ IsDeco(cut, n - len)
        BY <2>2, <2>3 DEF CurrentStands, DecoShows, IsDeco
    <2> QED BY <2>1, <2>4, DeleteStands
<1>2. ASSUME NEW i \in Indicators
      PROVE  new[i] \in Seq(Int) /\ Len(new[i]) = n - len /\ Shade(e, i, new[i])
    <2> DEFINE v == sh[i]
    <2>1. v \in Seq(Int) /\ Len(v) = n /\ Shade(d, i, v) /\ len \in Nat
        BY DEF DecoShows
    <2>2. new[i] = Deleted(v, pos, len)
        OBVIOUS
    <2> HIDE DEF v, new, e
    <2>3. HasCut(Deleted(v, pos, len), v, pos, len)
        BY <2>1, RangeCutIs
    <2>4. Shade(e, i, Deleted(v, pos, len))
        BY <2>1, DeleteShade DEF e
    <2> QED BY <2>1, <2>2, <2>3, <2>4 DEF HasCut
<1> HIDE DEF e, new
<1>3. DecoShows(e, new, n - len)
    BY <1>1, <1>2 DEF DecoShows, CurrentStands
<1> QED BY <1>3 DEF e, new

LEMMA SelectShows ==
    ASSUME NEW d, NEW n, IsDeco(d, n), NEW sh, DecoShows(d, sh, n), NEW i \in Indicators
    PROVE  /\ DecoShows(SetCurrentIndicator(d, i), sh, n)
           /\ SetCurrentIndicator(d, i).list = d.list /\ SetCurrentIndicator(d, i).indicator = i
<1> DEFINE current == IF i \in DOMAIN d.list THEN i ELSE Null
           e == SetCurrentIndicator(d, i)
<1>1. e = [d EXCEPT !.indicator = i, !.current = current]
    BY DEF SetCurrentIndicator
<1> HIDE DEF e
<1>2. e.list = d.list /\ e.indicator = i /\ e.current = IF i \in DOMAIN d.list THEN i ELSE Null
    BY <1>1 DEF IsDeco
<1>3. \A j \in Indicators : Shade(e, j, sh[j]) <=> Shade(d, j, sh[j])
    BY <1>2 DEF Shade
<1>4. DecoShows(e, sh, n)
    BY <1>2, <1>3 DEF DecoShows
<1> QED BY <1>2, <1>4 DEF e

\* Nothing but zeros, in runs that were just made.
LEMMA CreatedIs ==
    ASSUME NEW n \in Nat \ {0}, NEW v \in Seq(Int), Len(v) = n, AllZero(v)
    PROVE  AreRunsOf(InsertSpace(NewRunStyles, 0, n), v)
<1> DEFINE e == <<>>
           r == NewRunStyles
           w == Inserted(e, 0, [k \in 1 .. n |-> 0])
<1>1. AreRunsOf(r, e) /\ StyleOf(r, 0) = 0 /\ SpaceOf(r, 0) = 0
    BY NewRunsAre
<1>2. e \in Seq(Int) /\ Len(e) = 0 /\ 0 \in Nat /\ 0 <= Len(e) /\ 0 \in 0 .. Len(e) /\ 0 \in Int /\ n \in Nat
    OBVIOUS
<1> HIDE DEF e, r
<1>3. AreRunsOf(InsertSpace(r, 0, n), w)
    <2> DEFINE y == SpaceOf(r, 0)
    <2>1. AreRunsOf(InsertSpace(r, 0, n), Inserted(e, 0, [k \in 1 .. n |-> y]))
        BY <1>1, <1>2, InsertSpaceIs
    <2>2. y = 0
        BY <1>1
    <2> HIDE DEF y
    <2> QED BY <2>1, <2>2
<1>4. HasSpace(w, e, 0, n, 0)
    BY <1>2, SpaceIs
<1> HIDE DEF w
<1>5. w = v
    <2>1. w \in Seq(Int) /\ Len(w) = Len(v)
        BY <1>2, <1>4 DEF HasSpace
    <2>2. ASSUME NEW x \in 1 .. Len(w) PROVE w[x] = v[x]
        <3>1. x \in 1 .. n /\ x \in 1 .. Len(e) + n /\ ~(x <= 0) /\ x <= 0 + n
            BY <2>1, <1>2
        <3>2. w[x] = 0
            BY <3>1, <1>4 DEF HasSpace
        <3>3. v[x] = 0
            BY <3>1 DEF AllZero
        <3> QED BY <3>2, <3>3
    <2>3. \A x \in 1 .. Len(w) : w[x] = v[x]
        BY <2>2
    <2> QED BY <2>1, <2>3, SeqEqual
<1> QED BY <1>3, <1>5 DEF r

\* The selected indicator is there to be filled, and the others are what they were.
LEMMA CurrentShows ==
    ASSUME NEW d, NEW n \in Nat \ {0}, IsDeco(d, n), NEW sh, DecoShows(d, sh, n)
    PROVE  LET e == WithCurrent(d)
               i == d.indicator
           IN  /\ i \in DOMAIN e.list /\ AreRunsOf(e.list[i], sh[i]) /\ e.indicator = i
               /\ \A j \in Indicators \ {i} : Shade(e, j, sh[j])
               /\ CurrentStands(e)
<1> DEFINE i == d.indicator
           c == SetCurrentIndicator(d, i)
           list == [j \in DOMAIN c.list \cup {i} |->
                       IF j \in DOMAIN c.list THEN c.list[j] ELSE InsertSpace(NewRunStyles, 0, d.length)]
           e == WithCurrent(d)
<1>1. i \in Indicators /\ d.length = n /\ sh[i] \in Seq(Int) /\ Len(sh[i]) = n
      /\ \A j \in Indicators : Shade(d, j, sh[j])
    BY DEF IsDeco, DecoShows
<1>2. CASE d.current # Null
    <2>1. e = d
        BY <1>2 DEF WithCurrent
    <2>2. i \in DOMAIN d.list /\ d.current = i
        BY <1>2 DEF DecoShows
    <2>3. AreRunsOf(d.list[i], sh[i])
        BY <2>2, <1>1 DEF Shade
    <2> QED BY <2>1, <2>2, <2>3, <1>1 DEF CurrentStands
<1>3. CASE d.current = Null
    <2>1. c.list = d.list /\ c.indicator = i /\ IsDeco(c, n)
        BY <1>1, SelectShows, DecoSelects
    <2>2. e = [c EXCEPT !.list = list, !.current = i]
        BY <1>3 DEF WithCurrent
    <2>3. /\ DOMAIN list = DOMAIN d.list \cup {i}
          /\ \A j \in DOMAIN d.list : list[j] = d.list[j]
          /\ i \notin DOMAIN d.list => list[i] = InsertSpace(NewRunStyles, 0, n)
        BY <2>1, <1>1
    <2> HIDE DEF c, list, e, i
    <2>4. e.list = list /\ e.current = i /\ e.indicator = i
        BY <2>1, <2>2 DEF IsDeco
    <2>5. AreRunsOf(list[i], sh[i])
        <3>1. CASE i \in DOMAIN d.list
            BY <3>1, <2>3, <1>1 DEF Shade
        <3>2. CASE i \notin DOMAIN d.list
            <4>1. AllZero(sh[i])
                BY <3>2, <1>1 DEF Shade
            <4>2. AreRunsOf(InsertSpace(NewRunStyles, 0, n), sh[i])
                BY <4>1, <1>1, CreatedIs
            <4> QED BY <4>2, <3>2, <2>3
        <3> QED BY <3>1, <3>2
    <2>6. ASSUME NEW j \in Indicators \ {i} PROVE Shade(e, j, sh[j])
        <3>1. Shade(d, j, sh[j])
            BY <1>1
        <3>2. j \in DOMAIN e.list <=> j \in DOMAIN d.list
            BY <2>3, <2>4
        <3>3. j \in DOMAIN d.list => e.list[j] = d.list[j]
            BY <2>3, <2>4
        <3> QED BY <3>1, <3>2, <3>3 DEF Shade
    <2>7. CurrentStands(e) /\ i \in DOMAIN e.list
        BY <2>3, <2>4 DEF CurrentStands
    <2> QED BY <2>4, <2>5, <2>6, <2>7 DEF e, i
<1> QED BY <1>2, <1>3

LEMMA FillShows ==
    ASSUME NEW d, NEW n \in Nat \ {0}, IsDeco(d, n), NEW sh, DecoShows(d, sh, n),
           NEW pos \in Nat, NEW len \in Nat \ {0}, pos + len <= n, NEW value \in Int,
           NEW new, \A i \in Indicators \ {d.indicator} : new[i] = sh[i],
           new[d.indicator] = Filled(sh[d.indicator], pos, pos + len, value)
    PROVE  DecoShows(DecorationFillRange(d, pos, value, len), new, n)
<1> DEFINE i == d.indicator
           c == WithCurrent(d)
           v == sh[i]
           w == Filled(v, pos, pos + len, value)
           r == FillRange(c.list[i], pos, value, len)
           f == [c EXCEPT !.list[i] = FillRange(@, pos, value, len)]
           e == DecorationFillRange(d, pos, value, len)
<1>1. i \in Indicators /\ v \in Seq(Int) /\ Len(v) = n
      /\ \A j \in Indicators : sh[j] \in Seq(Int) /\ Len(sh[j]) = n
    BY DEF IsDeco, DecoShows
<1>2. /\ i \in DOMAIN c.list /\ AreRunsOf(c.list[i], v) /\ c.indicator = i
      /\ \A j \in Indicators \ {i} : Shade(c, j, sh[j])
      /\ CurrentStands(c)
    <2>1. LET c0 == WithCurrent(d)
              i0 == d.indicator
          IN  /\ i0 \in DOMAIN c0.list /\ AreRunsOf(c0.list[i0], sh[i0]) /\ c0.indicator = i0
              /\ \A j \in Indicators \ {i0} : Shade(c0, j, sh[j])
              /\ CurrentStands(c0)
        BY CurrentShows
    <2> QED BY <2>1
<1>3. IsDeco(c, n)
    BY DecoCurrent
<1>4. e = IF IsEmptyDecoration(f.list[i]) THEN Delete(f, {i}) ELSE f
    BY DEF DecorationFillRange
<1>5. AreRunsOf(r, w) /\ w \in Seq(Int) /\ Len(w) = n
    <2>1. pos + len <= Len(v)
        BY <1>1
    <2> DEFINE a == c.list[i]
    <2>2. AreRunsOf(a, v)
        BY <1>2
    <2> HIDE DEF a, c, v
    <2>3. AreRunsOf(FillRange(a, pos, value, len), Filled(v, pos, pos + len, value))
        BY <1>1, <2>1, <2>2, FillRangeIs
    <2>4. w \in Seq(Int) /\ Len(w) = Len(v)
        BY <1>1, FilledIs
    <2> QED BY <1>1, <2>3, <2>4 DEF a
<1>6. new[i] = w /\ \A j \in Indicators \ {i} : new[j] = sh[j]
    OBVIOUS
<1> HIDE DEF c, v, w, i, e
<1>7. /\ DOMAIN f.list = DOMAIN c.list /\ f.list[i] = r
      /\ \A j \in DOMAIN c.list \ {i} : f.list[j] = c.list[j]
      /\ f.current = c.current /\ f.indicator = c.indicator
    BY <1>2, <1>3 DEF IsDeco
<1>8. IsDeco(f, n)
    BY <1>3 DEF IsDeco
<1> HIDE DEF f, r
<1>9. CurrentStands(f)
    BY <1>2, <1>7 DEF CurrentStands
<1>10. ASSUME NEW j \in Indicators \ {i} PROVE Shade(f, j, new[j])
    <2>1. Shade(c, j, sh[j]) /\ new[j] = sh[j]
        BY <1>2, <1>6
    <2>2. j \in DOMAIN c.list => f.list[j] = c.list[j]
        BY <1>7
    <2> QED BY <2>1, <2>2, <1>7 DEF Shade
<1>11. IsEmptyDecoration(r) <=> AllZero(w)
    <2>1. Len(w) > 0
        BY <1>5
    <2> QED BY <2>1, <1>5, EmptyIsZero
<1>12. ASSUME NEW j \in Indicators PROVE new[j] \in Seq(Int) /\ Len(new[j]) = n
    <2>1. CASE j = i
        BY <2>1, <1>5, <1>6
    <2>2. CASE j # i
        BY <2>2, <1>1, <1>6
    <2> QED BY <2>1, <2>2
<1>13. CASE IsEmptyDecoration(r)
    <2>1. e = Delete(f, {i})
        BY <1>4, <1>7, <1>13
    <2>2. CurrentStands(e)
        BY <2>1, <1>8, <1>9, DeleteStands
    <2>3. e.list = [j \in DOMAIN f.list \ {i} |-> f.list[j]]
        BY <2>1, <1>8 DEF Delete, IsDeco
    <2>4. /\ DOMAIN e.list = DOMAIN f.list \ {i}
          /\ \A j \in DOMAIN f.list \ {i} : e.list[j] = f.list[j]
        BY <2>3
    <2>5. ASSUME NEW j \in Indicators PROVE Shade(e, j, new[j])
        <3>1. CASE j = i
            BY <3>1, <2>4, <1>6, <1>11, <1>13 DEF Shade
        <3>2. CASE j # i
            BY <3>2, <2>4, <1>10 DEF Shade
        <3> QED BY <3>1, <3>2
    <2> QED BY <2>2, <2>5, <1>12 DEF DecoShows, CurrentStands, e
<1>14. CASE ~IsEmptyDecoration(r)
    <2>1. e = f
        BY <1>4, <1>7, <1>14
    <2>2. ASSUME NEW j \in Indicators PROVE Shade(f, j, new[j])
        <3>1. CASE j = i
            BY <3>1, <1>2, <1>5, <1>6, <1>7, <1>11, <1>14 DEF Shade
        <3>2. CASE j # i
            BY <3>2, <1>10
        <3> QED BY <3>1, <3>2
    <2> QED BY <2>1, <2>2, <1>9, <1>12 DEF DecoShows, CurrentStands, e
<1> QED BY <1>13, <1>14

\* The decorations hold what the history has.
ShadesInv ==
    /\ LinesInv
    /\ shades = [i \in Indicators |-> shades[i]]
    /\ DecoShows(deco, shades, Len(text))

LEMMA ShadesInit == Init => ShadesInv
<1> SUFFICES ASSUME Init PROVE ShadesInv
    OBVIOUS
<1>1. LinesInv
    BY LinesInit
<1>2. text = <<>> /\ deco = NoDecorations /\ shades = [i \in Indicators |-> <<>>]
    BY DEF Init
<1>3. DOMAIN NoDecorations.list = {} /\ NoDecorations.current = Null
    BY DEF NoDecorations
<1>4. ASSUME NEW i \in Indicators
      PROVE  shades[i] \in Seq(Int) /\ Len(shades[i]) = 0 /\ Shade(deco, i, shades[i])
    <2>1. shades[i] = <<>>
        BY <1>2
    <2>2. 1 .. Len(<<>>) = {}
        OBVIOUS
    <2>3. AllZero(<<>>)
        BY <2>2 DEF AllZero
    <2> QED BY <2>1, <2>3, <1>2, <1>3 DEF Shade
<1>5. Len(text) = 0
    BY <1>2
<1>6. shades = [i \in Indicators |-> shades[i]]
    BY <1>2
<1> QED BY <1>1, <1>2, <1>3, <1>4, <1>5, <1>6 DEF ShadesInv, DecoShows

LEMMA InsertionShows ==
    ASSUME LinesInv, DecoShows(deco, shades, Len(text)), NEW pos \in 0 .. Len(text),
           NEW s \in Strings[use], InsertString(pos, s)
    PROVE  (shades = [i \in Indicators |-> shades[i]] /\ DecoShows(deco, shades, Len(text)))'
<1> DEFINE n == Len(text)
           len == Len(s)
           new == [i \in Indicators |-> Spaced(shades[i], pos, len)]
<1>1. s \in Seq(Chars) /\ text \in Seq(Chars) /\ IsDeco(deco, n) /\ s # <<>>
    BY ViewParameters DEF LinesInv
<1>2. n \in Nat /\ len \in Nat \ {0} /\ pos \in 0 .. n
    BY <1>1, EmptySeq, LenProperties
<1>3. /\ deco' = DecorationsInsert(deco, pos, len) /\ shades' = new
      /\ text' = Inserted(text, pos, s)
    BY DEF InsertString, Spaced
<1>4. Len(text') = n + len
    BY <1>1, <1>3, InsertedIs DEF IsInserted
<1> HIDE DEF n, len, new
<1>5. DecoShows(DecorationsInsert(deco, pos, len), [i \in Indicators |-> Spaced(shades[i], pos, len)], n + len)
    BY <1>1, <1>2, InsertShows DEF n
<1>6. shades' = [i \in Indicators |-> shades'[i]]
    BY <1>3 DEF new
<1>7. DecoShows(deco', shades', Len(text'))
    BY <1>3, <1>4, <1>5 DEF new
<1> QED BY <1>6, <1>7 DEF DecoShows, Shade

LEMMA DeletionShows ==
    ASSUME LinesInv, DecoShows(deco, shades, Len(text)), NEW pos \in 0 .. Len(text) - 1,
           NEW len \in 1 .. Len(text) - pos, DeleteChars(pos, len)
    PROVE  (shades = [i \in Indicators |-> shades[i]] /\ DecoShows(deco, shades, Len(text)))'
<1> DEFINE n == Len(text)
           new == [i \in Indicators |-> Deleted(shades[i], pos, len)]
<1>1. text \in Seq(Chars) /\ IsDeco(deco, n)
    BY DEF LinesInv
<1>2. n \in Nat /\ len \in Nat \ {0} /\ pos \in Nat /\ pos + len <= n /\ len \in Nat
    BY <1>1, LenProperties
<1>3. /\ deco' = DecorationsDelete(deco, pos, len) /\ shades' = new
      /\ text' = Deleted(text, pos, len)
    BY DEF DeleteChars
<1>4. Len(text') = n - len
    <2>1. /\ IsDeleted(text', text, pos, len, SubSeq(text, 1, pos), SubSeq(text, pos + len + 1, Len(text)))
        BY <1>1, <1>2, <1>3, DeletedIs, Zenon
    <2> QED BY <2>1 DEF IsDeleted
<1> HIDE DEF n, new
<1>5. DecoShows(DecorationsDelete(deco, pos, len), [i \in Indicators |-> Deleted(shades[i], pos, len)], n - len)
    BY <1>1, <1>2, DeleteShows DEF n
<1>6. shades' = [i \in Indicators |-> shades'[i]]
    BY <1>3 DEF new
<1>7. DecoShows(deco', shades', Len(text'))
    BY <1>3, <1>4, <1>5 DEF new
<1> QED BY <1>6, <1>7 DEF DecoShows, Shade

LEMMA ClearingShows ==
    ASSUME LinesInv, DecoShows(deco, shades, Len(text)), ClearAll
    PROVE  (shades = [i \in Indicators |-> shades[i]] /\ DecoShows(deco, shades, Len(text)))'
<1> DEFINE n == Len(text)
           new == [i \in Indicators |-> <<>>]
<1>1. text \in Seq(Chars) /\ IsDeco(deco, n) /\ n \in Nat
    BY LenProperties DEF LinesInv
<1>2. /\ deco' = IF text = <<>> THEN deco ELSE DecorationsDelete(deco, 0, n)
      /\ shades' = new /\ text' = <<>>
    BY DEF ClearAll
<1>3. DecoShows(deco', new, 0)
    <2>1. CASE text = <<>>
        <3>1. n = 0 /\ deco' = deco
            BY <2>1, <1>2
        <3>2. ASSUME NEW i \in Indicators PROVE shades[i] = new[i]
            <4>1. shades[i] \in Seq(Int) /\ Len(shades[i]) = 0
                BY <3>1 DEF DecoShows
            <4>2. shades[i] = <<>>
                BY <4>1, EmptySeq
            <4> QED BY <4>2
        <3>3. DecoShows(deco, shades, 0)
            BY <3>1
        <3> HIDE DEF new
        <3> QED BY <3>1, <3>2, <3>3 DEF DecoShows
    <2>2. CASE text # <<>>
        <3>1. n \in Nat \ {0} /\ 0 \in Nat /\ 0 + n <= n /\ n - n = 0
            BY <2>2, <1>1, EmptySeq
        <3> DEFINE cut == [i \in Indicators |-> Deleted(shades[i], 0, n)]
        <3> HIDE DEF n
        <3>2. DecoShows(DecorationsDelete(deco, 0, n), [i \in Indicators |-> Deleted(shades[i], 0, n)], n - n)
            BY <3>1, <1>1, DeleteShows DEF n
        <3>3. DecoShows(deco', cut, 0)
            BY <3>1, <3>2, <2>2, <1>2
        <3> HIDE DEF cut
        <3>4. ASSUME NEW i \in Indicators PROVE cut[i] = new[i]
            <4>1. cut[i] \in Seq(Int) /\ Len(cut[i]) = 0
                BY <3>3 DEF DecoShows
            <4>2. cut[i] = <<>>
                BY <4>1, EmptySeq
            <4> QED BY <4>2
        <3> HIDE DEF new
        <3> QED BY <3>3, <3>4 DEF DecoShows
    <2> QED BY <2>1, <2>2
<1>4. Len(text') = 0
    BY <1>2
<1>5. shades' = [i \in Indicators |-> shades'[i]]
    BY <1>2
<1>6. DecoShows(deco', shades', Len(text'))
    BY <1>2, <1>3, <1>4
<1> QED BY <1>5, <1>6 DEF DecoShows, Shade

LEMMA RangeShows ==
    ASSUME LinesInv, shades = [i \in Indicators |-> shades[i]], DecoShows(deco, shades, Len(text)),
           IndicatorRange
    PROVE  (shades = [i \in Indicators |-> shades[i]] /\ DecoShows(deco, shades, Len(text)))'
<1> DEFINE n == Len(text)
           i == deco.indicator
           v == shades[i]
<1>1. text \in Seq(Chars) /\ IsDeco(deco, n) /\ n \in Nat
    BY LenProperties DEF LinesInv
<1>2. PICK pos \in 0 .. n - 1 : \E len \in 1 .. n - pos, value \in {0, 1, 2} :
          /\ deco' = DecorationFillRange(deco, pos, value, len)
          /\ shades' = [shades EXCEPT ![i] =
                 [k \in DOMAIN @ |-> IF k \in pos + 1 .. pos + len THEN value ELSE @[k]]]
    BY DEF IndicatorRange
<1>3. PICK len \in 1 .. n - pos, value \in {0, 1, 2} :
          /\ deco' = DecorationFillRange(deco, pos, value, len)
          /\ shades' = [shades EXCEPT ![i] =
                 [k \in DOMAIN v |-> IF k \in pos + 1 .. pos + len THEN value ELSE v[k]]]
    BY <1>2
<1>4. /\ n \in Nat \ {0} /\ pos \in Nat /\ len \in Nat \ {0} /\ pos + len <= n /\ value \in Int
      /\ i \in Indicators /\ v \in Seq(Int)
    BY <1>1 DEF IsDeco, DecoShows
<1> DEFINE w == [k \in DOMAIN v |-> IF k \in pos + 1 .. pos + len THEN value ELSE v[k]]
<1>5. w = Filled(v, pos, pos + len, value)
    <2>1. DOMAIN v = 1 .. Len(v)
        BY <1>4
    <2> QED BY <2>1 DEF Filled
<1>6. DOMAIN shades = Indicators
    OBVIOUS
<1>7. shades' = [shades EXCEPT ![i] = w]
    BY <1>3
<1> HIDE DEF n, w
<1>8. shades'[i] = w /\ (\A j \in Indicators \ {i} : shades'[j] = shades[j]) /\ DOMAIN shades' = Indicators
    BY <1>4, <1>6, <1>7
<1>9. shades' = [j \in Indicators |-> shades'[j]]
    <2>1. shades' \in [Indicators -> {shades'[j] : j \in Indicators}]
        BY <1>4, <1>6, <1>7, <1>8
    <2> QED BY <2>1
<1>10. DecoShows(DecorationFillRange(deco, pos, value, len), shades', n)
    <2> DEFINE new == shades'
    <2>1. (\A j \in Indicators \ {deco.indicator} : new[j] = shades[j])
          /\ new[deco.indicator] = Filled(shades[deco.indicator], pos, pos + len, value)
        BY <1>5, <1>8
    <2> HIDE DEF new
    <2>2. DecoShows(DecorationFillRange(deco, pos, value, len), new, n)
        BY <2>1, <1>1, <1>4, FillShows DEF n
    <2> QED BY <2>2 DEF new
<1>11. text' = text
    BY DEF IndicatorRange
<1>12. DecoShows(deco', shades', Len(text'))
    BY <1>3, <1>10, <1>11 DEF n
<1> QED BY <1>9, <1>12 DEF DecoShows, Shade

LEMMA ShadesStep ==
    ASSUME ShadesInv, [Next]_vars
    PROVE  ShadesInv'
<1>1. /\ LinesInv /\ shades = [i \in Indicators |-> shades[i]]
      /\ DecoShows(deco, shades, Len(text))
    BY DEF ShadesInv
<1>2. LinesInv'
    BY <1>1, LinesStep
<1> SUFFICES (shades = [i \in Indicators |-> shades[i]] /\ DecoShows(deco, shades, Len(text)))'
    BY <1>2 DEF ShadesInv
<1>3. CASE UNCHANGED <<text, deco, shades>>
    <2>1. DecoShows(deco', shades', Len(text'))
        BY <1>1, <1>3
    <2>2. shades' = [i \in Indicators |-> shades'[i]]
        BY <1>1, <1>3
    <2> QED BY <2>1, <2>2 DEF DecoShows, Shade
<1>4. CASE UNCHANGED vars
    BY <1>3, <1>4 DEF vars
<1>5. CASE Next
    <2>1. CASE Type
        <3>1. PICK pos \in 0 .. Len(text), s \in Strings[use] :
                  Len(text) + Len(s) <= MaxLen[use] /\ InsertString(pos, s)
            BY <2>1 DEF Type
        <3> QED BY <3>1, <1>1, InsertionShows
    <2>2. CASE Erase
        <3>1. PICK pos \in 0 .. Len(text) - 1 : \E len \in 1 .. Len(text) - pos : DeleteChars(pos, len)
            BY <2>2 DEF Erase
        <3>2. PICK len \in 1 .. Len(text) - pos : DeleteChars(pos, len)
            BY <3>1
        <3> QED BY <3>2, <1>1, DeletionShows
    <2>3. CASE ClearAll
        BY <2>3, <1>1, ClearingShows
    <2>4. CASE SelectIndicator
        <3>1. UNCHANGED <<text, shades>>
            BY <2>4 DEF SelectIndicator
        <3>2. PICK i \in Indicators : deco' = SetCurrentIndicator(deco, i)
            BY <2>4 DEF SelectIndicator
        <3>3. IsDeco(deco, Len(text))
            BY <1>1 DEF LinesInv
        <3>4. DecoShows(SetCurrentIndicator(deco, i), shades, Len(text))
            BY <3>3, <1>1, SelectShows
        <3>5. DecoShows(deco', shades', Len(text'))
            BY <3>1, <3>2, <3>4
        <3>6. shades' = [j \in Indicators |-> shades'[j]]
            BY <3>1, <1>1
        <3> QED BY <3>5, <3>6 DEF DecoShows, Shade
    <2>5. CASE IndicatorRange
        BY <2>5, <1>1, RangeShows
    <2>6. CASE AddMarker
        BY <2>6, <1>3 DEF AddMarker
    <2>7. ASSUME NEW shown \in BOOLEAN, ShowLines(shown)
          PROVE  UNCHANGED <<text, deco, shades>>
        BY <2>7 DEF ShowLines
    <2>8. CASE SetFoldExpanded
        BY <2>8, <1>3 DEF SetFoldExpanded
    <2>9. CASE SetLineHeight
        BY <2>9, <1>3 DEF SetLineHeight
    <2>10. CASE ShowAll
        BY <2>10, <1>3 DEF ShowAll
    <2>11. Step
        BY <1>5 DEF Next
    <2> QED BY <2>1, <2>2, <2>3, <2>4, <2>5, <2>6, <2>7, <2>8, <2>9, <2>10, <2>11, <1>3 DEF Step
<1> QED BY <1>4, <1>5

\* Runs that hold values are as RunStyles::Check wants them.
LEMMA RunsAreChecked ==
    ASSUME NEW r, NEW v, AreRunsOf(r, v)
    PROVE  RunsCheck(r) /\ RunsLength(r) = Len(v)
<1> DEFINE n == Runs(r)
<1>1. Holds(r, v) /\ DifferBut(r, v, {})
    BY DEF AreRunsOf
<1>2. /\ n \in Nat \ {0} /\ Len(v) \in Int
      /\ \A j \in 0 .. n : RunStart(r, j) \in Int
      /\ \A j \in 0 .. n : 0 <= RunStart(r, j) /\ RunStart(r, j) <= Len(v)
    BY <1>1, RunsInOrder
<1>3. /\ RunStart(r, 0) = 0 /\ RunStart(r, n) = Len(v) /\ IsRuns(r)
      /\ \A i, j \in 0 .. n - 1 : i < j => RunStart(r, i) < RunStart(r, j)
      /\ \A j \in 1 .. n - 1 : RunStart(r, j) < Len(v) /\ StyleOf(r, j) # StyleOf(r, j - 1)
    BY <1>1 DEF Holds, InOrder, DifferBut
<1>4. RunsLength(r) = Len(v)
    BY <1>3 DEF RunsLength
<1>5. RunsLength(r) >= 0
    BY <1>2, <1>4
<1>6. Len(r.styles) = n + 1
    BY <1>3 DEF IsRuns
<1>7. Last(r.styles) = 0
    BY <1>1, <1>6 DEF Holds, Last, StyleOf
<1>8. ASSUME NEW j \in 0 .. n - 1, RunsLength(r) > 0
      PROVE  RunStart(r, j) < RunStart(r, j + 1)
    <2> DEFINE i == j + 1
    <2>1. i \in 0 .. n /\ j \in 0 .. n /\ j < i /\ (i = n \/ i \in 0 .. n - 1)
        BY <1>2
    <2>2. CASE i = n
        <3>1. j = 0 \/ j \in 1 .. n - 1
            BY <1>2
        <3>2. RunStart(r, j) < Len(v)
            BY <3>1, <1>3, <1>4, <1>8
        <3> QED BY <2>2, <3>2, <1>3
    <2>3. CASE i \in 0 .. n - 1
        BY <2>1, <2>3, <1>3
    <2> QED BY <2>1, <2>2, <2>3
<1> HIDE DEF n
<1>9. RunsCheck(r)
    BY <1>3, <1>5, <1>6, <1>7, <1>8 DEF RunsCheck, n
<1> QED BY <1>4, <1>9

LEMMA ShadesFollow ==
    ASSUME ShadesInv
    PROVE  IndicatorsFollowText /\ CurrentIsAlive
<1> DEFINE n == Len(text)
<1>1. /\ n \in Nat /\ IsDeco(deco, n) /\ DOMAIN deco.list \subseteq Indicators
      /\ \A i \in Indicators : shades[i] \in Seq(Int) /\ Len(shades[i]) = n /\ Shade(deco, i, shades[i])
      /\ deco.current # Null => deco.current \in DOMAIN deco.list /\ deco.current = deco.indicator
    BY LenProperties DEF ShadesInv, LinesInv, DecoShows, IsDeco
<1> HIDE DEF n
<1>2. ASSUME NEW i \in Indicators
      PROVE  /\ [k \in 1 .. n |-> IndicatorAt(deco, i, k - 1)] = shades[i]
             /\ i \in DOMAIN deco.list =>
                   RunsCheck(deco.list[i]) /\ RunsLength(deco.list[i]) = n
                   /\ ~IsEmptyDecoration(deco.list[i])
    <2> DEFINE v == shades[i]
               w == [k \in 1 .. n |-> IndicatorAt(deco, i, k - 1)]
               r == deco.list[i]
    <2>1. v \in Seq(Int) /\ Len(v) = n /\ Shade(deco, i, v)
        BY <1>1
    <2> HIDE DEF v
    <2>2. CASE i \in DOMAIN deco.list
        <3>1. AreRunsOf(r, v) /\ ~AllZero(v)
            BY <2>1, <2>2 DEF Shade
        <3> HIDE DEF r
        <3>2. Len(v) > 0
            <4>1. PICK x \in 1 .. Len(v) : v[x] # 0
                BY <3>1 DEF AllZero
            <4> QED BY <4>1, <1>1, <2>1
        <3>3. ~IsEmptyDecoration(r)
            BY <3>1, <3>2, <2>1, EmptyIsZero
        <3>4. ASSUME NEW k \in 1 .. n PROVE w[k] = v[k]
            <4> DEFINE pos == k - 1
            <4>1. pos \in Nat /\ pos < Len(v) /\ pos + 1 = k
                BY <1>1, <2>1
            <4>2. w[k] = IndicatorAt(deco, i, pos)
                OBVIOUS
            <4> HIDE DEF pos, w
            <4>3. ValueAt(r, pos) = v[pos + 1]
                BY <4>1, <3>1, ValueFound DEF AreRunsOf
            <4> QED BY <4>1, <4>2, <4>3, <2>2 DEF IndicatorAt, r
        <3>5. RunsCheck(r) /\ RunsLength(r) = n
            BY <3>1, <2>1, RunsAreChecked
        <3>6. w = v
            <4>1. DOMAIN v = 1 .. n /\ v = [k \in DOMAIN v |-> v[k]]
                BY <2>1
            <4> QED BY <4>1, <3>4
        <3> QED BY <3>3, <3>5, <3>6 DEF r, v
    <2>3. CASE i \notin DOMAIN deco.list
        <3>1. AllZero(v)
            BY <2>1, <2>3 DEF Shade
        <3>2. \A k \in 1 .. n : IndicatorAt(deco, i, k - 1) = 0
            BY <2>3 DEF IndicatorAt
        <3>3. \A k \in 1 .. n : v[k] = 0
            BY <3>1, <2>1 DEF AllZero
        <3>4. DOMAIN v = 1 .. n /\ v = [k \in DOMAIN v |-> v[k]]
            BY <2>1
        <3>5. w = v
            BY <3>2, <3>3, <3>4
        <3> QED BY <3>5, <2>3 DEF v
    <2> QED BY <2>2, <2>3
<1>3. IndicatorsFollowText
    BY <1>2 DEF IndicatorsFollowText, n
<1>4. CurrentIsAlive
    BY <1>1, <1>2 DEF CurrentIsAlive
<1> QED BY <1>3, <1>4

\* Every character keeps its values of the indicators
\* (DecorationList::InsertSpace and DeleteRange, RunStyles::FillRange).
THEOREM IndicatorsAlwaysFollowText == Spec => []IndicatorsFollowText
<1>1. Init => ShadesInv
    BY ShadesInit
<1>2. ShadesInv /\ [Next]_vars => ShadesInv'
    BY ShadesStep
<1>3. ShadesInv => IndicatorsFollowText
    BY ShadesFollow
<1> QED BY <1>1, <1>2, <1>3, PTL DEF Spec

\* The decoration to be filled next is one of the list, and none of the list is
\* empty (DecorationList::current, DeleteAnyEmpty and Delete).
THEOREM CurrentIsAlwaysAlive == Spec => []CurrentIsAlive
<1>1. Init => ShadesInv
    BY ShadesInit
<1>2. ShadesInv /\ [Next]_vars => ShadesInv'
    BY ShadesStep
<1>3. ShadesInv => CurrentIsAlive
    BY ShadesFollow
<1> QED BY <1>1, <1>2, <1>3, PTL DEF Spec

(***************************************************************************)
(* The folds.  Three runs hold what is visible, expanded and high, and     *)
(* each of them is one measure of the lines.                               *)
(***************************************************************************)

VisibleOf == [x \in FoldLine |-> IF x.visible THEN 1 ELSE 0]
ExpandedOf == [x \in FoldLine |-> IF x.expanded THEN 1 ELSE 0]
HeightOf == [x \in FoldLine |-> x.height]

ValuesOf(A, f) == [k \in 1 .. Len(f) |-> A[f[k]]]

LEMMA MeasuresAre ==
    /\ VisibleOf \in [FoldLine -> Int] /\ VisibleOf[Unfolded] = 1
    /\ ExpandedOf \in [FoldLine -> Int] /\ ExpandedOf[Unfolded] = 1
    /\ HeightOf \in [FoldLine -> Int] /\ HeightOf[Unfolded] = 1
<1>1. Unfolded \in FoldLine /\ Unfolded.visible /\ Unfolded.expanded /\ Unfolded.height = 1
    BY UnfoldedIs DEF Unfolded
<1>2. \A x \in FoldLine : x.height \in Int
    BY DEF FoldLine
<1> QED BY <1>1, <1>2 DEF VisibleOf, ExpandedOf, HeightOf

LEMMA ValuesAre ==
    ASSUME NEW A \in [FoldLine -> Int], NEW f \in Seq(FoldLine)
    PROVE  /\ ValuesOf(A, f) \in Seq(Int) /\ Len(ValuesOf(A, f)) = Len(f) /\ Len(f) \in Nat
           /\ \A k \in 1 .. Len(f) : ValuesOf(A, f)[k] = A[f[k]] /\ A[f[k]] \in Int /\ f[k] \in FoldLine
<1> DEFINE n == Len(f)
<1>1. n \in Nat /\ \A k \in 1 .. n : f[k] \in FoldLine
    BY LenProperties, ElementOfSeq
<1>2. \A k \in 1 .. n : A[f[k]] \in Int
    BY <1>1
<1> HIDE DEF n
<1>3. [k \in 1 .. n |-> A[f[k]]] \in Seq(Int) /\ Len([k \in 1 .. n |-> A[f[k]]]) = n
    BY <1>1, <1>2
<1> QED BY <1>1, <1>2, <1>3 DEF ValuesOf, n

\* g is f with n lines more, the first of them of number `line'.
LinesCame(f, g, line, n) ==
    /\ g \in Seq(FoldLine) /\ Len(g) = Len(f) + n
    /\ \A k \in 1 .. Len(g) :
           g[k] = IF k <= line THEN f[k] ELSE IF k <= line + n THEN Unfolded ELSE f[k - n]

\* g is f without n lines, the first of them of number `line'.
LinesWent(f, g, line, n) ==
    /\ g \in Seq(FoldLine) /\ Len(g) = Len(f) - n
    /\ \A k \in 1 .. Len(g) : g[k] = IF k <= line THEN f[k] ELSE f[k + n]

\* g is f but for one line.
LineTook(f, g, line, x) ==
    /\ g \in Seq(FoldLine) /\ Len(g) = Len(f)
    /\ \A k \in 1 .. Len(g) : g[k] = IF k = line + 1 THEN x ELSE f[k]

\* Runs that hold v, and can grow.
AreShown(r, v) == AreRunsOf(r, v) /\ (Len(v) > 0 \/ StyleOf(r, 0) = 0)

LEMMA SetValueIs ==
    ASSUME NEW r, NEW v \in Seq(Int), AreShown(r, v), NEW line \in Nat, line < Len(v), NEW y \in Int
    PROVE  AreShown(SetValueAt(r, line, y), Filled(v, line, line + 1, y))
<1>1. Len(v) \in Nat /\ line + 1 <= Len(v) /\ 1 \in Nat \ {0}
    BY LenProperties
<1>2. AreRunsOf(FillRange(r, line, y, 1), Filled(v, line, line + 1, y))
    BY <1>1, FillRangeIs DEF AreShown
<1>3. Len(Filled(v, line, line + 1, y)) = Len(v)
    BY <1>1 DEF Filled
<1> QED BY <1>1, <1>2, <1>3 DEF AreShown, SetValueAt

LEMMA SpaceShows ==
    ASSUME NEW r, NEW v \in Seq(Int), AreShown(r, v), NEW line \in 0 .. Len(v),
           NEW w \in Seq(Int), Len(w) = Len(v) + 1,
           \A x \in 1 .. Len(w) : w[x] = IF x <= line THEN v[x] ELSE IF x <= line + 1 THEN 1 ELSE v[x - 1]
    PROVE  AreShown(WithSpace(r, line), w)
<1> DEFINE y == SpaceOf(r, line)
           u == Inserted(v, line, [k \in 1 .. 1 |-> y])
           q == InsertSpace(r, line, 1)
           z == Filled(u, line, line + 1, 1)
<1>1. Len(v) \in Nat /\ line \in Nat /\ line <= Len(v) /\ 1 \in Nat \ {0} /\ 1 \in Nat /\ 1 \in Int
    BY LenProperties
<1>2. AreRunsOf(q, u) /\ y \in Int
    BY <1>1, InsertSpaceIs DEF AreShown
<1> HIDE DEF y
<1>3. HasSpace(u, v, line, 1, y)
    BY <1>1, <1>2, SpaceIs
<1> HIDE DEF u, q
<1>4. u \in Seq(Int) /\ Len(u) = Len(w) /\ line < Len(u) /\ Len(u) > 0
    BY <1>1, <1>3 DEF HasSpace
<1>5. AreShown(SetValueAt(q, line, 1), z)
    <2>1. AreShown(q, u)
        BY <1>2, <1>4 DEF AreShown
    <2> QED BY <2>1, <1>1, <1>4, SetValueIs
<1>6. z = w
    <2>1. z \in Seq(Int) /\ Len(z) = Len(w) /\ \A x \in 1 .. Len(w) : z[x] = IF x \in line + 1 .. line + 1 THEN 1 ELSE u[x]
        <3>1. z = [x \in 1 .. Len(u) |-> IF x \in line + 1 .. line + 1 THEN 1 ELSE u[x]]
            BY DEF Filled
        <3>2. \A x \in 1 .. Len(u) : u[x] \in Int
            BY <1>4, ElementOfSeq
        <3> HIDE DEF z
        <3> QED BY <3>1, <3>2, <1>4
    <2> HIDE DEF z
    <2>2. ASSUME NEW x \in 1 .. Len(w) PROVE z[x] = w[x]
        <3>1. x \in Nat /\ x \in 1 .. Len(v) + 1
            BY <1>1
        <3>2. u[x] = IF x <= line THEN v[x] ELSE IF x <= line + 1 THEN y ELSE v[x - 1]
            BY <3>1, <1>3 DEF HasSpace
        <3>3. x \in line + 1 .. line + 1 <=> (~(x <= line) /\ x <= line + 1)
            BY <3>1, <1>1
        <3> QED BY <3>2, <3>3, <2>1
    <2> QED BY <2>1, <2>2, SeqEqual
<1> HIDE DEF z
<1> QED BY <1>5, <1>6 DEF WithSpace, q

LEMMA ValuesCame ==
    ASSUME NEW A \in [FoldLine -> Int], A[Unfolded] = 1, NEW f \in Seq(FoldLine), NEW g,
           NEW line \in 0 .. Len(f), LinesCame(f, g, line, 1),
           NEW r, AreShown(r, ValuesOf(A, f))
    PROVE  AreShown(WithSpace(r, line), ValuesOf(A, g))
<1> DEFINE v == ValuesOf(A, f)
           w == ValuesOf(A, g)
<1>1. /\ v \in Seq(Int) /\ Len(v) = Len(f) /\ Len(f) \in Nat
      /\ \A k \in 1 .. Len(f) : v[k] = A[f[k]]
    BY ValuesAre
<1>2. /\ w \in Seq(Int) /\ Len(w) = Len(g) /\ Len(g) = Len(f) + 1
      /\ \A k \in 1 .. Len(g) : w[k] = A[g[k]]
    BY ValuesAre DEF LinesCame
<1> HIDE DEF v, w
<1>3. ASSUME NEW x \in 1 .. Len(w)
      PROVE  w[x] = IF x <= line THEN v[x] ELSE IF x <= line + 1 THEN 1 ELSE v[x - 1]
    <2>1. x \in 1 .. Len(g) /\ w[x] = A[g[x]]
        BY <1>2
    <2>2. g[x] = IF x <= line THEN f[x] ELSE IF x <= line + 1 THEN Unfolded ELSE f[x - 1]
        BY <2>1 DEF LinesCame
    <2>3. CASE x <= line
        <3>1. x \in 1 .. Len(f)
            BY <2>1, <2>3, <1>1
        <3>2. g[x] = f[x] /\ v[x] = A[f[x]]
            BY <3>1, <2>2, <2>3, <1>1
        <3>3. w[x] = v[x]
            BY <3>2, <2>1
        <3> QED BY <3>3, <2>3
    <2>4. CASE ~(x <= line) /\ x <= line + 1
        BY <2>1, <2>2, <2>4
    <2>5. CASE ~(x <= line) /\ ~(x <= line + 1)
        <3>1. line \in Nat /\ x \in Nat /\ x > line + 1 /\ x <= Len(f) + 1
            BY <2>1, <2>5, <1>1, <1>2
        <3>2. x - 1 \in 1 .. Len(f)
            BY <3>1, <1>1
        <3> QED BY <3>2, <2>1, <2>2, <2>5, <1>1
    <2> QED BY <2>3, <2>4, <2>5
<1>4. line \in 0 .. Len(v) /\ Len(w) = Len(v) + 1 /\ AreShown(r, v)
    BY <1>1, <1>2 DEF v
<1>5. AreShown(WithSpace(r, line), w)
    BY <1>1, <1>2, <1>3, <1>4, SpaceShows
<1> QED BY <1>5 DEF w

LEMMA ValuesWent ==
    ASSUME NEW A \in [FoldLine -> Int], NEW f \in Seq(FoldLine), NEW g,
           NEW line \in 0 .. Len(f) - 1, LinesWent(f, g, line, 1), Len(f) > 1,
           NEW r, AreShown(r, ValuesOf(A, f))
    PROVE  AreShown(DeleteRange(r, line, 1), ValuesOf(A, g))
<1> DEFINE v == ValuesOf(A, f)
           w == ValuesOf(A, g)
           z == Deleted(v, line, 1)
<1>1. /\ v \in Seq(Int) /\ Len(v) = Len(f) /\ Len(f) \in Nat
      /\ \A k \in 1 .. Len(f) : v[k] = A[f[k]]
    BY ValuesAre
<1>2. /\ w \in Seq(Int) /\ Len(w) = Len(g) /\ Len(g) = Len(f) - 1
      /\ \A k \in 1 .. Len(g) : w[k] = A[g[k]]
    BY ValuesAre DEF LinesWent
<1>3. AreShown(r, v)
    OBVIOUS
<1> HIDE DEF v, w
<1>4. line \in Nat /\ 1 \in Nat \ {0} /\ 1 \in Nat /\ line + 1 <= Len(v) /\ 1 < Len(v)
    BY <1>1
<1>5. AreRunsOf(DeleteRange(r, line, 1), z) /\ HasCut(z, v, line, 1)
    BY <1>1, <1>3, <1>4, DeleteRangeIs, RangeCutIs DEF AreShown
<1> HIDE DEF z
<1>6. z \in Seq(Int) /\ Len(z) = Len(w) /\ Len(w) > 0
    BY <1>1, <1>2, <1>4, <1>5 DEF HasCut
<1>7. ASSUME NEW x \in 1 .. Len(w)
      PROVE  z[x] = w[x]
    <2>1. x \in 1 .. Len(g) /\ x \in 1 .. Len(v) - 1 /\ x \in 1 .. Len(f) /\ x + 1 \in 1 .. Len(f)
        BY <1>1, <1>2
    <2>2. w[x] = A[IF x <= line THEN f[x] ELSE f[x + 1]]
        BY <2>1, <1>2 DEF LinesWent
    <2>3. z[x] = IF x <= line THEN v[x] ELSE v[x + 1]
        BY <2>1, <1>5 DEF HasCut
    <2> QED BY <2>1, <2>2, <2>3, <1>1
<1>8. z = w
    BY <1>2, <1>6, <1>7, SeqEqual
<1> QED BY <1>5, <1>6, <1>8 DEF AreShown, w

LEMMA ValuesTook ==
    ASSUME NEW A \in [FoldLine -> Int], NEW f \in Seq(FoldLine), NEW g, NEW x \in FoldLine,
           NEW line \in 0 .. Len(f) - 1, LineTook(f, g, line, x),
           NEW r, AreShown(r, ValuesOf(A, f))
    PROVE  /\ AreShown(SetValueAt(r, line, A[x]), ValuesOf(A, g))
           /\ A[x] = A[f[line + 1]] => AreShown(r, ValuesOf(A, g))
<1> DEFINE v == ValuesOf(A, f)
           w == ValuesOf(A, g)
           z == Filled(v, line, line + 1, A[x])
<1>1. /\ v \in Seq(Int) /\ Len(v) = Len(f) /\ Len(f) \in Nat
      /\ \A k \in 1 .. Len(f) : v[k] = A[f[k]] /\ v[k] \in Int
    BY ValuesAre
<1>2. /\ w \in Seq(Int) /\ Len(w) = Len(g) /\ Len(g) = Len(f)
      /\ \A k \in 1 .. Len(g) : w[k] = A[g[k]]
    BY ValuesAre DEF LineTook
<1>3. AreShown(r, v)
    OBVIOUS
<1>4. z = [k \in 1 .. Len(v) |-> IF k \in line + 1 .. line + 1 THEN A[x] ELSE v[k]]
    BY DEF Filled
<1>5. A[x] \in Int
    OBVIOUS
<1> HIDE DEF v, w, z
<1>6. line \in Nat /\ line < Len(v) /\ line + 1 \in 1 .. Len(f)
    BY <1>1
<1>7. ASSUME NEW k \in 1 .. Len(f) PROVE w[k] = IF k = line + 1 THEN A[x] ELSE v[k]
    <2>1. g[k] = IF k = line + 1 THEN x ELSE f[k]
        BY <1>2 DEF LineTook
    <2>2. w[k] = A[g[k]] /\ v[k] = A[f[k]]
        BY <1>1, <1>2
    <2> QED BY <2>1, <2>2
<1>8. z \in Seq(Int) /\ Len(z) = Len(f) /\ \A k \in 1 .. Len(f) : z[k] = IF k = line + 1 THEN A[x] ELSE v[k]
    <2>1. \A k \in 1 .. Len(f) : k \in line + 1 .. line + 1 <=> k = line + 1
        BY <1>6
    <2>2. z = [k \in 1 .. Len(f) |-> IF k = line + 1 THEN A[x] ELSE v[k]]
        BY <2>1, <1>1, <1>4
    <2> QED BY <2>2, <1>1, <1>5
<1>9. z = w
    BY <1>2, <1>7, <1>8, SeqEqual
<1>10. AreShown(SetValueAt(r, line, A[x]), z)
    BY <1>1, <1>3, <1>5, <1>6, SetValueIs DEF z
<1>11. ASSUME A[x] = A[f[line + 1]] PROVE v = w
    <2>1. \A k \in 1 .. Len(f) : v[k] = w[k]
        BY <1>1, <1>6, <1>7, <1>11
    <2> QED BY <2>1, <1>1, <1>2, SeqEqual
<1> QED BY <1>3, <1>9, <1>10, <1>11 DEF w

\* The rows that a line takes.
RowsOf(x) == IF x.visible THEN x.height ELSE 0

\* The rows of line k begin after those of the lines before.
IsRows(p, f) ==
    /\ WellFormed(p) /\ Partitions(p) = Len(f) + 1
    /\ PositionFromPartition(p, 0) = 0
    /\ \A k \in 0 .. Len(f) - 1 :
           PositionFromPartition(p, k + 1) = PositionFromPartition(p, k) + RowsOf(f[k + 1])

LEMMA RowsAre ==
    ASSUME NEW f \in Seq(FoldLine)
    PROVE  Len(f) \in Nat /\ \A k \in 1 .. Len(f) : RowsOf(f[k]) \in Int /\ f[k] \in FoldLine
<1>1. Len(f) \in Nat /\ \A k \in 1 .. Len(f) : f[k] \in FoldLine
    BY LenProperties, ElementOfSeq
<1>2. \A x \in FoldLine : RowsOf(x) \in Int
    BY DEF FoldLine, RowsOf
<1> QED BY <1>1, <1>2

LEMMA RowsCome ==
    ASSUME NEW f \in Seq(FoldLine), NEW p, IsRows(p, f), NEW line \in 0 .. Len(f), NEW g,
           LinesCame(f, g, line, 1)
    PROVE  IsRows(InsertText(InsertPartition(p, line, PositionFromPartition(p, line)), line, 1), g)
<1> DEFINE q == InsertPartition(p, line, PositionFromPartition(p, line))
           r == InsertText(q, line, 1)
           n == Len(f)
           At(j) == PositionFromPartition(p, j)
           On(j) == PositionFromPartition(r, j)
<1>1. /\ n \in Nat /\ WellFormed(p) /\ Partitions(p) = n + 1 /\ line \in 0 .. n /\ At(0) = 0
      /\ Len(p.body) = n + 2 /\ line \in Int /\ line \in 0 .. Partitions(p)
      /\ \A j \in 0 .. n + 1 : At(j) \in Int
    <2>1. n \in Nat /\ WellFormed(p) /\ Partitions(p) = n + 1
        BY RowsAre DEF IsRows
    <2>2. Partitions(p) = Len(p.body) - 1 /\ \A j \in 0 .. Partitions(p) : At(j) \in Int
        BY <2>1, PlaceIsNumber
    <2>3. Len(p.body) \in Nat
        BY <2>1, Form
    <2> HIDE DEF n
    <2> QED BY <2>1, <2>2, <2>3 DEF IsRows, n
<1>2. At(line) \in Int
    BY <1>1
<1>3. /\ WellFormed(q) /\ Len(q.body) = n + 3
      /\ \A j \in 0 .. n + 2 :
             PositionFromPartition(q, j) = IF j < line THEN At(j) ELSE IF j = line THEN At(line) ELSE At(j - 1)
    <2>1. /\ WellFormed(q) /\ Len(q.body) = Len(p.body) + 1
          /\ \A j \in Bounds(q) :
                 PositionFromPartition(q, j) = IF j < line THEN At(j) ELSE IF j = line THEN At(line) ELSE At(j - 1)
        BY <1>1, <1>2, InsertPartitionShifts
    <2> HIDE DEF q, n
    <2>2. Len(q.body) = n + 3 /\ Bounds(q) = 0 .. n + 2
        BY <2>1, <1>1 DEF Bounds
    <2> QED BY <2>1, <2>2
<1> HIDE DEF q
<1>4. /\ WellFormed(r) /\ Partitions(r) = n + 2
      /\ \A j \in 0 .. n + 2 : On(j) = PositionFromPartition(q, j) + (IF j > line THEN 1 ELSE 0)
    <2>1. Partitions(q) = n + 2 /\ line \in 0 .. Partitions(q) /\ Bounds(q) = 0 .. n + 2 /\ 1 \in Int
        BY <1>1, <1>3 DEF Partitions, Bounds
    <2>2. /\ WellFormed(r) /\ Len(r.body) = Len(q.body)
          /\ \A j \in Bounds(q) : On(j) = PositionFromPartition(q, j) + (IF j > line THEN 1 ELSE 0)
        BY <2>1, <1>3, InsertTextMovesLater
    <2> HIDE DEF r
    <2>3. Partitions(r) = n + 2
        BY <2>2, <1>3, <1>1 DEF Partitions
    <2> QED BY <2>1, <2>2, <2>3
<1> HIDE DEF n, r
<1>5. ASSUME NEW j \in 0 .. n + 2
      PROVE  On(j) = IF j <= line THEN At(j) ELSE At(j - 1) + 1
    <2>1. j \in Int /\ On(j) = PositionFromPartition(q, j) + (IF j > line THEN 1 ELSE 0)
        BY <1>1, <1>4
    <2>2. CASE j <= line
        <3>1. PositionFromPartition(q, j) = At(j) /\ At(j) \in Int /\ ~(j > line)
            BY <2>1, <2>2, <1>1, <1>3
        <3> HIDE DEF At, On
        <3> QED BY <2>1, <2>2, <3>1
    <2>3. CASE ~(j <= line)
        <3>1. PositionFromPartition(q, j) = At(j - 1) /\ j > line
            BY <2>1, <2>3, <1>1, <1>3
        <3> HIDE DEF At, On
        <3> QED BY <2>1, <2>3, <3>1
    <2> QED BY <2>2, <2>3
<1>6. Len(g) = n + 1 /\ \A k \in 1 .. n + 1 : g[k] = IF k <= line THEN f[k] ELSE IF k <= line + 1 THEN Unfolded ELSE f[k - 1]
    BY DEF LinesCame, n
<1>7. \A k \in 0 .. n - 1 : At(k + 1) = At(k) + RowsOf(f[k + 1])
    BY DEF IsRows, n
<1> HIDE DEF At, On
<1>8. ASSUME NEW k \in 0 .. Len(g) - 1
      PROVE  On(k + 1) = On(k) + RowsOf(g[k + 1])
    <2>1. k \in 0 .. n /\ k \in Int /\ k + 1 \in 1 .. n + 1 /\ k \in 0 .. n + 2 /\ k + 1 \in 0 .. n + 2
        BY <1>1, <1>6
    <2>2. On(k) = IF k <= line THEN At(k) ELSE At(k - 1) + 1
        BY <2>1, <1>5
    <2>3. On(k + 1) = IF k + 1 <= line THEN At(k + 1) ELSE At(k) + 1
        <3>1. (k + 1) - 1 = k
            BY <2>1
        <3> QED BY <2>1, <3>1, <1>5
    <2>4. CASE k + 1 <= line
        <3>1. k <= line /\ k \in 0 .. n - 1
            BY <2>1, <2>4, <1>1
        <3>2. g[k + 1] = f[k + 1]
            BY <2>1, <2>4, <1>6
        <3> QED BY <2>2, <2>3, <2>4, <3>1, <3>2, <1>7
    <2>5. CASE k = line
        <3>1. k <= line /\ ~(k + 1 <= line) /\ k + 1 <= line + 1
            BY <2>1, <2>5, <1>1
        <3>2. g[k + 1] = Unfolded
            BY <2>1, <3>1, <1>6
        <3>3. RowsOf(Unfolded) = 1
            BY DEF RowsOf, Unfolded
        <3> QED BY <2>2, <2>3, <3>1, <3>2, <3>3
    <2>6. CASE k > line
        <3> DEFINE i == k - 1
        <3>1. ~(k <= line) /\ ~(k + 1 <= line) /\ ~(k + 1 <= line + 1) /\ i \in 0 .. n - 1 /\ i + 1 = k
              /\ (k + 1) - 1 = k
            BY <2>1, <2>6, <1>1
        <3>2. g[k + 1] = f[k]
            BY <2>1, <3>1, <1>6
        <3> HIDE DEF i
        <3>3. At(i + 1) = At(i) + RowsOf(f[i + 1])
            BY <3>1, <1>7
        <3>4. At(k) = At(i) + RowsOf(f[k])
            BY <3>1, <3>3
        <3>5. On(k) = At(i) + 1 /\ On(k + 1) = At(k) + 1 /\ RowsOf(g[k + 1]) = RowsOf(f[k])
            BY <2>2, <2>3, <3>1, <3>2 DEF i
        <3>6. At(i) \in Int /\ RowsOf(f[k]) \in Int
            <4>1. i \in 0 .. n + 1 /\ k \in 1 .. Len(f)
                BY <3>1, <2>1, <1>1 DEF n
            <4> QED BY <4>1, <1>1, RowsAre
        <3> QED BY <3>4, <3>5, <3>6
    <2>7. k + 1 <= line \/ k = line \/ k > line
        BY <2>1, <1>1
    <2> QED BY <2>4, <2>5, <2>6, <2>7
<1>9. On(0) = 0
    <2>1. 0 \in 0 .. n + 2 /\ 0 <= line
        BY <1>1
    <2> QED BY <2>1, <1>5, <1>1
<1>10. Partitions(r) = Len(g) + 1
    BY <1>1, <1>4, <1>6
<1>11. IsRows(r, g)
    BY <1>4, <1>8, <1>9, <1>10 DEF IsRows, On
<1> QED BY <1>11 DEF r, q

\* As many rows more or less at one line.
LEMMA RowsChange ==
    ASSUME NEW f \in Seq(FoldLine), NEW p, IsRows(p, f), NEW line \in 0 .. Len(f) - 1, NEW d \in Int
    PROVE  LET q == InsertText(p, line, d)
           IN  /\ WellFormed(q) /\ Partitions(q) = Len(f) + 1
               /\ \A j \in 0 .. Len(f) + 1 :
                      PositionFromPartition(q, j) = PositionFromPartition(p, j) + (IF j > line THEN d ELSE 0)
<1> DEFINE q == InsertText(p, line, d)
           n == Len(f)
<1>1. n \in Nat /\ WellFormed(p) /\ Partitions(p) = n + 1 /\ line \in 0 .. n - 1
    BY RowsAre DEF IsRows
<1>2. line \in 0 .. Partitions(p) /\ Partitions(p) = Len(p.body) - 1 /\ Bounds(p) = 0 .. n + 1
    <2>1. Partitions(p) = Len(p.body) - 1 /\ Bounds(p) = 0 .. Partitions(p)
        BY <1>1, PlaceIsNumber
    <2> HIDE DEF n
    <2> QED BY <2>1, <1>1
<1>3. /\ WellFormed(q) /\ Len(q.body) = Len(p.body)
      /\ \A j \in Bounds(p) :
             PositionFromPartition(q, j) = PositionFromPartition(p, j) + (IF j > line THEN d ELSE 0)
    BY <1>1, <1>2, InsertTextMovesLater
<1> HIDE DEF q
<1>4. Partitions(q) = n + 1
    BY <1>1, <1>2, <1>3 DEF Partitions
<1> QED BY <1>2, <1>3, <1>4 DEF q

LEMMA RowsGo ==
    ASSUME NEW f \in Seq(FoldLine), NEW p, IsRows(p, f), NEW line \in 0 .. Len(f) - 1, Len(f) > 1, NEW g,
           LinesWent(f, g, line, 1), NEW q, q = IF f[line + 1].visible THEN InsertText(p, line, -f[line + 1].height) ELSE p
    PROVE  IsRows(RemovePartition(q, line), g)
<1> DEFINE n == Len(f)
           d == RowsOf(f[line + 1])
           r == RemovePartition(q, line)
           At(j) == PositionFromPartition(p, j)
           On(j) == PositionFromPartition(r, j)
<1>1. /\ n \in Nat /\ n > 1 /\ WellFormed(p) /\ Partitions(p) = n + 1 /\ line \in 0 .. n - 1 /\ line \in Int
      /\ At(0) = 0 /\ d \in Int /\ line + 1 \in 1 .. n
      /\ \A j \in 0 .. n + 1 : At(j) \in Int
    <2>1. n \in Nat /\ WellFormed(p) /\ Partitions(p) = n + 1 /\ At(0) = 0 /\ line + 1 \in 1 .. n /\ n > 1
        BY RowsAre DEF IsRows
    <2>2. d \in Int
        BY <2>1, RowsAre
    <2>3. \A j \in 0 .. Partitions(p) : At(j) \in Int
        BY <2>1, PlaceIsNumber
    <2> HIDE DEF n, d
    <2> QED BY <2>1, <2>2, <2>3 DEF n
<1>2. /\ WellFormed(q) /\ Partitions(q) = n + 1
      /\ \A j \in 0 .. n + 1 :
             PositionFromPartition(q, j) = At(j) - (IF j > line THEN d ELSE 0)
    <2>1. CASE f[line + 1].visible
        <3> DEFINE h == f[line + 1].height
        <3>1. d = h /\ q = InsertText(p, line, -h)
            BY <2>1 DEF RowsOf
        <3> HIDE DEF h, d
        <3>2. -h \in Int
            BY <1>1, <3>1
        <3>3. /\ WellFormed(q) /\ Partitions(q) = Len(f) + 1
              /\ \A j \in 0 .. Len(f) + 1 :
                     PositionFromPartition(q, j) = PositionFromPartition(p, j) + (IF j > line THEN -h ELSE 0)
            BY <3>1, <3>2, RowsChange
        <3>4. ASSUME NEW j \in 0 .. n + 1
              PROVE  PositionFromPartition(q, j) = At(j) - (IF j > line THEN d ELSE 0)
            BY <3>1, <3>2, <3>3, <1>1
        <3> QED BY <3>3, <3>4
    <2>2. CASE ~f[line + 1].visible
        <3>1. d = 0 /\ q = p
            BY <2>2 DEF RowsOf
        <3>2. ASSUME NEW j \in 0 .. n + 1
              PROVE  PositionFromPartition(q, j) = At(j) - (IF j > line THEN d ELSE 0)
            <4>1. At(j) \in Int
                BY <1>1
            <4> HIDE DEF d
            <4> QED BY <3>1, <4>1
        <3> QED BY <3>1, <3>2, <1>1
    <2> QED BY <2>1, <2>2
<1>3. /\ WellFormed(r) /\ Partitions(r) = n
      /\ \A j \in 0 .. n : On(j) = IF j < line THEN At(j) ELSE At(j + 1) - d
    <2> HIDE DEF n, d
    <2>1. Partitions(q) > 1 /\ line \in 0 .. Partitions(q) /\ Partitions(q) = Len(q.body) - 1
        <3>1. Partitions(q) = n + 1 /\ Partitions(q) = Len(q.body) - 1
            BY <1>2, PlaceIsNumber
        <3>2. n \in Nat /\ n > 1 /\ line \in 0 .. n - 1
            BY <1>1
        <3> QED BY <3>1, <3>2
    <2>2. /\ WellFormed(r) /\ Len(r.body) = Len(q.body) - 1
          /\ \A j \in Bounds(r) :
                 On(j) = IF j < line THEN PositionFromPartition(q, j) ELSE PositionFromPartition(q, j + 1)
        BY <1>2, <2>1, RemovePartitionShifts
    <2> HIDE DEF r
    <2>3. Partitions(r) = n /\ Bounds(r) = 0 .. n
        <3>1. Len(r.body) = n + 1
            <4>1. Len(q.body) \in Nat
                BY <1>2, Form
            <4> QED BY <4>1, <2>1, <2>2, <1>1, <1>2
        <3> QED BY <3>1, <1>1 DEF Partitions, Bounds
    <2>4. ASSUME NEW j \in 0 .. n PROVE On(j) = IF j < line THEN At(j) ELSE At(j + 1) - d
        <3>1. /\ On(j) = IF j < line THEN PositionFromPartition(q, j) ELSE PositionFromPartition(q, j + 1)
              /\ j \in 0 .. n + 1 /\ j + 1 \in 0 .. n + 1 /\ j \in Int
            <4>1. j \in Bounds(r) /\ j \in 0 .. n + 1 /\ j + 1 \in 0 .. n + 1 /\ j \in Int
                BY <2>3, <1>1
            <4> HIDE DEF On
            <4> QED BY <2>2, <4>1
        <3>2. CASE j < line
            <4>1. PositionFromPartition(q, j) = At(j) - 0 /\ At(j) \in Int
                BY <3>1, <3>2, <1>1, <1>2
            <4> QED BY <4>1, <3>1, <3>2
        <3>3. CASE ~(j < line)
            <4>1. j + 1 > line
                BY <3>1, <3>3, <1>1
            <4>2. PositionFromPartition(q, j + 1) = At(j + 1) - d
                BY <3>1, <4>1, <1>2
            <4> QED BY <4>2, <3>1, <3>3
        <3> QED BY <3>2, <3>3
    <2> QED BY <2>2, <2>3, <2>4
<1>4. Len(g) = n - 1 /\ \A k \in 1 .. n - 1 : g[k] = IF k <= line THEN f[k] ELSE f[k + 1]
    BY DEF LinesWent
<1>5. \A k \in 0 .. n - 1 : At(k + 1) = At(k) + RowsOf(f[k + 1])
    BY DEF IsRows
<1>6. \A k \in 1 .. n : RowsOf(f[k]) \in Int
    BY RowsAre
<1>7. At(line + 1) = At(line) + d
    BY <1>1, <1>5
<1> HIDE DEF At, On, n, d, r
<1>8. ASSUME NEW k \in 0 .. Len(g) - 1
      PROVE  On(k + 1) = On(k) + RowsOf(g[k + 1])
    <2>1. k \in 0 .. n - 2 /\ k \in Int /\ k + 1 \in 1 .. n - 1 /\ k \in 0 .. n /\ k + 1 \in 0 .. n
        BY <1>1, <1>4
    <2> DEFINE i == k + 1
    <2>2. /\ On(k) = IF k < line THEN At(k) ELSE At(i) - d
          /\ On(i) = IF i < line THEN At(i) ELSE At(i + 1) - d
        BY <2>1, <1>3
    <2>3. /\ At(i) = At(k) + RowsOf(f[i]) /\ At(i + 1) = At(i) + RowsOf(f[i + 1])
          /\ RowsOf(f[i]) \in Int /\ RowsOf(f[i + 1]) \in Int /\ At(k) \in Int /\ At(i) \in Int
        <3>1. k \in 0 .. n - 1 /\ i \in 0 .. n - 1 /\ i \in 1 .. n /\ i + 1 \in 1 .. n
              /\ k \in 0 .. n + 1 /\ i \in 0 .. n + 1
            BY <2>1, <1>1
        <3> HIDE DEF i
        <3>2. At(k) \in Int /\ At(i) \in Int /\ RowsOf(f[i]) \in Int /\ RowsOf(f[i + 1]) \in Int
            BY <3>1, <1>1, <1>6
        <3>3. At(k + 1) = At(k) + RowsOf(f[k + 1])
            BY <3>1, <1>5
        <3>4. At(i + 1) = At(i) + RowsOf(f[i + 1])
            BY <3>1, <1>5
        <3> QED BY <3>2, <3>3, <3>4 DEF i
    <2>4. g[i] = IF i <= line THEN f[i] ELSE f[i + 1]
        BY <2>1, <1>4
    <2>5. CASE i < line
        <3>1. k < line /\ i <= line
            BY <2>1, <2>5, <1>1
        <3> HIDE DEF i
        <3> QED BY <3>1, <2>2, <2>3, <2>4, <2>5 DEF i
    <2>6. CASE i = line
        <3>1. k < line /\ i <= line /\ ~(i < line)
            BY <2>1, <2>6, <1>1
        <3>2. At(i + 1) = At(i) + d
            BY <2>6, <1>7
        <3> HIDE DEF i
        <3>3. On(k) = At(k) /\ On(i) = (At(i) + d) - d /\ g[i] = f[i]
            BY <3>1, <3>2, <2>2, <2>4
        <3>4. d \in Int /\ At(k) \in Int /\ At(i) = At(k) + RowsOf(f[i]) /\ RowsOf(f[i]) \in Int
            BY <2>3, <1>1
        <3>5. On(i) = On(k) + RowsOf(g[i])
            BY <3>3, <3>4
        <3> QED BY <3>5 DEF i
    <2>7. CASE i > line
        <3>1. ~(k < line) /\ ~(i <= line) /\ ~(i < line)
            BY <2>1, <2>7, <1>1
        <3> HIDE DEF i
        <3>2. On(k) = At(i) - d /\ On(i) = At(i + 1) - d /\ g[i] = f[i + 1]
            BY <3>1, <2>2, <2>4
        <3>3. /\ d \in Int /\ At(i) \in Int /\ RowsOf(f[i + 1]) \in Int
              /\ At(i + 1) = At(i) + RowsOf(f[i + 1])
            BY <2>3, <1>1
        <3>4. On(i) = On(k) + RowsOf(g[i])
            BY <3>2, <3>3
        <3> QED BY <3>4 DEF i
    <2>8. i < line \/ i = line \/ i > line
        BY <2>1, <1>1
    <2> QED BY <2>5, <2>6, <2>7, <2>8
<1>9. On(0) = 0
    <2>1. 0 \in 0 .. n /\ 0 + 1 = 1
        BY <1>1
    <2>2. On(0) = IF 0 < line THEN At(0) ELSE At(1) - d
        BY <2>1, <1>3
    <2>3. CASE 0 < line
        BY <2>2, <2>3, <1>1
    <2>4. CASE ~(0 < line)
        <3>1. line = 0
            BY <2>4, <1>1
        <3>2. At(1) = 0 + d
            BY <3>1, <1>1, <1>7
        <3> QED BY <2>2, <2>4, <3>2, <1>1
    <2> QED BY <2>3, <2>4
<1>10. Partitions(r) = Len(g) + 1
    BY <1>1, <1>3, <1>4
<1> QED BY <1>3, <1>8, <1>9, <1>10 DEF IsRows, On, r

LEMMA RowsTake ==
    ASSUME NEW f \in Seq(FoldLine), NEW p, IsRows(p, f), NEW line \in 0 .. Len(f) - 1, NEW x \in FoldLine,
           NEW g, LineTook(f, g, line, x)
    PROVE  /\ \A d \in Int : RowsOf(x) = RowsOf(f[line + 1]) + d => IsRows(InsertText(p, line, d), g)
           /\ RowsOf(x) = RowsOf(f[line + 1]) => IsRows(p, g)
<1> DEFINE n == Len(f)
           At(j) == PositionFromPartition(p, j)
<1>1. /\ n \in Nat /\ WellFormed(p) /\ Partitions(p) = n + 1 /\ line \in 0 .. n - 1 /\ line \in Int
      /\ At(0) = 0 /\ line + 1 \in 1 .. n
      /\ \A j \in 0 .. n + 1 : At(j) \in Int
      /\ \A k \in 0 .. n - 1 : At(k + 1) = At(k) + RowsOf(f[k + 1])
      /\ \A k \in 1 .. n : RowsOf(f[k]) \in Int
    <2>1. n \in Nat /\ WellFormed(p) /\ Partitions(p) = n + 1 /\ At(0) = 0 /\ line + 1 \in 1 .. n
        BY RowsAre DEF IsRows
    <2>2. \A j \in 0 .. Partitions(p) : At(j) \in Int
        BY <2>1, PlaceIsNumber
    <2>3. \A k \in 0 .. n - 1 : At(k + 1) = At(k) + RowsOf(f[k + 1])
        BY DEF IsRows
    <2>4. \A k \in 1 .. n : RowsOf(f[k]) \in Int
        BY RowsAre
    <2> HIDE DEF n
    <2> QED BY <2>1, <2>2, <2>3, <2>4 DEF n
<1>2. Len(g) = n /\ \A k \in 1 .. n : g[k] = IF k = line + 1 THEN x ELSE f[k]
    BY DEF LineTook
<1>3. ASSUME NEW d \in Int, RowsOf(x) = RowsOf(f[line + 1]) + d, NEW q,
             WellFormed(q), Partitions(q) = n + 1,
             \A j \in 0 .. n + 1 : PositionFromPartition(q, j) = At(j) + (IF j > line THEN d ELSE 0)
      PROVE  IsRows(q, g)
    <2> DEFINE On(j) == PositionFromPartition(q, j)
    <2>0. \A j \in 0 .. n + 1 : On(j) = At(j) + (IF j > line THEN d ELSE 0)
        BY <1>3
    <2> HIDE DEF At, On, n
    <2>1. ASSUME NEW k \in 0 .. n - 1
          PROVE  On(k + 1) = On(k) + RowsOf(g[k + 1])
        <3> DEFINE i == k + 1
        <3>1. k \in 0 .. n + 1 /\ i \in 0 .. n + 1 /\ i \in 1 .. n /\ k \in Int
            BY <1>1
        <3>2. /\ On(k) = At(k) + (IF k > line THEN d ELSE 0) /\ On(i) = At(i) + (IF i > line THEN d ELSE 0)
              /\ At(k) \in Int /\ At(i) \in Int
            BY <3>1, <2>0, <1>1
        <3>3. At(i) = At(k) + RowsOf(f[i]) /\ RowsOf(f[i]) \in Int
            BY <3>1, <1>1
        <3>4. CASE k = line
            <4>1. i > line /\ ~(k > line) /\ RowsOf(g[i]) = RowsOf(f[i]) + d
                <5>1. i > line /\ ~(k > line) /\ i = line + 1
                    BY <3>1, <3>4, <1>1
                <5> HIDE DEF i
                <5>2. g[i] = x
                    BY <5>1, <3>1, <1>2
                <5> QED BY <5>1, <5>2, <1>3
            <4> HIDE DEF i
            <4>2. On(i) = On(k) + RowsOf(g[i])
                BY <4>1, <3>2, <3>3
            <4> QED BY <4>2 DEF i
        <3>5. CASE k # line
            <4>1. (i > line <=> k > line) /\ g[i] = f[i]
                <5>1. (i > line <=> k > line) /\ i # line + 1
                    BY <3>1, <3>5, <1>1
                <5> HIDE DEF i
                <5> QED BY <5>1, <3>1, <1>2
            <4> HIDE DEF i
            <4>2. On(i) = On(k) + RowsOf(g[i])
                BY <4>1, <3>2, <3>3
            <4> QED BY <4>2 DEF i
        <3> QED BY <3>4, <3>5
    <2>2. On(0) = 0
        <3>1. 0 \in 0 .. n + 1 /\ ~(0 > line)
            BY <1>1
        <3>2. On(0) = At(0) + 0
            BY <3>1, <2>0
        <3> QED BY <3>2, <1>1
    <2> QED BY <2>1, <2>2, <1>2, <1>3 DEF IsRows, On
<1>4. ASSUME NEW d \in Int, RowsOf(x) = RowsOf(f[line + 1]) + d
      PROVE  IsRows(InsertText(p, line, d), g)
    <2> DEFINE q == InsertText(p, line, d)
    <2>1. /\ WellFormed(q) /\ Partitions(q) = n + 1
          /\ \A j \in 0 .. n + 1 : PositionFromPartition(q, j) = At(j) + (IF j > line THEN d ELSE 0)
        BY RowsChange
    <2> HIDE DEF q, n, At
    <2>2. IsRows(q, g)
        BY <2>1, <1>3, <1>4
    <2> QED BY <2>2 DEF q
<1>5. ASSUME RowsOf(x) = RowsOf(f[line + 1])
      PROVE  IsRows(p, g)
    <2>1. RowsOf(x) = RowsOf(f[line + 1]) + 0 /\ 0 \in Int
        BY <1>5, <1>1
    <2>2. ASSUME NEW j \in 0 .. n + 1 PROVE PositionFromPartition(p, j) = At(j) + (IF j > line THEN 0 ELSE 0)
        <3>1. At(j) \in Int
            BY <1>1
        <3> QED BY <3>1
    <2> HIDE DEF n, At
    <2> QED BY <2>1, <2>2, <1>1, <1>3
<1> QED BY <1>4, <1>5

IsContraction(c) ==
    c = [data |-> c.data, linesInDocument |-> c.linesInDocument, visible |-> c.visible,
         expanded |-> c.expanded, heights |-> c.heights, displayLines |-> c.displayLines]

\* Nothing is folded or wrapped, and only the lines are counted.
PlainFolds(c, f) ==
    /\ f \in Seq(FoldLine) /\ IsContraction(c) /\ OneToOne(c)
    /\ c.linesInDocument = Len(f)
    /\ \A k \in 1 .. Len(f) : f[k] = Unfolded

\* The runs hold what was set for the lines, and the rows are theirs.
FoldRuns(c, f) ==
    /\ f \in Seq(FoldLine) /\ IsContraction(c) /\ ~OneToOne(c)
    /\ AreShown(c.visible, ValuesOf(VisibleOf, f))
    /\ AreShown(c.expanded, ValuesOf(ExpandedOf, f))
    /\ AreShown(c.heights, ValuesOf(HeightOf, f))
    /\ IsRows(c.displayLines, f)

FoldData(c, f) == PlainFolds(c, f) \/ FoldRuns(c, f)

LEMMA SmallerIs ==
    ASSUME NEW a \in Int, NEW b \in Int, a <= b
    PROVE  Min({a, b}) = a
<1>1. Min({a, b}) \in {a, b} /\ \A y \in {a, b} : Min({a, b}) =< y
    BY DEF Min
<1> QED BY <1>1

LEMMA FoldRead ==
    ASSUME NEW c, NEW f, FoldRuns(c, f), NEW line \in 0 .. Len(f) - 1
    PROVE  /\ GetVisible(c, line) <=> f[line + 1].visible
           /\ GetExpanded(c, line) <=> f[line + 1].expanded
           /\ GetHeight(c, line) = f[line + 1].height /\ ValueAt(c.heights, line) = f[line + 1].height
           /\ f[line + 1] \in FoldLine
<1> DEFINE n == Len(f)
<1>1. f \in Seq(FoldLine) /\ n \in Nat /\ line + 1 \in 1 .. n /\ line \in Nat /\ line < n
    BY RowsAre DEF FoldRuns
<1>2. f[line + 1] \in FoldLine
    BY <1>1, RowsAre
<1>3. ASSUME NEW A \in [FoldLine -> Int], NEW r, AreShown(r, ValuesOf(A, f))
      PROVE  ValueAt(r, line) = A[f[line + 1]] /\ RunsLength(r) = n
    <2> DEFINE v == ValuesOf(A, f)
    <2>1. Len(v) = n /\ v[line + 1] = A[f[line + 1]]
        BY <1>1, ValuesAre
    <2>2. AreRunsOf(r, v)
        BY <1>3 DEF AreShown
    <2> HIDE DEF v, n
    <2>3. ValueAt(r, line) = v[line + 1]
        BY <1>1, <2>1, <2>2, ValueFound DEF AreRunsOf
    <2> QED BY <2>1, <2>2, <2>3, RunsAreChecked
<1> HIDE DEF n
<1>4. ValueAt(c.visible, line) = VisibleOf[f[line + 1]] /\ RunsLength(c.visible) = n
    BY <1>3, MeasuresAre DEF FoldRuns
<1>5. ValueAt(c.expanded, line) = ExpandedOf[f[line + 1]]
    BY <1>3, MeasuresAre DEF FoldRuns
<1>6. ValueAt(c.heights, line) = HeightOf[f[line + 1]]
    BY <1>3, MeasuresAre DEF FoldRuns
<1>7. ~OneToOne(c) /\ ~(line >= n)
    BY <1>1 DEF FoldRuns
<1>8. HeightOf[f[line + 1]] = f[line + 1].height
    BY <1>2 DEF HeightOf
<1>9. VisibleOf[f[line + 1]] = 1 <=> f[line + 1].visible
    BY <1>2 DEF VisibleOf
<1>10. ExpandedOf[f[line + 1]] = 1 <=> f[line + 1].expanded
    BY <1>2 DEF ExpandedOf
<1>11. GetVisible(c, line) <=> f[line + 1].visible
    BY <1>4, <1>7, <1>9 DEF GetVisible
<1>12. GetExpanded(c, line) <=> f[line + 1].expanded
    BY <1>5, <1>7, <1>10 DEF GetExpanded
<1>13. GetHeight(c, line) = f[line + 1].height
    BY <1>6, <1>7, <1>8 DEF GetHeight
<1> QED BY <1>2, <1>6, <1>8, <1>11, <1>12, <1>13

LEMMA RowsRead ==
    ASSUME NEW c, NEW f, FoldRuns(c, f)
    PROVE  /\ LinesInDoc(c) = Len(f)
           /\ \A line \in 0 .. Len(f) : DisplayFromDoc(c, line) = PositionFromPartition(c.displayLines, line)
<1> DEFINE n == Len(f)
           p == c.displayLines
<1>1. n \in Nat /\ Partitions(p) = n + 1 /\ ~OneToOne(c)
    BY RowsAre DEF FoldRuns, IsRows
<1> HIDE DEF n, p
<1>2. LinesInDoc(c) = n
    BY <1>1 DEF LinesInDoc, p
<1>3. ASSUME NEW line \in 0 .. n PROVE DisplayFromDoc(c, line) = PositionFromPartition(p, line)
    <2>1. Min({line, Partitions(p)}) = line
        BY <1>1, SmallerIs
    <2> QED BY <2>1, <1>1 DEF DisplayFromDoc, p
<1> QED BY <1>2, <1>3 DEF n, p

LEMMA FoldComes ==
    ASSUME NEW c, NEW f, FoldData(c, f), NEW line \in 0 .. Len(f), NEW g, LinesCame(f, g, line, 1)
    PROVE  FoldData(InsertFoldLine(c, line), g)
<1>1. CASE PlainFolds(c, f)
    <2> DEFINE n == Len(f)
               d == InsertFoldLine(c, line)
    <2>1. f \in Seq(FoldLine) /\ n \in Nat /\ OneToOne(c) /\ c.linesInDocument = n /\ IsContraction(c)
          /\ line \in Int
        BY <1>1, RowsAre DEF PlainFolds
    <2>2. d = [c EXCEPT !.linesInDocument = c.linesInDocument + 1]
        BY <2>1 DEF InsertFoldLine
    <2> HIDE DEF d
    <2>3. IsContraction(d) /\ OneToOne(d) /\ d.linesInDocument = n + 1
        BY <2>1, <2>2 DEF IsContraction, OneToOne
    <2>4. ASSUME NEW k \in 1 .. Len(g) PROVE g[k] = Unfolded
        <3>1. /\ g[k] = IF k <= line THEN f[k] ELSE IF k <= line + 1 THEN Unfolded ELSE f[k - 1]
              /\ k \in 1 .. n + 1
            BY DEF LinesCame
        <3>2. k <= line => k \in 1 .. n
            BY <3>1, <2>1
        <3>3. ~(k <= line + 1) => k - 1 \in 1 .. n
            BY <3>1, <2>1
        <3> QED BY <3>1, <3>2, <3>3, <1>1 DEF PlainFolds
    <2> QED BY <2>3, <2>4 DEF FoldData, PlainFolds, LinesCame, d
<1>2. CASE FoldRuns(c, f)
    <2> DEFINE d == InsertFoldLine(c, line)
               v == WithSpace(c.visible, line)
               e == WithSpace(c.expanded, line)
               h == WithSpace(c.heights, line)
               p == InsertText(InsertPartition(c.displayLines, line, DisplayFromDoc(c, line)), line, 1)
    <2>1. f \in Seq(FoldLine) /\ ~OneToOne(c) /\ IsContraction(c) /\ g \in Seq(FoldLine)
        BY <1>2 DEF FoldRuns, LinesCame
    <2>2. d = [c EXCEPT !.visible = v, !.expanded = e, !.heights = h, !.displayLines = p]
        BY <2>1 DEF InsertFoldLine
    <2>3. AreShown(v, ValuesOf(VisibleOf, g))
        BY <1>2, <2>1, ValuesCame, MeasuresAre DEF FoldRuns
    <2>4. AreShown(e, ValuesOf(ExpandedOf, g))
        BY <1>2, <2>1, ValuesCame, MeasuresAre DEF FoldRuns
    <2>5. AreShown(h, ValuesOf(HeightOf, g))
        BY <1>2, <2>1, ValuesCame, MeasuresAre DEF FoldRuns
    <2>6. IsRows(p, g)
        <3>1. DisplayFromDoc(c, line) = PositionFromPartition(c.displayLines, line)
            BY <1>2, RowsRead
        <3> QED BY <3>1, <1>2, <2>1, RowsCome DEF FoldRuns
    <2> HIDE DEF d, v, e, h, p
    <2>7. IsContraction(d) /\ ~OneToOne(d) /\ d.visible = v /\ d.expanded = e /\ d.heights = h
          /\ d.displayLines = p
        BY <2>1, <2>2 DEF IsContraction, OneToOne
    <2> QED BY <2>1, <2>3, <2>4, <2>5, <2>6, <2>7 DEF FoldData, FoldRuns, d
<1> QED BY <1>1, <1>2 DEF FoldData

LEMMA FoldGoes ==
    ASSUME NEW c, NEW f, FoldData(c, f), NEW line \in 0 .. Len(f) - 1, Len(f) > 1, NEW g,
           LinesWent(f, g, line, 1)
    PROVE  FoldData(DeleteFoldLine(c, line), g)
<1>1. CASE PlainFolds(c, f)
    <2> DEFINE n == Len(f)
               d == DeleteFoldLine(c, line)
    <2>1. f \in Seq(FoldLine) /\ n \in Nat /\ OneToOne(c) /\ c.linesInDocument = n /\ IsContraction(c)
          /\ line \in Int
        BY <1>1, RowsAre DEF PlainFolds
    <2>2. d = [c EXCEPT !.linesInDocument = c.linesInDocument - 1]
        BY <2>1 DEF DeleteFoldLine
    <2> HIDE DEF d
    <2>3. IsContraction(d) /\ OneToOne(d) /\ d.linesInDocument = n - 1
        BY <2>1, <2>2 DEF IsContraction, OneToOne
    <2>4. ASSUME NEW k \in 1 .. Len(g) PROVE g[k] = Unfolded
        <3>1. /\ g[k] = IF k <= line THEN f[k] ELSE f[k + 1]
              /\ k \in 1 .. n - 1
            BY DEF LinesWent
        <3>2. k \in 1 .. n /\ k + 1 \in 1 .. n
            BY <3>1, <2>1
        <3> QED BY <3>1, <3>2, <1>1 DEF PlainFolds
    <2> QED BY <2>3, <2>4 DEF FoldData, PlainFolds, LinesWent, d
<1>2. CASE FoldRuns(c, f)
    <2> DEFINE d == DeleteFoldLine(c, line)
               v == DeleteRange(c.visible, line, 1)
               e == DeleteRange(c.expanded, line, 1)
               h == DeleteRange(c.heights, line, 1)
               q == IF GetVisible(c, line) THEN InsertText(c.displayLines, line, -ValueAt(c.heights, line))
                    ELSE c.displayLines
               p == RemovePartition(q, line)
    <2>1. f \in Seq(FoldLine) /\ ~OneToOne(c) /\ IsContraction(c) /\ g \in Seq(FoldLine)
        BY <1>2 DEF FoldRuns, LinesWent
    <2>2. d = [c EXCEPT !.visible = v, !.expanded = e, !.heights = h, !.displayLines = p]
        BY <2>1 DEF DeleteFoldLine
    <2>3. AreShown(v, ValuesOf(VisibleOf, g))
        BY <1>2, <2>1, ValuesWent, MeasuresAre DEF FoldRuns
    <2>4. AreShown(e, ValuesOf(ExpandedOf, g))
        BY <1>2, <2>1, ValuesWent, MeasuresAre DEF FoldRuns
    <2>5. AreShown(h, ValuesOf(HeightOf, g))
        BY <1>2, <2>1, ValuesWent, MeasuresAre DEF FoldRuns
    <2>6. IsRows(p, g)
        <3>1. q = IF f[line + 1].visible THEN InsertText(c.displayLines, line, -f[line + 1].height)
                  ELSE c.displayLines
            BY <1>2, FoldRead
        <3> HIDE DEF q
        <3> QED BY <3>1, <1>2, <2>1, RowsGo DEF FoldRuns
    <2> HIDE DEF d, v, e, h, p
    <2>7. IsContraction(d) /\ ~OneToOne(d) /\ d.visible = v /\ d.expanded = e /\ d.heights = h
          /\ d.displayLines = p
        BY <2>1, <2>2 DEF IsContraction, OneToOne
    <2> QED BY <2>1, <2>3, <2>4, <2>5, <2>6, <2>7 DEF FoldData, FoldRuns, d
<1> QED BY <1>1, <1>2 DEF FoldData

\* A line that does not change in what the runs hold.
LEMMA ValuesStay ==
    ASSUME NEW A \in [FoldLine -> Int], NEW f \in Seq(FoldLine), NEW g, NEW x \in FoldLine,
           NEW line \in 0 .. Len(f) - 1, LineTook(f, g, line, x), A[x] = A[f[line + 1]],
           NEW r, AreShown(r, ValuesOf(A, f))
    PROVE  AreShown(r, ValuesOf(A, g))
<1>1. /\ AreShown(SetValueAt(r, line, A[x]), ValuesOf(A, g))
      /\ A[x] = A[f[line + 1]] => AreShown(r, ValuesOf(A, g))
    BY ValuesTook
<1> QED BY <1>1

\* ContractionState::SetVisible, for one line.
LEMMA LineShows ==
    ASSUME NEW c, NEW f, FoldRuns(c, f), NEW line \in 0 .. Len(f) - 1, NEW shown \in BOOLEAN, NEW g,
           LineTook(f, g, line, [f[line + 1] EXCEPT !.visible = shown])
    PROVE  FoldRuns(ShowLine(c, line, shown), g)
<1> DEFINE o == f[line + 1]
           x == [o EXCEPT !.visible = shown]
           d == ShowLine(c, line, shown)
           y == IF shown THEN 1 ELSE 0
           z == IF shown THEN ValueAt(c.heights, line) ELSE -ValueAt(c.heights, line)
           v == SetValueAt(c.visible, line, y)
           p == InsertText(c.displayLines, line, z)
<1>1. f \in Seq(FoldLine) /\ ~OneToOne(c) /\ IsContraction(c) /\ g \in Seq(FoldLine)
    BY DEF FoldRuns, LineTook
<1>2. /\ GetVisible(c, line) <=> o.visible
      /\ ValueAt(c.heights, line) = o.height /\ o \in FoldLine
    BY FoldRead
<1> HIDE DEF o
<1>3. x \in FoldLine /\ x.visible = shown /\ x.height = o.height /\ x.expanded = o.expanded
      /\ o.visible \in BOOLEAN /\ o.height \in Nat
    BY <1>2 DEF FoldLine
<1>4. LineTook(f, g, line, x)
    BY DEF o
<1> HIDE DEF x
<1>5. VisibleOf[x] = y /\ ExpandedOf[x] = ExpandedOf[o] /\ HeightOf[x] = HeightOf[o]
    BY <1>2, <1>3 DEF VisibleOf, ExpandedOf, HeightOf
<1>6. /\ AreShown(c.expanded, ValuesOf(ExpandedOf, g))
      /\ AreShown(c.heights, ValuesOf(HeightOf, g))
    <2>1. AreShown(c.expanded, ValuesOf(ExpandedOf, f)) /\ AreShown(c.heights, ValuesOf(HeightOf, f))
        BY DEF FoldRuns
    <2>2. ExpandedOf[x] = ExpandedOf[f[line + 1]] /\ HeightOf[x] = HeightOf[f[line + 1]]
        BY <1>5 DEF o
    <2>3. AreShown(c.expanded, ValuesOf(ExpandedOf, g))
        BY <1>1, <1>3, <1>4, <2>1, <2>2, ValuesStay, MeasuresAre
    <2>4. AreShown(c.heights, ValuesOf(HeightOf, g))
        BY <1>1, <1>3, <1>4, <2>1, <2>2, ValuesStay, MeasuresAre
    <2> QED BY <2>3, <2>4
<1>7. CASE o.visible <=> shown
    <2>1. o.visible = shown
        BY <1>3, <1>7, Zenon
    <2>2. d = c
        <3>1. GetVisible(c, line) = o.visible
            <4>1. GetVisible(c, line) \in BOOLEAN
                BY DEF GetVisible
            <4> QED BY <4>1, <1>2, <1>3, Zenon
        <3> QED BY <3>1, <2>1 DEF ShowLine
    <2>3. VisibleOf[x] = VisibleOf[o] /\ RowsOf(x) = RowsOf(o)
        BY <1>2, <1>3, <1>7, <2>1 DEF VisibleOf, RowsOf
    <2>4. AreShown(c.visible, ValuesOf(VisibleOf, g))
        <3>1. AreShown(c.visible, ValuesOf(VisibleOf, f))
            BY DEF FoldRuns
        <3>2. VisibleOf[x] = VisibleOf[f[line + 1]]
            BY <2>3 DEF o
        <3> QED BY <1>1, <1>3, <1>4, <3>1, <3>2, ValuesStay, MeasuresAre
    <2>5. IsRows(c.displayLines, g)
        BY <1>1, <1>3, <1>4, <2>3, RowsTake DEF FoldRuns, o
    <2> QED BY <1>1, <1>6, <2>2, <2>4, <2>5 DEF FoldRuns
<1>8. CASE ~(o.visible <=> shown)
    <2>1. d = [c EXCEPT !.visible = v, !.displayLines = p]
        <3>1. GetVisible(c, line) # shown
            BY <1>2, <1>8
        <3> QED BY <3>1 DEF ShowLine
    <2>2. AreShown(v, ValuesOf(VisibleOf, g))
        <3>1. AreShown(SetValueAt(c.visible, line, VisibleOf[x]), ValuesOf(VisibleOf, g))
            BY <1>1, <1>3, <1>4, ValuesTook, MeasuresAre DEF FoldRuns
        <3> QED BY <3>1, <1>5
    <2>3. IsRows(p, g)
        <3>1. z \in Int /\ RowsOf(x) = RowsOf(o) + z
            <4>1. CASE shown
                <5>1. ~o.visible /\ x.visible /\ z = o.height
                    BY <4>1, <1>2, <1>3, <1>8
                <5> HIDE DEF z
                <5> QED BY <5>1, <1>3 DEF RowsOf
            <4>2. CASE ~shown
                <5>1. o.visible /\ ~x.visible /\ z = -o.height
                    BY <4>2, <1>2, <1>3, <1>8
                <5> HIDE DEF z
                <5> QED BY <5>1, <1>3 DEF RowsOf
            <4> QED BY <4>1, <4>2
        <3> HIDE DEF z
        <3> QED BY <3>1, <1>1, <1>3, <1>4, RowsTake DEF FoldRuns, o
    <2> HIDE DEF d, v, p
    <2>4. IsContraction(d) /\ ~OneToOne(d) /\ d.visible = v /\ d.expanded = c.expanded
          /\ d.heights = c.heights /\ d.displayLines = p
        BY <1>1, <2>1 DEF IsContraction, OneToOne
    <2>5. FoldRuns(d, g)
        BY <1>1, <1>6, <2>2, <2>3, <2>4 DEF FoldRuns
    <2> QED BY <2>5 DEF d
<1> QED BY <1>7, <1>8

LEMMA ComesAlike ==
    ASSUME NEW c, NEW f, FoldData(c, f), NEW line
    PROVE  OneToOne(InsertFoldLine(c, line)) <=> OneToOne(c)
<1>1. IsContraction(c)
    BY DEF FoldData, PlainFolds, FoldRuns
<1> QED BY <1>1 DEF IsContraction, OneToOne, InsertFoldLine

(***************************************************************************)
(* Several lines.                                                          *)
(***************************************************************************)

AddOp(c, acc, i) == InsertFoldLine(acc, c + i - 1)
CutOp(c, acc, i) == DeleteFoldLine(acc, c)
ShowOp(c, acc, i) == ShowLine(acc, c.first + i - 1, c.shown)

Adding == INSTANCE FoldProofs WITH Op <- AddOp
Cutting == INSTANCE FoldProofs WITH Op <- CutOp
Showing == INSTANCE FoldProofs WITH Op <- ShowOp

LEMMA InsertFoldLinesIsFold ==
    ASSUME NEW c, NEW line, NEW n
    PROVE  InsertFoldLines(c, line, n) = Adding!Left(line, c, [i \in 1 .. n |-> i])
BY DEF InsertFoldLines, Adding!Left, Adding!IterLeft, FoldLeft, MapThenFoldSet, AddOp, Adding!Max, Max

LEMMA DeleteFoldLinesIsFold ==
    ASSUME NEW c, NEW line, NEW n
    PROVE  DeleteFoldLines(c, line, n) = Cutting!Left(line, c, [i \in 1 .. n |-> i])
BY DEF DeleteFoldLines, Cutting!Left, Cutting!IterLeft, FoldLeft, MapThenFoldSet, CutOp, Cutting!Max, Max

ShownBy(c, first, last, shown) ==
    FoldLeft(LAMBDA acc, i : ShowLine(acc, first + i - 1, shown), c, [i \in 1 .. last - first + 1 |-> i])

LEMMA SetVisibleIsFold ==
    ASSUME NEW c, NEW first, NEW last, NEW shown
    PROVE  ShownBy(c, first, last, shown) =
               Showing!Left([first |-> first, shown |-> shown], c, [i \in 1 .. last - first + 1 |-> i])
<1> DEFINE k == [first |-> first, shown |-> shown]
<1>1. k.first = first /\ k.shown = shown
    OBVIOUS
<1> HIDE DEF k
<1>2. ShownBy(c, first, last, shown) = Showing!Left(k, c, [i \in 1 .. last - first + 1 |-> i])
    BY <1>1 DEF ShownBy, Showing!Left, Showing!IterLeft, FoldLeft, MapThenFoldSet, ShowOp, Showing!Max, Max
<1> QED BY <1>2 DEF k

\* There is one sequence with lines more or less.
LEMMA CameIsOne ==
    ASSUME NEW f \in Seq(FoldLine), NEW line \in 0 .. Len(f), NEW n \in Nat, NEW g, NEW e, LinesCame(f, g, line, n), LinesCame(f, e, line, n)
    PROVE  g = e
BY SeqEqual DEF LinesCame

LEMMA WentIsOne ==
    ASSUME NEW f \in Seq(FoldLine), NEW line \in 0 .. Len(f), NEW n \in Nat, NEW g, NEW e, LinesWent(f, g, line, n), LinesWent(f, e, line, n)
    PROVE  g = e
BY SeqEqual DEF LinesWent

\* One line more, after i.
LEMMA OneLineMore ==
    ASSUME NEW f \in Seq(FoldLine), NEW line \in 0 .. Len(f), NEW i \in Nat, NEW g, LinesCame(f, g, line, i)
    PROVE  \E e : LinesCame(g, e, line + i, 1) /\ LinesCame(f, e, line, i + 1)
<1> DEFINE n == Len(f)
           m == n + i + 1
           e == [k \in 1 .. m |-> IF k <= line THEN f[k] ELSE IF k <= line + (i + 1) THEN Unfolded ELSE f[k - (i + 1)]]
<1>1. n \in Nat /\ line \in 0 .. n /\ line \in Nat /\ m \in Nat /\ \A k \in 1 .. n : f[k] \in FoldLine
    BY RowsAre
<1>2. Len(g) = n + i /\ g \in Seq(FoldLine)
      /\ \A k \in 1 .. n + i : g[k] = IF k <= line THEN f[k] ELSE IF k <= line + i THEN Unfolded ELSE f[k - i]
    BY DEF LinesCame
<1> HIDE DEF n
<1>3. ASSUME NEW k \in 1 .. m
      PROVE  (IF k <= line THEN f[k] ELSE IF k <= line + (i + 1) THEN Unfolded ELSE f[k - (i + 1)]) \in FoldLine
    <2>1. k <= line => k \in 1 .. n
        BY <1>1
    <2>2. ~(k <= line + (i + 1)) => k - (i + 1) \in 1 .. n
        BY <1>1
    <2> QED BY <2>1, <2>2, <1>1, UnfoldedIs
<1> HIDE DEF m
<1>4. e \in Seq(FoldLine) /\ Len(e) = m
    BY <1>1, <1>3
<1>5. \A k \in 1 .. m : e[k] = IF k <= line THEN f[k] ELSE IF k <= line + (i + 1) THEN Unfolded ELSE f[k - (i + 1)]
    OBVIOUS
<1> HIDE DEF e
<1>6. LinesCame(f, e, line, i + 1)
    <2>1. m = n + (i + 1)
        BY <1>1 DEF m
    <2> QED BY <2>1, <1>4, <1>5 DEF LinesCame, n
<1>7. ASSUME NEW k \in 1 .. m
      PROVE  e[k] = IF k <= line + i THEN g[k] ELSE IF k <= (line + i) + 1 THEN Unfolded ELSE g[k - 1]
    <2>1. e[k] = IF k <= line THEN f[k] ELSE IF k <= line + (i + 1) THEN Unfolded ELSE f[k - (i + 1)]
        BY <1>5
    <2>2. k \in Nat /\ k <= n + i + 1 /\ k >= 1
        BY <1>1 DEF m
    <2>3. CASE k <= line + i
        <3>1. k \in 1 .. n + i
            BY <2>2, <2>3, <1>1
        <3>2. g[k] = IF k <= line THEN f[k] ELSE IF k <= line + i THEN Unfolded ELSE f[k - i]
            BY <3>1, <1>2
        <3>3. k <= line + (i + 1)
            BY <2>2, <2>3, <1>1
        <3> QED BY <3>2, <3>3, <2>1, <2>3
    <2>4. CASE ~(k <= line + i) /\ k <= (line + i) + 1
        <3>1. ~(k <= line) /\ k <= line + (i + 1)
            BY <2>2, <2>4, <1>1
        <3> QED BY <3>1, <2>1, <2>4
    <2>5. CASE ~(k <= line + i) /\ ~(k <= (line + i) + 1)
        <3> DEFINE j == k - 1
        <3>1. j \in 1 .. n + i /\ ~(j <= line) /\ ~(j <= line + i) /\ j - i = k - (i + 1) /\ ~(k <= line) /\ ~(k <= line + (i + 1))
            BY <2>2, <2>5, <1>1
        <3> HIDE DEF j
        <3>2. g[j] = f[j - i]
            BY <3>1, <1>2
        <3> QED BY <3>1, <3>2, <2>1, <2>5 DEF j
    <2> QED BY <2>3, <2>4, <2>5
<1>8. LinesCame(g, e, line + i, 1)
    <2>1. m = (n + i) + 1
        BY <1>1 DEF m
    <2> QED BY <2>1, <1>2, <1>4, <1>7 DEF LinesCame
<1> QED BY <1>6, <1>8

\* One line less, after i.
LEMMA OneLineLess ==
    ASSUME NEW f \in Seq(FoldLine), NEW line \in 0 .. Len(f), NEW i \in Nat, line + i < Len(f), NEW g, LinesWent(f, g, line, i)
    PROVE  \E e : LinesWent(g, e, line, 1) /\ LinesWent(f, e, line, i + 1)
<1> DEFINE n == Len(f)
           m == n - (i + 1)
           e == [k \in 1 .. m |-> IF k <= line THEN f[k] ELSE f[k + (i + 1)]]
<1>1. n \in Nat /\ line \in 0 .. n /\ line \in Nat /\ m \in Nat /\ \A k \in 1 .. n : f[k] \in FoldLine
    <2>1. n \in Nat /\ line + i < n /\ \A k \in 1 .. n : f[k] \in FoldLine
        BY RowsAre
    <2> HIDE DEF n
    <2> QED BY <2>1 DEF n
<1>2. Len(g) = n - i /\ g \in Seq(FoldLine)
      /\ \A k \in 1 .. n - i : g[k] = IF k <= line THEN f[k] ELSE f[k + i]
    BY DEF LinesWent
<1> HIDE DEF n
<1>3. ASSUME NEW k \in 1 .. m
      PROVE  (IF k <= line THEN f[k] ELSE f[k + (i + 1)]) \in FoldLine
    <2>1. k \in 1 .. n /\ k + (i + 1) \in 1 .. n
        BY <1>1
    <2> QED BY <2>1, <1>1
<1> HIDE DEF m
<1>4. e \in Seq(FoldLine) /\ Len(e) = m
    BY <1>1, <1>3
<1>5. \A k \in 1 .. m : e[k] = IF k <= line THEN f[k] ELSE f[k + (i + 1)]
    OBVIOUS
<1> HIDE DEF e
<1>6. LinesWent(f, e, line, i + 1)
    BY <1>4, <1>5 DEF LinesWent, n, m
<1>7. ASSUME NEW k \in 1 .. m
      PROVE  e[k] = IF k <= line THEN g[k] ELSE g[k + 1]
    <2> DEFINE j == k + 1
    <2>1. k \in 1 .. n - i /\ j \in 1 .. n - i /\ j + i = k + (i + 1) /\ k \in Nat
        BY <1>1 DEF m
    <2>2. ~(k <= line) => ~(j <= line)
        BY <2>1, <1>1
    <2> HIDE DEF j
    <2>3. g[k] = IF k <= line THEN f[k] ELSE f[k + i]
        BY <2>1, <1>2
    <2>4. g[j] = IF j <= line THEN f[j] ELSE f[j + i]
        BY <2>1, <1>2
    <2>5. e[k] = IF k <= line THEN f[k] ELSE f[k + (i + 1)]
        BY <1>5
    <2> QED BY <2>1, <2>2, <2>3, <2>4, <2>5 DEF j
<1>8. LinesWent(g, e, line, 1)
    <2>1. m = (n - i) - 1
        BY <1>1 DEF m
    <2> QED BY <2>1, <1>2, <1>4, <1>7 DEF LinesWent
<1> QED BY <1>6, <1>8

\* ContractionState::InsertLines
LEMMA FoldsCome ==
    ASSUME NEW c, NEW f, FoldData(c, f), NEW line \in 0 .. Len(f), NEW n \in Nat, NEW g, LinesCame(f, g, line, n)
    PROVE  /\ FoldData(InsertFoldLines(c, line, n), g)
           /\ OneToOne(InsertFoldLines(c, line, n)) <=> OneToOne(c)
<1> DEFINE seq == [i \in 1 .. n |-> i]
<1>0. f \in Seq(FoldLine) /\ Len(f) \in Nat /\ line \in Nat
    BY RowsAre DEF FoldData, PlainFolds, FoldRuns
<1>1. PICK h : Adding!PassesLeft(h, line, c, seq, n)
    <2>1. DOMAIN seq = 1 .. n
        OBVIOUS
    <2> HIDE DEF seq
    <2> QED BY <2>1, Adding!FoldLeftPasses
<1> DEFINE T == {i \in 0 .. n : (\E e : LinesCame(f, e, line, i) /\ FoldData(h[i], e)) /\ (OneToOne(h[i]) <=> OneToOne(c))}
<1>2. 0 \in T
    <2>1. h[0] = c
        BY <1>1 DEF Adding!PassesLeft
    <2>2. LinesCame(f, f, line, 0)
        <3>1. Len(f) = Len(f) + 0 /\ \A k \in 1 .. Len(f) : k - 0 = k
            BY <1>0
        <3> QED BY <3>1, <1>0 DEF LinesCame
    <2> QED BY <2>1, <2>2
<1>3. ASSUME NEW i \in 0 .. n - 1, i \in T PROVE i + 1 \in T
    <2>1. i + 1 \in 1 .. n /\ i \in Nat /\ i + 1 \in 0 .. n
        OBVIOUS
    <2>2. h[i + 1] = InsertFoldLine(h[i], line + i)
        <3> DEFINE k == i + 1
        <3>1. k \in 1 .. n /\ k - 1 = i /\ seq[k] = k /\ line + k - 1 = line + i
            BY <2>1, <1>0
        <3> HIDE DEF k, seq
        <3>2. h[k] = AddOp(line, h[k - 1], seq[k])
            BY <3>1, <1>1 DEF Adding!PassesLeft
        <3> QED BY <3>1, <3>2 DEF k, AddOp
    <2>3. PICK e : LinesCame(f, e, line, i) /\ FoldData(h[i], e)
        BY <1>3
    <2>4. OneToOne(h[i]) <=> OneToOne(c)
        BY <1>3
    <2> HIDE DEF T
    <2>5. PICK d : LinesCame(e, d, line + i, 1) /\ LinesCame(f, d, line, i + 1)
        BY <2>1, <2>3, <1>0, OneLineMore
    <2>6. line + i \in 0 .. Len(e)
        BY <2>1, <2>3, <1>0 DEF LinesCame
    <2>7. FoldData(InsertFoldLine(h[i], line + i), d)
        BY <2>3, <2>5, <2>6, FoldComes
    <2>8. OneToOne(InsertFoldLine(h[i], line + i)) <=> OneToOne(h[i])
        BY <2>3, ComesAlike
    <2> QED BY <2>1, <2>2, <2>4, <2>5, <2>7, <2>8 DEF T
<1>4. n \in T
    <2>1. 0 .. n \subseteq T
        <3> HIDE DEF T
        <3> QED BY <1>2, <1>3, Adding!UpTo
    <2> QED BY <2>1
<1>5. PICK e : LinesCame(f, e, line, n) /\ FoldData(h[n], e)
    BY <1>4
<1>6. e = g
    BY <1>0, <1>5, CameIsOne
<1>7. h[n] = Adding!Left(line, c, seq)
    BY <1>1 DEF Adding!PassesLeft
<1> QED BY <1>4, <1>5, <1>6, <1>7, InsertFoldLinesIsFold

\* ContractionState::DeleteLines
LEMMA FoldsGo ==
    ASSUME NEW c, NEW f, FoldData(c, f), NEW line \in 0 .. Len(f), NEW n \in Nat, line + n <= Len(f), n < Len(f),
           NEW g, LinesWent(f, g, line, n)
    PROVE  FoldData(DeleteFoldLines(c, line, n), g)
<1> DEFINE seq == [i \in 1 .. n |-> i]
<1>0. f \in Seq(FoldLine) /\ Len(f) \in Nat /\ line \in Nat
    BY RowsAre DEF FoldData, PlainFolds, FoldRuns
<1>1. PICK h : Cutting!PassesLeft(h, line, c, seq, n)
    <2>1. DOMAIN seq = 1 .. n
        OBVIOUS
    <2> HIDE DEF seq
    <2> QED BY <2>1, Cutting!FoldLeftPasses
<1> DEFINE T == {i \in 0 .. n : \E e : LinesWent(f, e, line, i) /\ FoldData(h[i], e)}
<1>2. 0 \in T
    <2>1. h[0] = c
        BY <1>1 DEF Cutting!PassesLeft
    <2>2. LinesWent(f, f, line, 0)
        <3>1. Len(f) = Len(f) - 0 /\ \A k \in 1 .. Len(f) : k + 0 = k
            BY <1>0
        <3> QED BY <3>1, <1>0 DEF LinesWent
    <2> QED BY <2>1, <2>2
<1>3. ASSUME NEW i \in 0 .. n - 1, i \in T PROVE i + 1 \in T
    <2>1. i + 1 \in 1 .. n /\ i \in Nat /\ i + 1 \in 0 .. n
        OBVIOUS
    <2>2. h[i + 1] = DeleteFoldLine(h[i], line)
        <3> DEFINE k == i + 1
        <3>1. k \in 1 .. n /\ k - 1 = i
            BY <2>1, <1>0
        <3> HIDE DEF k, seq
        <3>2. h[k] = CutOp(line, h[k - 1], seq[k])
            BY <3>1, <1>1 DEF Cutting!PassesLeft
        <3> QED BY <3>1, <3>2 DEF k, CutOp
    <2>3. PICK e : LinesWent(f, e, line, i) /\ FoldData(h[i], e)
        BY <1>3
    <2> HIDE DEF T
    <2>4. line + i < Len(f) /\ Len(e) = Len(f) - i
        BY <2>1, <2>3, <1>0 DEF LinesWent
    <2>5. PICK d : LinesWent(e, d, line, 1) /\ LinesWent(f, d, line, i + 1)
        BY <2>1, <2>3, <2>4, <1>0, OneLineLess
    <2>6. line \in 0 .. Len(e) - 1 /\ Len(e) > 1
        BY <2>1, <2>4, <1>0
    <2>7. FoldData(DeleteFoldLine(h[i], line), d)
        BY <2>3, <2>5, <2>6, FoldGoes
    <2> QED BY <2>1, <2>2, <2>5, <2>7 DEF T
<1>4. n \in T
    <2>1. 0 .. n \subseteq T
        <3> HIDE DEF T
        <3> QED BY <1>2, <1>3, Cutting!UpTo
    <2> QED BY <2>1
<1>5. PICK e : LinesWent(f, e, line, n) /\ FoldData(h[n], e)
    BY <1>4
<1>6. e = g
    BY <1>0, <1>5, WentIsOne
<1>7. h[n] = Cutting!Left(line, c, seq)
    BY <1>1 DEF Cutting!PassesLeft
<1> QED BY <1>5, <1>6, <1>7, DeleteFoldLinesIsFold

LEMMA UnfoldedStays ==
    /\ [Unfolded EXCEPT !.visible = TRUE] = Unfolded
    /\ [Unfolded EXCEPT !.expanded = TRUE] = Unfolded
<1>1. \A o \in FoldLine : o.visible = TRUE => [o EXCEPT !.visible = TRUE] = o
    BY DEF FoldLine
<1>2. \A o \in FoldLine : o.expanded = TRUE => [o EXCEPT !.expanded = TRUE] = o
    BY DEF FoldLine
<1>3. Unfolded.visible = TRUE /\ Unfolded.expanded = TRUE
    BY DEF Unfolded
<1> QED BY <1>1, <1>2, <1>3, UnfoldedIs

\* No line at all; the first lines are put in there.
LEMMA NoLines ==
    FoldRuns([Plain(1) EXCEPT !.data = TRUE], <<>>)
<1> DEFINE b == [Plain(1) EXCEPT !.data = TRUE]
           p == EmptyPartitioning
           r == NewRunStyles
           none == <<>>
<1>1. /\ none \in Seq(FoldLine) /\ Len(none) = 0
    OBVIOUS
<1>2. /\ IsContraction(b) /\ ~OneToOne(b) /\ b.visible = r /\ b.expanded = r /\ b.heights = r /\ b.displayLines = p
    <2> DEFINE a == Plain(1)
               yes == TRUE
    <2>1. /\ IsContraction(a) /\ a.visible = r /\ a.expanded = r /\ a.heights = r /\ a.displayLines = p
        BY DEF Plain, IsContraction
    <2>2. b = [a EXCEPT !.data = yes] /\ yes # FALSE
        OBVIOUS
    <2> HIDE DEF a, b, r, p, yes
    <2> QED BY <2>1, <2>2 DEF IsContraction, OneToOne
<1>3. WellFormed(p) /\ Partitions(p) = 1
    <2>1. IndexOf(EmptyPartitioning, LineBreaks(<<>>), Len(<<>>)) /\ Lines(EmptyLines) = 1
        BY StartsEmpty
    <2>2. EmptyLines.starts = p
        BY DEF EmptyLines
    <2> HIDE DEF p
    <2> QED BY <2>1, <2>2 DEF IndexOf, Lines, p
<1>4. PositionFromPartition(p, 0) = 0
    BY DEF EmptyPartitioning, PositionFromPartition
<1> HIDE DEF p, r, b
<1>5. IsRows(p, none)
    <2> HIDE DEF none
    <2> QED BY <1>1, <1>3, <1>4 DEF IsRows
<1>6. ASSUME NEW A \in [FoldLine -> Int] PROVE AreShown(r, ValuesOf(A, none))
    <2>1. ValuesOf(A, none) \in Seq(Int) /\ Len(ValuesOf(A, none)) = 0
        BY <1>1, ValuesAre
    <2>2. ValuesOf(A, none) = <<>>
        BY <2>1, EmptySeq
    <2> QED BY <2>2, NewRunsAre DEF AreShown, r
<1>7. AreShown(r, ValuesOf(VisibleOf, none)) /\ AreShown(r, ValuesOf(ExpandedOf, none)) /\ AreShown(r, ValuesOf(HeightOf, none))
    BY <1>6, MeasuresAre
<1> HIDE DEF none
<1>8. FoldRuns(b, none)
    BY <1>1, <1>2, <1>5, <1>7 DEF FoldRuns
<1> QED BY <1>8 DEF b, none

LEMMA DataEnsured ==
    ASSUME NEW c, NEW f, FoldData(c, f)
    PROVE  FoldRuns(EnsureData(c), f)
<1>1. CASE FoldRuns(c, f)
    BY <1>1 DEF FoldRuns, EnsureData
<1>2. CASE PlainFolds(c, f)
    <2> DEFINE b == [Plain(1) EXCEPT !.data = TRUE]
               n == Len(f)
               none == <<>>
    <2>1. EnsureData(c) = InsertFoldLines(b, 0, n) /\ f \in Seq(FoldLine) /\ n \in Nat
        BY <1>2, RowsAre DEF PlainFolds, EnsureData
    <2>2. FoldRuns(b, none)
        BY NoLines
    <2>3. Len(none) = 0
        OBVIOUS
    <2> HIDE DEF b, none
    <2>4. LinesCame(none, f, 0, n)
        <3>1. ASSUME NEW k \in 1 .. Len(f)
              PROVE  ~(k <= 0) /\ k <= 0 + n /\ f[k] = Unfolded
            BY <2>1, <1>2 DEF PlainFolds
        <3>2. Len(f) = Len(none) + n
            BY <2>1, <2>3
        <3> QED BY <3>1, <3>2, <2>1 DEF LinesCame
    <2>5. 0 \in 0 .. Len(none) /\ ~OneToOne(b) /\ FoldData(b, none)
        BY <2>2, <2>3 DEF FoldRuns, FoldData
    <2>6. FoldData(InsertFoldLines(b, 0, n), f) /\ ~OneToOne(InsertFoldLines(b, 0, n))
        BY <2>1, <2>4, <2>5, FoldsCome
    <2> QED BY <2>1, <2>6 DEF FoldData, PlainFolds
<1> QED BY <1>1, <1>2 DEF FoldData

\* g is f where n lines, the first of them of number `first', are visible or not.
LinesTook(f, g, first, n, shown) ==
    /\ g \in Seq(FoldLine) /\ Len(g) = Len(f)
    /\ \A k \in 1 .. Len(g) :
           g[k] = IF k \in first + 1 .. first + n THEN [f[k] EXCEPT !.visible = shown] ELSE f[k]

LEMMA OneLineShown ==
    ASSUME NEW f \in Seq(FoldLine), NEW first \in Nat, NEW i \in Nat, first + i < Len(f), NEW shown \in BOOLEAN,
           NEW g, LinesTook(f, g, first, i, shown)
    PROVE  \E e : /\ LineTook(g, e, first + i, [g[first + i + 1] EXCEPT !.visible = shown])
                  /\ LinesTook(f, e, first, i + 1, shown)
<1> DEFINE n == Len(f)
           e == [k \in 1 .. n |-> IF k \in first + 1 .. first + (i + 1) THEN [f[k] EXCEPT !.visible = shown] ELSE f[k]]
<1>1. n \in Nat /\ \A k \in 1 .. n : f[k] \in FoldLine
    BY RowsAre
<1>2. ASSUME NEW k \in 1 .. n PROVE [f[k] EXCEPT !.visible = shown] \in FoldLine
    BY <1>1 DEF FoldLine
<1>3. g \in Seq(FoldLine) /\ Len(g) = n
      /\ \A k \in 1 .. n : g[k] = IF k \in first + 1 .. first + i THEN [f[k] EXCEPT !.visible = shown] ELSE f[k]
    BY DEF LinesTook
<1>4. first + i < n
    OBVIOUS
<1> HIDE DEF n
<1>5. e \in Seq(FoldLine) /\ Len(e) = n
    <2> DEFINE At(k) == IF k \in first + 1 .. first + (i + 1) THEN [f[k] EXCEPT !.visible = shown] ELSE f[k]
    <2>1. \A k \in 1 .. n : At(k) \in FoldLine
        BY <1>1, <1>2
    <2>2. e = [k \in 1 .. n |-> At(k)]
        OBVIOUS
    <2> HIDE DEF At, e
    <2> QED BY <2>1, <2>2, <1>1
<1>6. \A k \in 1 .. n : e[k] = IF k \in first + 1 .. first + (i + 1) THEN [f[k] EXCEPT !.visible = shown] ELSE f[k]
    OBVIOUS
<1> HIDE DEF e
<1>7. LinesTook(f, e, first, i + 1, shown)
    BY <1>5, <1>6 DEF LinesTook, n
<1>8. first + i + 1 \in 1 .. n /\ first + i + 1 \notin first + 1 .. first + i
    BY <1>1, <1>4
<1>9. g[first + i + 1] = f[first + i + 1]
    BY <1>3, <1>8
<1>10. ASSUME NEW k \in 1 .. n
       PROVE  e[k] = IF k = first + i + 1 THEN [g[first + i + 1] EXCEPT !.visible = shown] ELSE g[k]
    <2>1. k \in first + 1 .. first + (i + 1) <=> k \in first + 1 .. first + i \/ k = first + i + 1
        BY <1>1
    <2>2. CASE k = first + i + 1
        BY <2>1, <2>2, <1>6, <1>9
    <2>3. CASE k # first + i + 1
        BY <2>1, <2>3, <1>3, <1>6
    <2> QED BY <2>2, <2>3
<1>11. LineTook(g, e, first + i, [g[first + i + 1] EXCEPT !.visible = shown])
    BY <1>3, <1>5, <1>10 DEF LineTook
<1> QED BY <1>7, <1>11

LEMMA LinesShow ==
    ASSUME NEW c, NEW f, FoldRuns(c, f), NEW first \in Nat, NEW n \in Nat, first + n <= Len(f),
           NEW last, last - first + 1 = n, NEW shown \in BOOLEAN, NEW g, LinesTook(f, g, first, n, shown)
    PROVE  FoldRuns(ShownBy(c, first, last, shown), g)
<1> DEFINE seq == [i \in 1 .. n |-> i]
           a == [first |-> first, shown |-> shown]
<1>0. f \in Seq(FoldLine) /\ Len(f) \in Nat
    BY RowsAre DEF FoldRuns
<1>1. PICK h : Showing!PassesLeft(h, a, c, seq, n)
    <2>1. DOMAIN seq = 1 .. n
        OBVIOUS
    <2> HIDE DEF seq, a
    <2> QED BY <2>1, Showing!FoldLeftPasses
<1> DEFINE T == {i \in 0 .. n : \E e : LinesTook(f, e, first, i, shown) /\ FoldRuns(h[i], e)}
<1>2. 0 \in T
    <2>1. h[0] = c
        BY <1>1 DEF Showing!PassesLeft
    <2>2. LinesTook(f, f, first, 0, shown)
        <3>1. first + 1 .. first + 0 = {}
            OBVIOUS
        <3> QED BY <3>1, <1>0 DEF LinesTook
    <2> QED BY <2>1, <2>2
<1>3. ASSUME NEW i \in 0 .. n - 1, i \in T PROVE i + 1 \in T
    <2>1. i + 1 \in 1 .. n /\ i \in Nat /\ i + 1 \in 0 .. n
        OBVIOUS
    <2>2. h[i + 1] = ShowLine(h[i], first + i, shown)
        <3> DEFINE k == i + 1
        <3>1. k \in 1 .. n /\ k - 1 = i /\ seq[k] = k /\ first + k - 1 = first + i /\ a.first = first /\ a.shown = shown
            BY <2>1, <1>0
        <3> HIDE DEF k, seq, a
        <3>2. h[k] = ShowOp(a, h[k - 1], seq[k])
            BY <3>1, <1>1 DEF Showing!PassesLeft
        <3> QED BY <3>1, <3>2 DEF k, ShowOp
    <2>3. PICK e : LinesTook(f, e, first, i, shown) /\ FoldRuns(h[i], e)
        BY <1>3
    <2> HIDE DEF T
    <2>4. first + i < Len(f) /\ Len(e) = Len(f)
        BY <2>1, <2>3, <1>0 DEF LinesTook
    <2>5. PICK d : /\ LineTook(e, d, first + i, [e[first + i + 1] EXCEPT !.visible = shown])
                   /\ LinesTook(f, d, first, i + 1, shown)
        BY <2>1, <2>3, <2>4, <1>0, OneLineShown
    <2>6. first + i \in 0 .. Len(e) - 1
        BY <2>1, <2>4, <1>0
    <2>7. FoldRuns(ShowLine(h[i], first + i, shown), d)
        BY <2>3, <2>5, <2>6, LineShows
    <2> QED BY <2>1, <2>2, <2>5, <2>7 DEF T
<1>4. n \in T
    <2>1. 0 .. n \subseteq T
        <3> HIDE DEF T
        <3> QED BY <1>2, <1>3, Showing!UpTo
    <2> QED BY <2>1
<1>5. PICK e : LinesTook(f, e, first, n, shown) /\ FoldRuns(h[n], e)
    BY <1>4
<1>6. e = g
    <2>1. \A k \in 1 .. Len(f) : e[k] = g[k]
        BY <1>5 DEF LinesTook
    <2> QED BY <2>1, <1>5, SeqEqual DEF LinesTook
<1>7. h[n] = Showing!Left(a, c, seq)
    BY <1>1 DEF Showing!PassesLeft
<1> QED BY <1>5, <1>6, <1>7, SetVisibleIsFold

\* ContractionState::SetVisible
LEMMA VisibleSet ==
    ASSUME NEW c, NEW f, FoldData(c, f), NEW first \in Nat, NEW last \in Nat, first <= last, last < Len(f),
           NEW shown \in BOOLEAN, NEW g, LinesTook(f, g, first, last - first + 1, shown)
    PROVE  FoldData(SetVisible(c, first, last, shown), g)
<1> DEFINE n == last - first + 1
           e == EnsureData(c)
<1>1. n \in Nat /\ first + n <= Len(f) /\ Len(f) \in Nat /\ f \in Seq(FoldLine)
    BY RowsAre DEF FoldData, PlainFolds, FoldRuns
<1>2. CASE OneToOne(c) /\ shown
    <2>1. PlainFolds(c, f)
        BY <1>2 DEF FoldData, FoldRuns
    <2>2. \A k \in 1 .. Len(f) : g[k] = f[k]
        <3>1. [Unfolded EXCEPT !.visible = TRUE] = Unfolded
            BY UnfoldedStays
        <3>2. shown = TRUE
            BY <1>2
        <3> QED BY <3>1, <3>2, <2>1 DEF PlainFolds, LinesTook
    <2>3. f = g
        BY <2>2, <1>1, SeqEqual DEF LinesTook
    <2> QED BY <2>3, <1>2 DEF SetVisible
<1>3. CASE ~(OneToOne(c) /\ shown)
    <2>1. FoldRuns(e, f)
        BY DataEnsured
    <2>2. ~(first > last \/ first < 0 \/ last >= LinesInDoc(c))
        <3>1. LinesInDoc(c) = Len(f)
            <4>1. CASE PlainFolds(c, f)
                BY <4>1 DEF PlainFolds, LinesInDoc
            <4>2. CASE FoldRuns(c, f)
                BY <4>2, RowsRead
            <4> QED BY <4>1, <4>2 DEF FoldData
        <3> QED BY <3>1, <1>1
    <2>3. SetVisible(c, first, last, shown) = ShownBy(e, first, last, shown)
        BY <2>2, <1>3 DEF SetVisible, ShownBy
    <2> HIDE DEF e
    <2>4. FoldRuns(ShownBy(e, first, last, shown), g)
        BY <2>1, <1>1, LinesShow
    <2> QED BY <2>3, <2>4 DEF FoldData
<1> QED BY <1>2, <1>3

\* ContractionState::SetExpanded
LEMMA ExpandedSet ==
    ASSUME NEW c, NEW f, FoldData(c, f), NEW line \in 0 .. Len(f) - 1, NEW expanded \in BOOLEAN, NEW g,
           LineTook(f, g, line, [f[line + 1] EXCEPT !.expanded = expanded])
    PROVE  FoldData(SetExpanded(c, line, expanded), g)
<1> DEFINE o == f[line + 1]
           x == [o EXCEPT !.expanded = expanded]
           d == EnsureData(c)
           y == IF expanded THEN 1 ELSE 0
           z == [d EXCEPT !.expanded = SetValueAt(d.expanded, line, y)]
<1>1. f \in Seq(FoldLine) /\ g \in Seq(FoldLine) /\ o \in FoldLine /\ Len(g) = Len(f)
      /\ line + 1 \in 1 .. Len(f)
    BY RowsAre DEF FoldData, FoldRuns, PlainFolds, LineTook
<1>2. LineTook(f, g, line, x)
    OBVIOUS
<1>3. CASE OneToOne(c) /\ expanded
    <2>1. PlainFolds(c, f)
        BY <1>3 DEF FoldData, FoldRuns
    <2>2. \A k \in 1 .. Len(f) : g[k] = f[k]
        <3>1. [Unfolded EXCEPT !.expanded = TRUE] = Unfolded
            BY UnfoldedStays
        <3>2. expanded = TRUE /\ o = Unfolded
            BY <1>1, <1>3, <2>1 DEF PlainFolds
        <3> QED BY <3>1, <3>2, <1>1, <1>2, <2>1 DEF PlainFolds, LineTook
    <2>3. f = g
        BY <2>2, <1>1, SeqEqual
    <2> QED BY <2>3, <1>3 DEF SetExpanded
<1>4. CASE ~(OneToOne(c) /\ expanded)
    <2>1. FoldRuns(d, f)
        BY DataEnsured
    <2>2. SetExpanded(c, line, expanded) = IF GetExpanded(d, line) = expanded THEN d ELSE z
        BY <1>4 DEF SetExpanded
    <2> HIDE DEF d
    <2>3. GetExpanded(d, line) <=> o.expanded
        BY <2>1, FoldRead
    <2>4. ~OneToOne(d) /\ IsContraction(d)
        BY <2>1 DEF FoldRuns
    <2> HIDE DEF o
    <2>5. x \in FoldLine /\ x.visible = o.visible /\ x.height = o.height /\ x.expanded = expanded
          /\ o.expanded \in BOOLEAN
        BY <1>1 DEF FoldLine
    <2>6. LineTook(f, g, line, x)
        BY <1>2
    <2> HIDE DEF x
    <2>7. VisibleOf[x] = VisibleOf[o] /\ HeightOf[x] = HeightOf[o] /\ ExpandedOf[x] = y /\ RowsOf(x) = RowsOf(o)
        BY <1>1, <2>5 DEF VisibleOf, HeightOf, ExpandedOf, RowsOf
    <2>8. AreShown(d.visible, ValuesOf(VisibleOf, g)) /\ AreShown(d.heights, ValuesOf(HeightOf, g))
        <3>1. AreShown(d.visible, ValuesOf(VisibleOf, f)) /\ AreShown(d.heights, ValuesOf(HeightOf, f))
            BY <2>1 DEF FoldRuns
        <3>2. VisibleOf[x] = VisibleOf[f[line + 1]] /\ HeightOf[x] = HeightOf[f[line + 1]]
            BY <2>7 DEF o
        <3>3. AreShown(d.visible, ValuesOf(VisibleOf, g))
            BY <1>1, <2>5, <2>6, <3>1, <3>2, ValuesStay, MeasuresAre
        <3>4. AreShown(d.heights, ValuesOf(HeightOf, g))
            BY <1>1, <2>5, <2>6, <3>1, <3>2, ValuesStay, MeasuresAre
        <3> QED BY <3>3, <3>4
    <2>9. IsRows(d.displayLines, g)
        BY <1>1, <2>1, <2>5, <2>6, <2>7, RowsTake DEF FoldRuns, o
    <2>10. AreShown(SetValueAt(d.expanded, line, y), ValuesOf(ExpandedOf, g))
        <3>1. AreShown(SetValueAt(d.expanded, line, ExpandedOf[x]), ValuesOf(ExpandedOf, g))
            BY <1>1, <2>1, <2>5, <2>6, ValuesTook, MeasuresAre DEF FoldRuns
        <3> QED BY <3>1, <2>7
    <2>11. CASE GetExpanded(d, line) = expanded
        <3>1. ExpandedOf[x] = ExpandedOf[f[line + 1]]
            <4>1. o.expanded <=> expanded
                BY <2>3, <2>11
            <4>2. ExpandedOf[o] = y
                BY <4>1, <1>1 DEF ExpandedOf
            <4> QED BY <4>2, <2>7 DEF o
        <3>2. AreShown(d.expanded, ValuesOf(ExpandedOf, f))
            BY <2>1 DEF FoldRuns
        <3>3. AreShown(d.expanded, ValuesOf(ExpandedOf, g))
            BY <1>1, <2>5, <2>6, <3>1, <3>2, ValuesStay, MeasuresAre
        <3> QED BY <3>3, <1>1, <2>2, <2>4, <2>8, <2>9, <2>11 DEF FoldRuns, FoldData
    <2>12. CASE GetExpanded(d, line) # expanded
        <3> DEFINE e == SetValueAt(d.expanded, line, y)
        <3>1. z = [d EXCEPT !.expanded = e]
            OBVIOUS
        <3>2. AreShown(e, ValuesOf(ExpandedOf, g))
            BY <2>10
        <3> HIDE DEF e, z
        <3>3. /\ IsContraction(z) /\ ~OneToOne(z) /\ z.visible = d.visible /\ z.expanded = e /\ z.heights = d.heights
              /\ z.displayLines = d.displayLines
            BY <3>1, <2>4 DEF IsContraction, OneToOne
        <3> QED BY <3>2, <3>3, <1>1, <2>2, <2>8, <2>9, <2>12 DEF FoldRuns, FoldData
    <2> QED BY <2>11, <2>12
<1> QED BY <1>3, <1>4

\* ContractionState::SetHeight
LEMMA HeightSet ==
    ASSUME NEW c, NEW f, FoldData(c, f), NEW line \in 0 .. Len(f) - 1, NEW height \in Nat, NEW g,
           LineTook(f, g, line, [f[line + 1] EXCEPT !.height = height])
    PROVE  FoldData(SetHeight(c, line, height), g)
<1> DEFINE o == f[line + 1]
           x == [o EXCEPT !.height = height]
           d == EnsureData(c)
           q == IF GetVisible(d, line) THEN InsertText(d.displayLines, line, height - GetHeight(d, line))
                ELSE d.displayLines
           z == [d EXCEPT !.displayLines = q, !.heights = SetValueAt(d.heights, line, height)]
<1>1. f \in Seq(FoldLine) /\ g \in Seq(FoldLine) /\ o \in FoldLine /\ Len(g) = Len(f)
      /\ line + 1 \in 1 .. Len(f) /\ Len(f) \in Nat
    BY RowsAre DEF FoldData, FoldRuns, PlainFolds, LineTook
<1>2. LineTook(f, g, line, x)
    OBVIOUS
<1>3. ~(line >= LinesInDoc(c))
    <2>1. LinesInDoc(c) = Len(f)
        <3>1. CASE PlainFolds(c, f)
            BY <3>1 DEF PlainFolds, LinesInDoc
        <3>2. CASE FoldRuns(c, f)
            BY <3>2, RowsRead
        <3> QED BY <3>1, <3>2 DEF FoldData
    <2> QED BY <2>1, <1>1
<1>4. CASE OneToOne(c) /\ height = 1
    <2>1. PlainFolds(c, f)
        BY <1>4 DEF FoldData, FoldRuns
    <2>2. \A k \in 1 .. Len(f) : g[k] = f[k]
        <3>1. [Unfolded EXCEPT !.height = 1] = Unfolded
            BY DEF Unfolded
        <3>2. height = 1 /\ o = Unfolded
            BY <1>1, <1>4, <2>1 DEF PlainFolds
        <3> QED BY <3>1, <3>2, <1>1, <1>2, <2>1 DEF PlainFolds, LineTook
    <2>3. f = g
        BY <2>2, <1>1, SeqEqual
    <2> QED BY <2>3, <1>4 DEF SetHeight
<1>5. CASE ~(OneToOne(c) /\ height = 1)
    <2>1. FoldRuns(d, f)
        BY DataEnsured
    <2>2. SetHeight(c, line, height) = IF GetHeight(d, line) = height THEN d ELSE z
        BY <1>3, <1>5 DEF SetHeight
    <2> HIDE DEF d
    <2>3. GetHeight(d, line) = o.height /\ (GetVisible(d, line) <=> o.visible)
        BY <2>1, FoldRead
    <2>4. ~OneToOne(d) /\ IsContraction(d)
        BY <2>1 DEF FoldRuns
    <2> HIDE DEF o
    <2>5. x \in FoldLine /\ x.visible = o.visible /\ x.height = height /\ x.expanded = o.expanded
          /\ o.height \in Nat
        BY <1>1 DEF FoldLine
    <2>6. LineTook(f, g, line, x)
        BY <1>2
    <2>7. o.height = height => x = o
        BY <1>1 DEF FoldLine
    <2> HIDE DEF x
    <2>8. VisibleOf[x] = VisibleOf[o] /\ HeightOf[x] = height /\ ExpandedOf[x] = ExpandedOf[o]
        BY <1>1, <2>5 DEF VisibleOf, HeightOf, ExpandedOf
    <2>9. AreShown(d.visible, ValuesOf(VisibleOf, g)) /\ AreShown(d.expanded, ValuesOf(ExpandedOf, g))
        <3>1. AreShown(d.visible, ValuesOf(VisibleOf, f)) /\ AreShown(d.expanded, ValuesOf(ExpandedOf, f))
            BY <2>1 DEF FoldRuns
        <3>2. VisibleOf[x] = VisibleOf[f[line + 1]] /\ ExpandedOf[x] = ExpandedOf[f[line + 1]]
            BY <2>8 DEF o
        <3>3. AreShown(d.visible, ValuesOf(VisibleOf, g))
            BY <1>1, <2>5, <2>6, <3>1, <3>2, ValuesStay, MeasuresAre
        <3>4. AreShown(d.expanded, ValuesOf(ExpandedOf, g))
            BY <1>1, <2>5, <2>6, <3>1, <3>2, ValuesStay, MeasuresAre
        <3> QED BY <3>3, <3>4
    <2>10. CASE GetHeight(d, line) = height
        <3>1. x = o
            BY <2>3, <2>7, <2>10
        <3>2. \A k \in 1 .. Len(f) : g[k] = f[k]
            BY <3>1, <2>6, <1>1 DEF LineTook, o
        <3>3. f = g
            BY <3>2, <1>1, SeqEqual
        <3> QED BY <3>3, <2>1, <2>2, <2>10 DEF FoldData
    <2>11. CASE GetHeight(d, line) # height
        <3> DEFINE h == SetValueAt(d.heights, line, height)
        <3>1. z = [d EXCEPT !.displayLines = q, !.heights = h]
            OBVIOUS
        <3>2. AreShown(h, ValuesOf(HeightOf, g))
            <4>1. AreShown(SetValueAt(d.heights, line, HeightOf[x]), ValuesOf(HeightOf, g))
                BY <1>1, <2>1, <2>5, <2>6, ValuesTook, MeasuresAre DEF FoldRuns
            <4> QED BY <4>1, <2>8
        <3>3. IsRows(q, g)
            <4>1. CASE GetVisible(d, line)
                <5> DEFINE s == height - o.height
                <5>1. q = InsertText(d.displayLines, line, s) /\ s \in Int
                    BY <4>1, <2>3, <2>5
                <5>2. RowsOf(x) = RowsOf(o) + s
                    BY <4>1, <2>3, <2>5 DEF RowsOf
                <5> HIDE DEF s, q
                <5> QED BY <5>1, <5>2, <1>1, <2>1, <2>5, <2>6, RowsTake DEF FoldRuns, o
            <4>2. CASE ~GetVisible(d, line)
                <5>1. q = d.displayLines /\ RowsOf(x) = RowsOf(o)
                    BY <4>2, <2>3, <2>5 DEF RowsOf
                <5> HIDE DEF q
                <5> QED BY <5>1, <1>1, <2>1, <2>5, <2>6, RowsTake DEF FoldRuns, o
            <4> QED BY <4>1, <4>2
        <3> HIDE DEF h, z, q
        <3>4. /\ IsContraction(z) /\ ~OneToOne(z) /\ z.visible = d.visible /\ z.expanded = d.expanded /\ z.heights = h
              /\ z.displayLines = q
            BY <3>1, <2>4 DEF IsContraction, OneToOne
        <3> QED BY <3>2, <3>3, <3>4, <1>1, <2>2, <2>9, <2>11 DEF FoldRuns, FoldData
    <2> QED BY <2>10, <2>11
<1> QED BY <1>4, <1>5

LEMMA PlainHolds ==
    ASSUME NEW f \in Seq(FoldLine), \A k \in 1 .. Len(f) : f[k] = Unfolded, NEW n, n = Len(f)
    PROVE  FoldData(Plain(n), f)
<1> DEFINE c == Plain(n)
<1>1. IsContraction(c) /\ OneToOne(c) /\ c.linesInDocument = n
    BY DEF Plain, IsContraction, OneToOne
<1> HIDE DEF c
<1>2. FoldData(c, f)
    BY <1>1 DEF FoldData, PlainFolds
<1> QED BY <1>2 DEF c

LEMMA OnePlainLine == FoldData(Plain(1), <<Unfolded>>)
<1> DEFINE f == <<Unfolded>>
<1>1. f \in Seq(FoldLine) /\ Len(f) = 1 /\ f[1] = Unfolded
    BY UnfoldedIs
<1> HIDE DEF f
<1>2. \A k \in 1 .. Len(f) : f[k] = Unfolded
    <2>1. \A k \in 1 .. Len(f) : k = 1
        BY <1>1
    <2> QED BY <2>1, <1>1
<1>3. FoldData(Plain(1), f)
    BY <1>1, <1>2, PlainHolds
<1> QED BY <1>3 DEF f

\* What the history of the folds becomes, line by line.
LEMMA FoldedLines ==
    ASSUME NEW f \in Seq(FoldLine), NEW n \in Nat, Len(f) = n, NEW m \in Nat, NEW before, NEW after,
           Lines(before) = n, Lines(after) = m, NEW pos, NEW at \in Nat, at = LineOfChange(after, pos),
           at <= n, at <= m, NEW g, g = Folded(f, before, after, pos)
    PROVE  /\ m > n => LinesCame(f, g, at, m - n)
           /\ m <= n => LinesWent(f, g, at, n - m)
<1> DEFINE added == m - n
           new == [k \in 1 .. added |-> Unfolded]
           a == SubSeq(f, 1, at)
           gone == Max({0, -added})
           b == SubSeq(f, at + 1 + gone, Len(f))
           c == a \o new
<1>1. g = c \o b /\ IsFolds(f, n)
    BY DEF Folded, IsFolds
<1>2. /\ a \in Seq(FoldLine) /\ Len(a) = at /\ \A k \in 1 .. at : a[k] = f[k]
    <2>1. /\ SubSeq(f, 0 + 1, at) \in Seq(FoldLine) /\ Len(SubSeq(f, 0 + 1, at)) = at - 0
          /\ \A k \in 1 .. at - 0 : SubSeq(f, 0 + 1, at)[k] = f[0 + k]
        BY CutIs
    <2>2. 0 + 1 = 1 /\ at - 0 = at /\ \A k \in 1 .. at : 0 + k = k
        OBVIOUS
    <2> QED BY <2>1, <2>2
<1>3. gone \in Nat /\ gone = IF m > n THEN 0 ELSE n - m
    <2>1. CASE m > n
        <3>1. Max({0, -added}) = 0
            BY <2>1 DEF Max
        <3> QED BY <2>1, <3>1
    <2>2. CASE ~(m > n)
        <3>1. Max({0, -added}) = n - m
            BY <2>2 DEF Max
        <3> QED BY <2>2, <3>1
    <2> QED BY <2>1, <2>2
<1> DEFINE j == IF m > n THEN m - n ELSE 0
<1>4. j \in Nat /\ new \in Seq(FoldLine) /\ Len(new) = j /\ \A k \in 1 .. j : new[k] = Unfolded
    <2>1. j \in Nat
        OBVIOUS
    <2>2. 1 .. added = 1 .. j
        OBVIOUS
    <2> HIDE DEF j, added
    <2>3. new = [k \in 1 .. j |-> Unfolded]
        BY <2>2
    <2> HIDE DEF new
    <2> QED BY <2>1, <2>3, UnfoldedIs
<1> DEFINE o == at + gone
<1>5. /\ o \in Nat /\ o <= n
      /\ b \in Seq(FoldLine) /\ Len(b) = n - o /\ \A k \in 1 .. n - o : b[k] = f[o + k]
    <2>1. o \in Nat /\ o <= n /\ at + 1 + gone = o + 1
        BY <1>3
    <2> HIDE DEF o, gone
    <2>2. b = SubSeq(f, o + 1, n)
        BY <2>1
    <2> HIDE DEF b
    <2> QED BY <2>1, <2>2, CutIs
<1> HIDE DEF a, new, b
<1>6. /\ c \in Seq(FoldLine) /\ Len(c) = at + j
      /\ \A k \in 1 .. at : c[k] = f[k]
      /\ \A k \in at + 1 .. at + j : c[k] = Unfolded
    <2> HIDE DEF j
    <2>0. /\ c \in Seq(FoldLine) /\ Len(c) = Len(a) + Len(new)
          /\ \A k \in 1 .. Len(a) : c[k] = a[k]
          /\ \A k \in Len(a) + 1 .. Len(a) + Len(new) : c[k] = new[k - Len(a)]
        <3>1. a \in Seq(FoldLine) /\ new \in Seq(FoldLine)
            BY <1>2, <1>4
        <3> QED BY <3>1, JoinIs
    <2> HIDE DEF c
    <2>1. /\ c \in Seq(FoldLine) /\ Len(c) = at + j
          /\ \A k \in 1 .. at : c[k] = a[k]
          /\ \A k \in at + 1 .. at + j : c[k] = new[k - at]
        <3>1. Len(a) = at /\ Len(new) = j
            BY <1>2, <1>4
        <3> QED BY <2>0, <3>1
    <2>2. \A k \in at + 1 .. at + j : k - at \in 1 .. j
        BY <1>4
    <2> QED BY <2>1, <2>2, <1>2, <1>4
<1> HIDE DEF c
<1>7. /\ g \in Seq(FoldLine) /\ Len(g) = m
      /\ \A k \in 1 .. at : g[k] = f[k]
      /\ \A k \in at + 1 .. at + j : g[k] = Unfolded
      /\ \A k \in at + j + 1 .. m : g[k] = f[k - (m - n)]
    <2> DEFINE z == at + j
    <2>0. z \in Int /\ o \in Int /\ o - z = n - m
        <3>1. CASE m > n
            <4>1. j = m - n /\ gone = 0
                BY <3>1, <1>3
            <4> HIDE DEF j
            <4> QED BY <4>1
        <3>2. CASE ~(m > n)
            <4>1. j = 0 /\ gone = n - m
                BY <3>2, <1>3
            <4> HIDE DEF j
            <4> QED BY <4>1
        <3> QED BY <3>1, <3>2
    <2> HIDE DEF j, o
    <2>6. /\ g \in Seq(FoldLine) /\ Len(g) = Len(c) + Len(b)
          /\ \A k \in 1 .. Len(c) : g[k] = c[k]
          /\ \A k \in Len(c) + 1 .. Len(c) + Len(b) : g[k] = b[k - Len(c)]
        <3>1. c \in Seq(FoldLine) /\ b \in Seq(FoldLine) /\ g = c \o b
            BY <1>1, <1>5, <1>6
        <3> QED BY <3>1, JoinIs
    <2>1. /\ g \in Seq(FoldLine) /\ Len(g) = z + (n - o)
          /\ \A k \in 1 .. z : g[k] = c[k]
          /\ \A k \in z + 1 .. z + (n - o) : g[k] = b[k - z]
        <3>1. Len(c) = z /\ Len(b) = n - o
            BY <1>5, <1>6
        <3> HIDE DEF z
        <3> QED BY <2>6, <3>1
    <2>2. z \in Nat /\ n - o \in Nat /\ z + (n - o) = m
        <3>1. z \in Nat
            BY <1>4
        <3>2. o \in Nat /\ o <= n
            BY <1>5
        <3> HIDE DEF z
        <3> QED BY <2>0, <3>1, <3>2
    <2>3. \A k \in 1 .. at : k \in 1 .. z
        BY <1>4
    <2>4. \A k \in at + 1 .. at + j : k \in 1 .. z
        BY <1>4
    <2>5. ASSUME NEW k \in z + 1 .. m PROVE g[k] = f[k - (m - n)]
        <3>1. k - z \in 1 .. n - o /\ k \in z + 1 .. z + (n - o) /\ k \in Int
            BY <2>2
        <3>2. g[k] = b[k - z] /\ b[k - z] = f[o + (k - z)]
            BY <2>1, <3>1, <1>5
        <3>3. o + (k - z) = k - (m - n)
            <4> HIDE DEF z
            <4> QED BY <2>0, <3>1
        <3> QED BY <3>2, <3>3
    <2> QED BY <2>1, <2>2, <2>3, <2>4, <2>5, <1>6
<1> HIDE DEF o, gone, added
<1>8. ASSUME m > n PROVE LinesCame(f, g, at, m - n)
    <2>1. j = m - n /\ Len(g) = n + (m - n)
        BY <1>7, <1>8
    <2> HIDE DEF j
    <2>2. ASSUME NEW k \in 1 .. m
          PROVE  g[k] = IF k <= at THEN f[k] ELSE IF k <= at + (m - n) THEN Unfolded ELSE f[k - (m - n)]
        <3>1. k <= at => k \in 1 .. at
            OBVIOUS
        <3>2. ~(k <= at) /\ k <= at + (m - n) => k \in at + 1 .. at + j
            BY <2>1
        <3>3. ~(k <= at + (m - n)) => k \in at + j + 1 .. m
            BY <2>1
        <3> QED BY <3>1, <3>2, <3>3, <1>7
    <2> QED BY <2>1, <2>2, <1>7 DEF LinesCame
<1>9. ASSUME m <= n PROVE LinesWent(f, g, at, n - m)
    <2>1. j = 0 /\ Len(g) = n - (n - m)
        BY <1>7, <1>9
    <2> HIDE DEF j
    <2>2. ASSUME NEW k \in 1 .. m
          PROVE  g[k] = IF k <= at THEN f[k] ELSE f[k + (n - m)]
        <3>1. k <= at => k \in 1 .. at
            OBVIOUS
        <3>2. ~(k <= at) => k \in at + j + 1 .. m /\ k - (m - n) = k + (n - m)
            BY <2>1
        <3> QED BY <3>1, <3>2, <1>7
    <2> QED BY <2>1, <2>2, <1>7 DEF LinesWent
<1> QED BY <1>8, <1>9

\* Lines come or go where both have their place.
LEMMA ContractedHolds ==
    ASSUME NEW c, NEW f, FoldData(c, f), NEW n \in Nat \ {0}, Len(f) = n, NEW m \in Nat \ {0}, NEW before, NEW after,
           Lines(before) = n, Lines(after) = m, NEW pos, LineOfChange(after, pos) \in Nat,
           LineOfChange(after, pos) <= n, LineOfChange(after, pos) <= m
    PROVE  FoldData(Contracted(c, before, after, pos), Folded(f, before, after, pos))
<1> DEFINE at == LineOfChange(after, pos)
           g == Folded(f, before, after, pos)
<1>1. f \in Seq(FoldLine) /\ at \in Nat /\ at <= n /\ at <= m
    BY DEF FoldData, PlainFolds, FoldRuns
<1>2. Contracted(c, before, after, pos) =
          IF m - n > 0 THEN InsertFoldLines(c, at, m - n) ELSE DeleteFoldLines(c, at, -(m - n))
    BY DEF Contracted
<1>3. /\ m > n => LinesCame(f, g, at, m - n)
      /\ m <= n => LinesWent(f, g, at, n - m)
    <2>1. at = LineOfChange(after, pos) /\ g = Folded(f, before, after, pos) /\ n \in Nat /\ m \in Nat
        OBVIOUS
    <2> HIDE DEF at, g
    <2> QED BY <2>1, <1>1, FoldedLines
<1> HIDE DEF at, g
<1>4. CASE m > n
    <2>1. m - n \in Nat /\ m - n > 0 /\ at \in 0 .. Len(f) /\ LinesCame(f, g, at, m - n)
        BY <1>1, <1>3, <1>4
    <2>2. FoldData(InsertFoldLines(c, at, m - n), g)
        BY <2>1, FoldsCome
    <2> QED BY <2>1, <2>2, <1>2 DEF g
<1>5. CASE m <= n
    <2> DEFINE k == n - m
    <2>1. k \in Nat /\ ~(m - n > 0) /\ -(m - n) = k /\ at \in 0 .. Len(f) /\ LinesWent(f, g, at, k)
          /\ at + k <= Len(f) /\ k < Len(f)
        BY <1>1, <1>3, <1>5
    <2> HIDE DEF k
    <2>2. FoldData(DeleteFoldLines(c, at, k), g)
        BY <2>1, FoldsGo
    <2> QED BY <2>1, <2>2, <1>2 DEF g
<1> QED BY <1>4, <1>5

(***************************************************************************)
(* The folds are those of the history, whatever is done.                   *)
(***************************************************************************)

FoldsInv == LinesInv /\ FoldData(cs, folds)

LEMMA InsertionPlace ==
    ASSUME LinesInv, NEW pos \in 0 .. Len(text), NEW s \in Strings[use]
    PROVE  LET after == BasicInsertString(lines, text, pos, s)
               at == LineOfChange(after, pos)
           IN  /\ Lines(lines) \in Nat \ {0} /\ Lines(after) \in Nat \ {0}
               /\ at \in Nat /\ at <= Lines(lines) /\ at <= Lines(after)
<1> DEFINE after == BasicInsertString(lines, text, pos, s)
           w == Inserted(text, pos, s)
           n == Lines(lines)
           line == LineFromPosition(lines, pos)
           at == LineOfChange(after, pos)
<1>1. /\ text \in Seq(Chars) /\ AreLines(lines) /\ use \in Uses
      /\ IndexOf(lines.starts, LineBreaks(text), Len(text)) /\ pos \in Nat
    BY LenProperties DEF LinesInv
<1>2. s \in Seq(Chars) /\ Len(s) > 0
    <2>1. s \in Seq(Chars) /\ s # <<>>
        BY <1>1, ViewParameters
    <2> QED BY <2>1, EmptySeq, LenProperties
<1>3. /\ IndexOf(after.starts, LineBreaks(w), Len(w)) /\ Beyond(after.starts, n, line, pos)
    <2> HIDE DEF w, line
    <2>1. w = Inserted(text, pos, s)
        BY DEF w
    <2>2. LET r == BasicInsertString(lines, text, pos, s)
          IN  /\ IndexOf(r.starts, LineBreaks(w), Len(w))
              /\ Beyond(r.starts, Partitions(lines.starts), LineFromPosition(lines, pos), pos)
        BY <2>1, <1>1, <1>2, InsertStringKeepsIndex
    <2> QED BY <2>2 DEF line, Lines
<1> HIDE DEF after, w
<1>4. n \in Nat \ {0} /\ Lines(after) \in Nat \ {0} /\ line \in 0 .. n - 1
    <2>1. WellFormed(lines.starts) /\ WellFormed(after.starts)
        BY <1>1, <1>3 DEF IndexOf
    <2>2. IsLineAt(lines.starts, line, pos)
        BY <1>1, LineFound DEF LineFromPosition
    <2> HIDE DEF line
    <2> QED BY <2>1, <2>2, PlaceIsNumber DEF Lines, IsLineAt
<1> HIDE DEF line, n
<1>5. at \in 0 .. Lines(after)
    BY <1>1, <1>3, ChangeIsInside DEF Lines
<1>6. at <= n
    BY <1>1, <1>3, <1>4, ChangeIsBefore
<1> HIDE DEF at
<1>7. at \in Nat /\ at <= Lines(after)
    BY <1>4, <1>5
<1> QED BY <1>4, <1>6, <1>7 DEF after, at, n

LEMMA DeletionPlace ==
    ASSUME LinesInv, NEW pos \in 0 .. Len(text) - 1, NEW len \in 1 .. Len(text) - pos
    PROVE  LET after == BasicDeleteChars(lines, text, pos, len)
               at == LineOfChange(after, pos)
           IN  /\ Lines(lines) \in Nat \ {0} /\ Lines(after) \in Nat \ {0}
               /\ at \in Nat /\ at <= Lines(lines) /\ at <= Lines(after)
<1> DEFINE after == BasicDeleteChars(lines, text, pos, len)
           w == Deleted(text, pos, len)
           n == Lines(lines)
           at == LineOfChange(after, pos)
<1>1. /\ text \in Seq(Chars) /\ AreLines(lines)
      /\ IndexOf(lines.starts, LineBreaks(text), Len(text))
      /\ pos \in Nat /\ len \in Nat \ {0} /\ pos + len <= Len(text)
    BY LenProperties DEF LinesInv
<1>2. /\ IndexOf(after.starts, LineBreaks(w), Len(w)) /\ Lines(after) <= n
    <2> HIDE DEF w
    <2>1. w = Deleted(text, pos, len)
        BY DEF w
    <2>2. LET r == BasicDeleteChars(lines, text, pos, len)
          IN  /\ IndexOf(r.starts, LineBreaks(w), Len(w))
              /\ Partitions(r.starts) <= Partitions(lines.starts)
        BY <2>1, <1>1, DeleteCharsKeepsIndex
    <2> QED BY <2>2 DEF Lines
<1> HIDE DEF after, w
<1>3. n \in Nat \ {0} /\ Lines(after) \in Nat \ {0}
    <2>1. WellFormed(lines.starts) /\ WellFormed(after.starts)
        BY <1>1, <1>2 DEF IndexOf
    <2> QED BY <2>1, PlaceIsNumber DEF Lines
<1> HIDE DEF n
<1>4. at \in 0 .. Lines(after)
    BY <1>1, <1>2, ChangeIsInside DEF Lines
<1> HIDE DEF at
<1>5. at \in Nat /\ at <= Lines(after) /\ at <= n
    BY <1>2, <1>3, <1>4
<1> QED BY <1>3, <1>5 DEF after, at, n

LEMMA FoldsInit == Init => FoldsInv
<1> SUFFICES ASSUME Init PROVE FoldsInv
    OBVIOUS
<1>1. LinesInv
    BY LinesInit
<1>2. cs = Plain(1) /\ folds = <<Unfolded>>
    BY DEF Init
<1> QED BY <1>1, <1>2, OnePlainLine DEF FoldsInv

LEMMA FoldsStep ==
    ASSUME FoldsInv, [Next]_vars
    PROVE  FoldsInv'
<1> DEFINE n == Lines(lines)
<1>1. LinesInv /\ FoldData(cs, folds) /\ folds \in Seq(FoldLine) /\ Len(folds) = n
    BY DEF FoldsInv, LinesInv, IsFolds
<1>2. LinesInv'
    BY <1>1, LinesStep
<1>3. n \in Nat \ {0} /\ DOMAIN folds = 1 .. n /\ \A k \in 1 .. n : folds[k] \in FoldLine
    <2>1. WellFormed(lines.starts)
        BY <1>1 DEF LinesInv, IndexOf
    <2>2. n \in Nat \ {0}
        BY <2>1, PlaceIsNumber DEF Lines
    <2> HIDE DEF n
    <2> QED BY <2>2, <1>1, LenProperties, ElementOfSeq
<1>4. folds' \in Seq(FoldLine)
    BY <1>2 DEF LinesInv, IsFolds
<1> SUFFICES FoldData(cs', folds')
    BY <1>2 DEF FoldsInv, FoldData, PlainFolds, FoldRuns
<1>5. CASE UNCHANGED <<cs, folds>>
    BY <1>1, <1>5
<1>6. CASE UNCHANGED vars
    BY <1>5, <1>6 DEF vars
<1>7. CASE Next
    <2>1. CASE Type
        <3>1. PICK pos \in 0 .. Len(text), s \in Strings[use] : InsertString(pos, s)
            BY <2>1 DEF Type
        <3> DEFINE after == BasicInsertString(lines, text, pos, s)
        <3>2. cs' = Contracted(cs, lines, after, pos) /\ folds' = Folded(folds, lines, after, pos)
            BY <3>1 DEF InsertString
        <3>3. LET at == LineOfChange(after, pos)
              IN  /\ n \in Nat \ {0} /\ Lines(after) \in Nat \ {0}
                  /\ at \in Nat /\ at <= n /\ at <= Lines(after)
            BY <1>1, InsertionPlace
        <3> HIDE DEF after
        <3> QED BY <3>2, <3>3, <1>1, ContractedHolds
    <2>2. CASE Erase
        <3>1. PICK pos \in 0 .. Len(text) - 1 : \E len \in 1 .. Len(text) - pos : DeleteChars(pos, len)
            BY <2>2 DEF Erase
        <3>2. PICK len \in 1 .. Len(text) - pos : DeleteChars(pos, len)
            BY <3>1
        <3> DEFINE after == BasicDeleteChars(lines, text, pos, len)
        <3>3. cs' = Contracted(cs, lines, after, pos) /\ folds' = Folded(folds, lines, after, pos)
            BY <3>2 DEF DeleteChars
        <3>4. LET at == LineOfChange(after, pos)
              IN  /\ n \in Nat \ {0} /\ Lines(after) \in Nat \ {0}
                  /\ at \in Nat /\ at <= n /\ at <= Lines(after)
            BY <1>1, DeletionPlace
        <3> HIDE DEF after
        <3> QED BY <3>3, <3>4, <1>1, ContractedHolds
    <2>3. CASE ClearAll
        <3>1. cs' = Plain(1) /\ folds' = <<Unfolded>>
            BY <2>3 DEF ClearAll
        <3> QED BY <3>1, OnePlainLine
    <2>4. CASE AddMarker
        BY <2>4, <1>5 DEF AddMarker
    <2>5. CASE SelectIndicator
        BY <2>5, <1>5 DEF SelectIndicator
    <2>6. CASE IndicatorRange
        BY <2>6, <1>5 DEF IndicatorRange
    <2>7. ASSUME NEW shown \in BOOLEAN, ShowLines(shown)
          PROVE  FoldData(cs', folds')
        <3>1. PICK first \in (IF shown THEN 0 ELSE 1) .. n - 1 : \E last \in first .. n - 1 :
                  /\ cs' = SetVisible(cs, first, last, shown)
                  /\ folds' = [k \in DOMAIN folds |->
                         IF k - 1 \in first .. last THEN [folds[k] EXCEPT !.visible = shown] ELSE folds[k]]
            BY <2>7 DEF ShowLines
        <3>2. PICK last \in first .. n - 1 :
                  /\ cs' = SetVisible(cs, first, last, shown)
                  /\ folds' = [k \in DOMAIN folds |->
                         IF k - 1 \in first .. last THEN [folds[k] EXCEPT !.visible = shown] ELSE folds[k]]
            BY <3>1
        <3>3. first \in Nat /\ last \in Nat /\ first <= last /\ last < n
            <4>1. (IF shown THEN 0 ELSE 1) \in Nat
                OBVIOUS
            <4> HIDE DEF n
            <4> QED BY <4>1, <1>3
        <3> HIDE DEF n
        <3>4. LinesTook(folds, folds', first, last - first + 1, shown)
            <4>1. DOMAIN folds' = 1 .. n /\ Len(folds') = n
                <5>1. DOMAIN folds' = 1 .. n
                    BY <3>2, <1>3
                <5> QED BY <5>1, <1>3, <1>4, LenProperties
            <4>2. ASSUME NEW k \in 1 .. n
                  PROVE  folds'[k] = IF k \in first + 1 .. first + (last - first + 1)
                                     THEN [folds[k] EXCEPT !.visible = shown] ELSE folds[k]
                <5>1. k - 1 \in first .. last <=> k \in first + 1 .. first + (last - first + 1)
                    BY <3>3, <1>3
                <5>2. folds'[k] = IF k - 1 \in first .. last THEN [folds[k] EXCEPT !.visible = shown] ELSE folds[k]
                    BY <3>2, <1>3
                <5> QED BY <5>1, <5>2
            <4> QED BY <4>1, <4>2, <1>1, <1>4 DEF LinesTook
        <3>5. FoldData(SetVisible(cs, first, last, shown), folds')
            BY <3>3, <3>4, <1>1, VisibleSet
        <3> QED BY <3>2, <3>5
    <2>8. CASE SetFoldExpanded
        <3>1. PICK line \in 0 .. n - 1, expanded \in BOOLEAN :
                  cs' = SetExpanded(cs, line, expanded) /\ folds' = [folds EXCEPT ![line + 1].expanded = expanded]
            BY <2>8 DEF SetFoldExpanded
        <3> DEFINE x == [folds[line + 1] EXCEPT !.expanded = expanded]
        <3>2. folds' = [folds EXCEPT ![line + 1] = x] /\ line \in 0 .. Len(folds) - 1 /\ line + 1 \in 1 .. n
            BY <3>1, <1>1, <1>3
        <3> HIDE DEF n
        <3>3. LineTook(folds, folds', line, x)
            <4> HIDE DEF x
            <4>1. DOMAIN folds' = 1 .. n /\ Len(folds') = n
                <5>1. DOMAIN folds' = 1 .. n
                    BY <3>2, <1>3
                <5> QED BY <5>1, <1>3, <1>4, LenProperties
            <4>2. \A k \in 1 .. n : folds'[k] = IF k = line + 1 THEN x ELSE folds[k]
                BY <3>2, <1>3
            <4> QED BY <4>1, <4>2, <1>1, <1>4 DEF LineTook
        <3>4. FoldData(SetExpanded(cs, line, expanded), folds')
            BY <3>2, <3>3, <1>1, ExpandedSet
        <3> QED BY <3>1, <3>4
    <2>9. CASE SetLineHeight
        <3>1. PICK line \in 0 .. n - 1, height \in 1 .. MaxHeight :
                  cs' = SetHeight(cs, line, height) /\ folds' = [folds EXCEPT ![line + 1].height = height]
            BY <2>9 DEF SetLineHeight
        <3> DEFINE x == [folds[line + 1] EXCEPT !.height = height]
        <3>2. folds' = [folds EXCEPT ![line + 1] = x] /\ line \in 0 .. Len(folds) - 1 /\ line + 1 \in 1 .. n
              /\ height \in Nat
            BY <3>1, <1>1, <1>3, ViewAssumption
        <3> HIDE DEF n
        <3>3. LineTook(folds, folds', line, x)
            <4> HIDE DEF x
            <4>1. DOMAIN folds' = 1 .. n /\ Len(folds') = n
                <5>1. DOMAIN folds' = 1 .. n
                    BY <3>2, <1>3
                <5> QED BY <5>1, <1>3, <1>4, LenProperties
            <4>2. \A k \in 1 .. n : folds'[k] = IF k = line + 1 THEN x ELSE folds[k]
                BY <3>2, <1>3
            <4> QED BY <4>1, <4>2, <1>1, <1>4 DEF LineTook
        <3>4. FoldData(SetHeight(cs, line, height), folds')
            BY <3>2, <3>3, <1>1, HeightSet
        <3> QED BY <3>1, <3>4
    <2>10. CASE ShowAll
        <3>1. cs' = Plain(LinesInDoc(cs)) /\ folds' = [k \in DOMAIN folds |-> Unfolded]
            BY <2>10 DEF ShowAll
        <3>2. LinesInDoc(cs) = n
            <4>1. CASE PlainFolds(cs, folds)
                BY <4>1, <1>1 DEF PlainFolds, LinesInDoc
            <4>2. CASE FoldRuns(cs, folds)
                BY <4>2, <1>1, RowsRead
            <4> QED BY <4>1, <4>2, <1>1 DEF FoldData
        <3> HIDE DEF n
        <3>3. Len(folds') = n /\ \A k \in 1 .. n : folds'[k] = Unfolded
            <4>1. DOMAIN folds' = 1 .. n
                BY <3>1, <1>3
            <4> QED BY <4>1, <3>1, <1>3, <1>4, LenProperties
        <3>4. FoldData(Plain(n), folds')
            BY <3>3, <1>4, PlainHolds
        <3> QED BY <3>1, <3>2, <3>4
    <2>11. Step
        BY <1>7 DEF Next
    <2> QED BY <2>1, <2>2, <2>3, <2>4, <2>5, <2>6, <2>7, <2>8, <2>9, <2>10, <2>11 DEF Step
<1> QED BY <1>6, <1>7

\* The runs and the rows are as the properties say.
LEMMA FoldsFollow ==
    ASSUME FoldsInv
    PROVE  FoldsFollowLines /\ RowsMatchLines
<1> DEFINE n == Lines(lines)
<1>1. FoldData(cs, folds) /\ folds \in Seq(FoldLine) /\ Len(folds) = n /\ n \in Nat
      /\ \A k \in 1 .. n : folds[k] \in FoldLine
    BY RowsAre DEF FoldsInv, LinesInv, IsFolds
<1> HIDE DEF n
<1>2. CASE PlainFolds(cs, folds)
    <2>1. OneToOne(cs) /\ LinesInDoc(cs) = n /\ cs.linesInDocument = n /\ \A k \in 1 .. n : folds[k] = Unfolded
        BY <1>1, <1>2 DEF PlainFolds, LinesInDoc
    <2>2. ASSUME NEW line \in 0 .. n - 1
          PROVE  folds[line + 1] = [visible |-> GetVisible(cs, line), expanded |-> GetExpanded(cs, line),
                                    height |-> GetHeight(cs, line)]
        <3>1. line + 1 \in 1 .. n
            BY <1>1
        <3>2. GetVisible(cs, line) = TRUE /\ GetExpanded(cs, line) = TRUE /\ GetHeight(cs, line) = 1
            BY <2>1 DEF GetVisible, GetExpanded, GetHeight
        <3> QED BY <3>1, <3>2, <2>1 DEF Unfolded
    <2>3. FoldsFollowLines
        BY <2>1, <2>2 DEF FoldsFollowLines, n
    <2>4. HasItsRows(cs)
        <3>1. ASSUME NEW line \in 0 .. n - 1
              PROVE  DisplayFromDoc(cs, line + 1) - DisplayFromDoc(cs, line) =
                         IF GetVisible(cs, line) THEN GetHeight(cs, line) ELSE 0
            <4>1. Min({line, n}) = line /\ Min({line + 1, n}) = line + 1
                BY <1>1, SmallerIs
            <4>2. DisplayFromDoc(cs, line) = line /\ DisplayFromDoc(cs, line + 1) = line + 1
                BY <4>1, <2>1 DEF DisplayFromDoc
            <4>3. GetVisible(cs, line) /\ GetHeight(cs, line) = 1
                BY <2>1 DEF GetVisible, GetHeight
            <4> QED BY <4>2, <4>3
        <3> QED BY <3>1, <2>1 DEF HasItsRows
    <2>5. ShowsVisible(cs, 1 .. LinesDisplayed(cs) - 1)
        BY <2>1 DEF ShowsVisible, GetVisible
    <2> QED BY <2>3, <2>4, <2>5 DEF RowsMatchLines
<1>3. CASE FoldRuns(cs, folds)
    <2> DEFINE p == cs.displayLines
    <2>1. /\ ~OneToOne(cs) /\ LinesInDoc(cs) = n /\ WellFormed(p) /\ Partitions(p) = n + 1
          /\ PositionFromPartition(p, 0) = 0
          /\ \A k \in 0 .. n - 1 : PositionFromPartition(p, k + 1) = PositionFromPartition(p, k) + RowsOf(folds[k + 1])
          /\ \A k \in 0 .. n : DisplayFromDoc(cs, k) = PositionFromPartition(p, k)
        BY <1>1, <1>3, RowsRead DEF FoldRuns, IsRows
    <2>2. \A k \in 0 .. n + 1 : PositionFromPartition(p, k) \in Int
        BY <2>1, PlaceIsNumber
    <2> HIDE DEF p
    <2>3. ASSUME NEW line \in 0 .. n - 1
          PROVE  /\ GetVisible(cs, line) = folds[line + 1].visible
                 /\ GetExpanded(cs, line) = folds[line + 1].expanded
                 /\ GetHeight(cs, line) = folds[line + 1].height
        <3>1. /\ GetVisible(cs, line) <=> folds[line + 1].visible
              /\ GetExpanded(cs, line) <=> folds[line + 1].expanded
              /\ GetHeight(cs, line) = folds[line + 1].height
              /\ folds[line + 1] \in FoldLine
            BY <1>1, <1>3, FoldRead
        <3>2. GetVisible(cs, line) \in BOOLEAN /\ GetExpanded(cs, line) \in BOOLEAN
            BY DEF GetVisible, GetExpanded
        <3>3. folds[line + 1].visible \in BOOLEAN /\ folds[line + 1].expanded \in BOOLEAN
            BY <3>1 DEF FoldLine
        <3>4. GetVisible(cs, line) = folds[line + 1].visible
            BY <3>1, <3>2, <3>3, Zenon
        <3>5. GetExpanded(cs, line) = folds[line + 1].expanded
            BY <3>1, <3>2, <3>3, Zenon
        <3> QED BY <3>1, <3>4, <3>5
    <2>4. FoldsFollowLines
        <3>1. ASSUME NEW line \in 0 .. n - 1
              PROVE  folds[line + 1] = [visible |-> GetVisible(cs, line), expanded |-> GetExpanded(cs, line),
                                        height |-> GetHeight(cs, line)]
            <4> DEFINE x == folds[line + 1]
            <4>1. x \in FoldLine
                BY <1>1
            <4>2. /\ GetVisible(cs, line) = x.visible /\ GetExpanded(cs, line) = x.expanded
                  /\ GetHeight(cs, line) = x.height
                BY <2>3
            <4> HIDE DEF x
            <4>3. x = [visible |-> x.visible, expanded |-> x.expanded, height |-> x.height]
                BY <4>1 DEF FoldLine
            <4> QED BY <4>2, <4>3, Zenon DEF x
        <3> QED BY <3>1, <2>1 DEF FoldsFollowLines, n
    <2>5. HasItsRows(cs)
        <3>1. ASSUME NEW line \in 0 .. n - 1
              PROVE  DisplayFromDoc(cs, line + 1) - DisplayFromDoc(cs, line) =
                         IF GetVisible(cs, line) THEN GetHeight(cs, line) ELSE 0
            <4>1. line \in 0 .. n /\ line + 1 \in 0 .. n /\ line \in 0 .. n + 1 /\ line + 1 \in 1 .. n
                BY <1>1
            <4>2. RowsOf(folds[line + 1]) = IF GetVisible(cs, line) THEN GetHeight(cs, line) ELSE 0
                BY <2>3 DEF RowsOf
            <4>3. RowsOf(folds[line + 1]) \in Int
                BY <4>1, <1>1, RowsAre
            <4>4. DisplayFromDoc(cs, line + 1) = DisplayFromDoc(cs, line) + RowsOf(folds[line + 1])
                  /\ DisplayFromDoc(cs, line) \in Int
                BY <4>1, <2>1, <2>2
            <4> QED BY <4>2, <4>3, <4>4
        <3> QED BY <3>1, <2>1 DEF HasItsRows
    <2>6. ASSUME NEW row \in 1 .. LinesDisplayed(cs) - 1
          PROVE  GetVisible(cs, DocFromDisplay(cs, row))
        <3> DEFINE all == LinesDisplayed(cs)
                   K == {k \in 0 .. Partitions(p) - 1 : PositionFromPartition(p, k) <= row}
                   S == {0} \cup K
        <3>1. all = PositionFromPartition(p, n) /\ all \in Int
            <4>1. n \in 0 .. n /\ n \in 0 .. n + 1
                BY <1>1
            <4> QED BY <4>1, <2>1, <2>2 DEF LinesDisplayed
        <3>2. row \in Int /\ 1 <= row /\ row < all /\ ~(row <= 0)
            <4> HIDE DEF all
            <4>1. row \in 1 .. all - 1
                BY DEF all
            <4> QED BY <4>1, <3>1
        <3> HIDE DEF all
        <3>3. Min({row, LinesDisplayed(cs)}) = row
            BY <3>1, <3>2, SmallerIs DEF all
        <3>4. DocFromDisplay(cs, row) = Max(S)
            BY <3>2, <3>3, <2>1 DEF DocFromDisplay, PartitionFromPosition, p
        <3>5. S \subseteq 0 .. n /\ S # {} /\ K = {k \in 0 .. n : PositionFromPartition(p, k) <= row}
            <4>1. 0 .. Partitions(p) - 1 = 0 .. n /\ 0 \in 0 .. n
                BY <2>1, <1>1
            <4>2. K = {k \in 0 .. n : PositionFromPartition(p, k) <= row}
                BY <4>1
            <4>3. K \subseteq 0 .. n
                BY <4>2
            <4> HIDE DEF K
            <4> QED BY <4>1, <4>2, <4>3
        <3> HIDE DEF S, K
        <3>6. PICK m \in S : \A k \in S : k <= m
            BY <3>5, <1>1, Adding!GreatestOf
        <3>7. Max(S) = m
            <4>1. Max(S) \in S /\ \A k \in S : Max(S) >= k
                BY <3>6 DEF Max
            <4>2. Max(S) \in 0 .. n /\ m \in 0 .. n
                BY <4>1, <3>5
            <4>3. Max(S) >= m /\ Max(S) <= m
                BY <4>1, <3>6
            <4> HIDE DEF S
            <4> QED BY <4>2, <4>3
        <3>8. PositionFromPartition(p, m) <= row
            <4>1. CASE m = 0
                BY <4>1, <2>1, <3>2
            <4>2. CASE m # 0
                BY <4>2, <3>5 DEF S
            <4> QED BY <4>1, <4>2
        <3>9. m \in 0 .. n /\ m # n
            <4>1. m = n => PositionFromPartition(p, m) = all
                BY <3>1
            <4> QED BY <4>1, <3>1, <3>2, <3>5, <3>8
        <3>10. m \in 0 .. n - 1 /\ m + 1 \in 0 .. n /\ m + 1 \notin S /\ m + 1 # 0
            <4>1. m \in 0 .. n - 1 /\ m + 1 \in 0 .. n /\ ~(m + 1 <= m) /\ m + 1 # 0
                BY <3>9, <1>1
            <4> QED BY <4>1, <3>6
        <3>11. ~(PositionFromPartition(p, m + 1) <= row)
            BY <3>10, <3>5 DEF S
        <3>12. RowsOf(folds[m + 1]) # 0
            <4>1. PositionFromPartition(p, m + 1) = PositionFromPartition(p, m) + RowsOf(folds[m + 1])
                BY <3>10, <2>1
            <4>2. PositionFromPartition(p, m) \in Int
                <5>1. m \in 0 .. n + 1
                    BY <3>9, <1>1
                <5> QED BY <5>1, <2>2
            <4> QED BY <4>1, <4>2, <3>8, <3>11
        <3>13. folds[m + 1].visible
            BY <3>12 DEF RowsOf
        <3>14. GetVisible(cs, m) = folds[m + 1].visible
            BY <3>10, <2>3
        <3> QED BY <3>4, <3>7, <3>13, <3>14
    <2> QED BY <2>4, <2>5, <2>6 DEF RowsMatchLines, ShowsVisible
<1> QED BY <1>1, <1>2, <1>3 DEF FoldData

\* What is hidden, collapsed and wrapped stays so with its line, in every reachable
\* state (ContractionState::InsertLines and DeleteLines, from Editor::NotifyModified).
THEOREM FoldsAlwaysFollowLines == Spec => []FoldsFollowLines
<1>1. Init => FoldsInv
    BY FoldsInit
<1>2. FoldsInv /\ [Next]_vars => FoldsInv'
    BY FoldsStep
<1>3. FoldsInv => FoldsFollowLines
    BY FoldsFollow
<1> QED BY <1>1, <1>2, <1>3, PTL DEF Spec

\* The rows of the display are those of the visible lines, in every reachable state
\* (ContractionState::displayLines, SetVisible and SetHeight).
THEOREM RowsAlwaysMatchLines == Spec => []RowsMatchLines
<1>1. Init => FoldsInv
    BY FoldsInit
<1>2. FoldsInv /\ [Next]_vars => FoldsInv'
    BY FoldsStep
<1>3. FoldsInv => RowsMatchLines
    BY FoldsFollow
<1> QED BY <1>1, <1>2, <1>3, PTL DEF Spec

(***************************************************************************)
(* A marked line that is collapsed.                                        *)
(***************************************************************************)

\* Then the marked line is of the same fold as before.
LEMMA MarkedFold ==
    ASSUME NEW f \in Seq(FoldLine), NEW n \in Nat, Len(f) = n, NEW m \in Nat, NEW before, NEW after,
           Lines(before) = n, Lines(after) = m, NEW pos, NEW at \in Nat, at = LineOfChange(after, pos),
           at <= n, at <= m, NEW k \in 0 .. n - 1, MarkFollows(before, after, pos, k),
           AreLines(after)
    PROVE  /\ after.marker \in 0 .. m - 1
           /\ Folded(f, before, after, pos)[after.marker + 1] = f[k + 1]
<1> DEFINE g == Folded(f, before, after, pos)
           j == after.marker
<1>1. /\ m > n => LinesCame(f, g, at, m - n)
      /\ m <= n => LinesWent(f, g, at, n - m)
    <2>1. g = Folded(f, before, after, pos)
        OBVIOUS
    <2> HIDE DEF g
    <2> QED BY <2>1, FoldedLines
<1>2. \/ j = k /\ k < at
      \/ j = k + (m - n) /\ at <= j /\ at <= k
    BY DEF MarkFollows, Lines
<1>3. j \in -1 .. m - 1
    BY DEF AreLines, Lines
<1> HIDE DEF g, j
<1>4. j \in 0 .. m - 1
    BY <1>2, <1>3
<1>5. ASSUME m > n PROVE g[j + 1] = f[k + 1]
    <2>1. Len(g) = m
        BY <1>1, <1>5 DEF LinesCame
    <2>2. g[j + 1] = IF j + 1 <= at THEN f[j + 1]
                     ELSE IF j + 1 <= at + (m - n) THEN Unfolded ELSE f[(j + 1) - (m - n)]
        <3>1. j + 1 \in 1 .. Len(g)
            BY <2>1, <1>4
        <3> DEFINE i == j + 1
                   d == m - n
        <3>2. LinesCame(f, g, at, d) /\ i \in 1 .. Len(g)
            BY <3>1, <1>1, <1>5
        <3> HIDE DEF i, d
        <3>3. g[i] = IF i <= at THEN f[i] ELSE IF i <= at + d THEN Unfolded ELSE f[i - d]
            BY <3>2 DEF LinesCame
        <3> QED BY <3>3 DEF i, d
    <2>3. CASE j = k /\ k < at
        BY <2>2, <2>3
    <2>4. CASE j = k + (m - n) /\ at <= j /\ at <= k
        <3>1. ~(j + 1 <= at) /\ ~(j + 1 <= at + (m - n)) /\ (j + 1) - (m - n) = k + 1
            BY <2>4, <1>5
        <3> QED BY <2>2, <3>1
    <2> QED BY <2>3, <2>4, <1>2
<1>6. ASSUME m <= n PROVE g[j + 1] = f[k + 1]
    <2>1. Len(g) = m
        BY <1>1, <1>6 DEF LinesWent
    <2>2. g[j + 1] = IF j + 1 <= at THEN f[j + 1] ELSE f[j + 1 + (n - m)]
        <3>1. j + 1 \in 1 .. Len(g)
            BY <2>1, <1>4
        <3> QED BY <3>1, <1>1, <1>6 DEF LinesWent
    <2>3. CASE j = k /\ k < at
        BY <2>2, <2>3
    <2>4. CASE j = k + (m - n) /\ at <= j /\ at <= k
        <3>1. ~(j + 1 <= at) /\ j + 1 + (n - m) = k + 1
            BY <2>4, <1>4
        <3> QED BY <2>2, <3>1
    <2> QED BY <2>3, <2>4, <1>2
<1>7. g[j + 1] = f[k + 1]
    BY <1>5, <1>6
<1> QED BY <1>4, <1>7 DEF g, j

\* A line that was marked and collapsed is so in the history too.
MarkInv ==
    /\ FoldsInv
    /\ tagged => /\ lines.marker \in 0 .. Lines(lines) - 1
                 /\ ~folds[lines.marker + 1].expanded

LEMMA MarkInit == Init => MarkInv
BY FoldsInit DEF Init, MarkInv

LEMMA MarkStep ==
    ASSUME MarkInv, [Next]_vars
    PROVE  MarkInv'
<1> DEFINE n == Lines(lines)
           k == lines.marker
<1>1. /\ FoldsInv /\ LinesInv /\ folds \in Seq(FoldLine) /\ Len(folds) = n
      /\ tagged => k \in 0 .. n - 1 /\ ~folds[k + 1].expanded
    BY DEF MarkInv, FoldsInv, LinesInv, IsFolds
<1>2. /\ FoldsInv' /\ folds' \in Seq(FoldLine) /\ Len(folds') = Lines(lines')
      /\ AreLines(lines')
    <2>1. FoldsInv'
        BY <1>1, FoldsStep
    <2> QED BY <2>1 DEF FoldsInv, LinesInv, IsFolds
<1>3. n \in Nat \ {0} /\ DOMAIN folds = 1 .. n /\ AreLines(lines)
    <2>1. WellFormed(lines.starts)
        BY <1>1 DEF LinesInv, IndexOf
    <2>2. n \in Nat \ {0}
        BY <2>1, PlaceIsNumber DEF Lines
    <2> HIDE DEF n
    <2> QED BY <2>2, <1>1, LenProperties DEF LinesInv
<1> SUFFICES ASSUME tagged'
             PROVE  /\ lines'.marker \in 0 .. Lines(lines') - 1
                    /\ ~folds'[lines'.marker + 1].expanded
    BY <1>2 DEF MarkInv
<1>4. CASE UNCHANGED <<lines, folds, tagged>>
    BY <1>1, <1>4
<1>5. CASE UNCHANGED vars
    BY <1>4, <1>5 DEF vars
<1>6. CASE Next
    <2>1. CASE Type
        <3>1. PICK pos \in 0 .. Len(text), s \in Strings[use] : InsertString(pos, s)
            BY <2>1 DEF Type
        <3> DEFINE after == BasicInsertString(lines, text, pos, s)
        <3>2. /\ lines' = after /\ folds' = Folded(folds, lines, after, pos) /\ tagged' = tagged
            BY <3>1 DEF InsertString
        <3>3. k \in 0 .. n - 1 /\ k \in Nat /\ ~folds[k + 1].expanded
            BY <3>2, <1>1
        <3>4. LET at == LineOfChange(after, pos)
              IN  /\ n \in Nat \ {0} /\ Lines(after) \in Nat \ {0}
                  /\ at \in Nat /\ at <= n /\ at <= Lines(after)
            BY <1>1, InsertionPlace
        <3>5. MarkFollows(lines, after, pos, k)
            <4>1. /\ text \in Seq(Chars) /\ AreLines(lines) /\ use \in Uses
                  /\ IndexOf(lines.starts, LineBreaks(text), Len(text))
                BY <1>1 DEF LinesInv
            <4>2. s \in Seq(Chars) /\ Len(s) > 0
                <5>1. s \in Seq(Chars) /\ s # <<>>
                    BY <4>1, ViewParameters
                <5> QED BY <5>1, EmptySeq, LenProperties
            <4>3. lines.marker = k
                OBVIOUS
            <4> HIDE DEF k
            <4> QED BY <3>3, <4>1, <4>2, <4>3, InsertionMark
        <3>6. AreLines(after)
            BY <3>2, <1>2
        <3> HIDE DEF after, n, k
        <3>7. /\ after.marker \in 0 .. Lines(after) - 1
              /\ Folded(folds, lines, after, pos)[after.marker + 1] = folds[k + 1]
            <4>1. Lines(lines) = n /\ n \in Nat /\ Lines(after) \in Nat
                BY <3>4 DEF n
            <4> QED BY <4>1, <3>3, <3>4, <3>5, <3>6, <1>1, MarkedFold
        <3> QED BY <3>2, <3>3, <3>7
    <2>2. CASE Erase
        <3>1. PICK pos \in 0 .. Len(text) - 1 : \E len \in 1 .. Len(text) - pos : DeleteChars(pos, len)
            BY <2>2 DEF Erase
        <3>2. PICK len \in 1 .. Len(text) - pos : DeleteChars(pos, len)
            BY <3>1
        <3> DEFINE after == BasicDeleteChars(lines, text, pos, len)
        <3>3. /\ lines' = after /\ folds' = Folded(folds, lines, after, pos)
              /\ tagged' = (tagged /\ MarkedLineStays(pos, len))
            BY <3>2 DEF DeleteChars
        <3>4. /\ k \in 0 .. n - 1 /\ k \in Nat /\ ~folds[k + 1].expanded
              /\ PositionFromPartition(lines.starts, k) \notin pos .. pos + len
            <4>1. tagged /\ MarkedLineStays(pos, len)
                BY <3>3, Zenon
            <4> QED BY <4>1, <1>1 DEF MarkedLineStays
        <3>5. LET at == LineOfChange(after, pos)
              IN  /\ n \in Nat \ {0} /\ Lines(after) \in Nat \ {0}
                  /\ at \in Nat /\ at <= n /\ at <= Lines(after)
            BY <1>1, DeletionPlace
        <3>6. MarkFollows(lines, after, pos, k)
            <4>1. /\ text \in Seq(Chars) /\ AreLines(lines)
                  /\ IndexOf(lines.starts, LineBreaks(text), Len(text))
                BY <1>1 DEF LinesInv
            <4>2. pos \in Nat /\ len \in Nat \ {0} /\ pos + len <= Len(text)
                BY <4>1, LenProperties
            <4>3. lines.marker = k
                OBVIOUS
            <4> HIDE DEF k
            <4> QED BY <3>4, <4>1, <4>2, <4>3, DeletionMark
        <3>7. AreLines(after)
            BY <3>3, <1>2
        <3> HIDE DEF after, n, k
        <3>8. /\ after.marker \in 0 .. Lines(after) - 1
              /\ Folded(folds, lines, after, pos)[after.marker + 1] = folds[k + 1]
            <4>1. Lines(lines) = n /\ n \in Nat /\ Lines(after) \in Nat
                BY <3>5 DEF n
            <4> QED BY <4>1, <3>4, <3>5, <3>6, <3>7, <1>1, MarkedFold
        <3> QED BY <3>3, <3>4, <3>8
    <2>3. CASE ClearAll
        BY <2>3 DEF ClearAll
    <2>4. CASE AddMarker
        <3>1. k = NoMarker /\ tagged
            BY <2>4 DEF AddMarker
        <3> QED BY <3>1, <1>1 DEF NoMarker
    <2>5. CASE SelectIndicator
        BY <2>5, <1>4 DEF SelectIndicator
    <2>6. CASE IndicatorRange
        BY <2>6, <1>4 DEF IndicatorRange
    <2>7. ASSUME NEW shown \in BOOLEAN, ShowLines(shown)
          PROVE  /\ lines'.marker \in 0 .. Lines(lines') - 1
                 /\ ~folds'[lines'.marker + 1].expanded
        <3>1. PICK first \in (IF shown THEN 0 ELSE 1) .. n - 1 : \E last \in first .. n - 1 :
                  folds' = [h \in DOMAIN folds |->
                      IF h - 1 \in first .. last THEN [folds[h] EXCEPT !.visible = shown] ELSE folds[h]]
            BY <2>7 DEF ShowLines
        <3>2. PICK last \in first .. n - 1 :
                  folds' = [h \in DOMAIN folds |->
                      IF h - 1 \in first .. last THEN [folds[h] EXCEPT !.visible = shown] ELSE folds[h]]
            BY <3>1
        <3>3. lines' = lines /\ k \in 0 .. n - 1 /\ ~folds[k + 1].expanded
            BY <2>7, <1>1 DEF ShowLines
        <3>4. folds'[k + 1].expanded = folds[k + 1].expanded
            <4>1. k + 1 \in DOMAIN folds /\ folds[k + 1] \in FoldLine
                BY <3>3, <1>1, <1>3
            <4> HIDE DEF k, n
            <4>2. [folds[k + 1] EXCEPT !.visible = shown].expanded = folds[k + 1].expanded
                BY <4>1 DEF FoldLine
            <4> QED BY <3>2, <4>1, <4>2
        <3> QED BY <3>3, <3>4
    <2>8. CASE SetFoldExpanded
        <3>1. PICK line \in 0 .. n - 1, expanded \in BOOLEAN :
                  /\ folds' = [folds EXCEPT ![line + 1].expanded = expanded]
                  /\ tagged' = IF line # k THEN tagged ELSE ~expanded
            BY <2>8 DEF SetFoldExpanded
        <3>2. lines' = lines
            BY <2>8 DEF SetFoldExpanded
        <3>3. CASE line = k
            <4>1. ~expanded /\ k \in 0 .. n - 1 /\ k + 1 \in DOMAIN folds /\ folds[k + 1] \in FoldLine
                <5>1. ~expanded
                    BY <3>1, <3>3, Zenon
                <5>2. k \in 0 .. n - 1 /\ k + 1 \in DOMAIN folds /\ folds[k + 1] \in FoldLine
                    BY <3>1, <3>3, <1>1, <1>3
                <5> QED BY <5>1, <5>2
            <4> HIDE DEF k, n
            <4>2. folds'[k + 1] = [folds[k + 1] EXCEPT !.expanded = expanded]
                BY <3>1, <3>3, <4>1
            <4>3. folds'[k + 1].expanded = expanded
                BY <4>1, <4>2 DEF FoldLine
            <4> QED BY <3>2, <4>1, <4>3 DEF k, n
        <3>4. CASE line # k
            <4>1. tagged /\ k \in 0 .. n - 1 /\ k + 1 \in DOMAIN folds /\ line + 1 # k + 1
                  /\ ~folds[k + 1].expanded
                BY <3>1, <3>4, <1>1, <1>3
            <4> HIDE DEF k, n
            <4>2. folds'[k + 1] = folds[k + 1]
                BY <3>1, <4>1
            <4> QED BY <3>2, <4>1, <4>2 DEF k, n
        <3> QED BY <3>3, <3>4
    <2>9. CASE SetLineHeight
        <3>1. PICK line \in 0 .. n - 1, height \in 1 .. MaxHeight :
                  folds' = [folds EXCEPT ![line + 1].height = height]
            BY <2>9 DEF SetLineHeight
        <3>2. lines' = lines /\ k \in 0 .. n - 1 /\ ~folds[k + 1].expanded
            BY <2>9, <1>1 DEF SetLineHeight
        <3>3. folds'[k + 1].expanded = folds[k + 1].expanded
            <4>1. k + 1 \in DOMAIN folds /\ folds[k + 1] \in FoldLine
                BY <3>2, <1>1, <1>3
            <4> HIDE DEF k, n
            <4>2. [folds[k + 1] EXCEPT !.height = height].expanded = folds[k + 1].expanded
                BY <4>1 DEF FoldLine
            <4>3. folds'[k + 1] = folds[k + 1] \/ folds'[k + 1] = [folds[k + 1] EXCEPT !.height = height]
                BY <3>1, <4>1
            <4> QED BY <4>2, <4>3
        <3> QED BY <3>2, <3>3
    <2>10. CASE ShowAll
        BY <2>10 DEF ShowAll
    <2>11. Step
        BY <1>6 DEF Next
    <2> QED BY <2>1, <2>2, <2>3, <2>4, <2>5, <2>6, <2>7, <2>8, <2>9, <2>10, <2>11 DEF Step
<1> QED BY <1>5, <1>6

LEMMA MarkKept ==
    ASSUME MarkInv
    PROVE  FoldKeepsItsMarker
<1> SUFFICES ASSUME tagged PROVE ~GetExpanded(cs, lines.marker)
    BY DEF FoldKeepsItsMarker
<1> DEFINE k == lines.marker
<1>1. FoldsFollowLines /\ k \in 0 .. Lines(lines) - 1 /\ ~folds[k + 1].expanded
    BY FoldsFollow DEF MarkInv
<1> HIDE DEF k
<1>2. folds[k + 1] = [visible |-> GetVisible(cs, k), expanded |-> GetExpanded(cs, k),
                      height |-> GetHeight(cs, k)]
    BY <1>1 DEF FoldsFollowLines
<1>3. ~GetExpanded(cs, k)
    BY <1>1, <1>2
<1> QED BY <1>3 DEF k

\* A collapsed line stays collapsed, and a marker stays on it, in every reachable state,
\* although two pieces of code move them (LineVector::InsertLine and RemoveLine, and
\* ContractionState::InsertLines and DeleteLines).
THEOREM FoldAlwaysKeepsItsMarker == Spec => []FoldKeepsItsMarker
<1>1. Init => MarkInv
    BY MarkInit
<1>2. MarkInv /\ [Next]_vars => MarkInv'
    BY MarkStep
<1>3. MarkInv => FoldKeepsItsMarker
    BY MarkKept
<1> QED BY <1>1, <1>2, <1>3, PTL DEF Spec

=============================================================================
