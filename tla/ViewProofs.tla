----------------------------- MODULE ViewProofs -----------------------------
(***************************************************************************)
(* Theorems about View and the modules it is built from.  However many     *)
(* partitions there are and whatever change is pending, each operation of  *)
(* Partitioning does to the starts that the representation stands for what *)
(* its name says.  So the line index holds the lines of the text after any *)
(* insertion and any deletion, whatever pairs of "\r" and "\n" are split   *)
(* or joined, and LinesInv is inductive.                                   *)
(*                                                                         *)
(* A change of the text is followed from left to right: the starts before  *)
(* the next line (F) are those of the text that has been seen, the rest    *)
(* (B) those of the text that follows, moved (Splits).                     *)
(*                                                                         *)
(* The line that a marker is in is the number of line breaks before it.    *)
(* Each line that comes or goes moves the markers by one (Counts), so a    *)
(* marker is, after the change, behind as many breaks as its text is; and  *)
(* a marker that is behind a place of the text stays behind that place     *)
(* unless the change takes the place away (MarkFollows).                   *)
(*                                                                         *)
(* Last, what the operations of RunStyles on one run do to the values that *)
(* the runs stand for: splitting, merging and dropping runs.               *)
(***************************************************************************)
EXTENDS View, SequenceTheorems, FiniteSetTheorems, TLAPS

WellFormed(p) ==
    /\ p \in [body : Seq(Int), step : Int, delta : Int]
    /\ Len(p.body) > 1
    /\ p.step \in -1 .. Partitions(p)

LEMMA Form ==
    ASSUME NEW p, WellFormed(p)
    PROVE  /\ p.body \in Seq(Int) /\ Len(p.body) \in Nat /\ Len(p.body) > 1
           /\ DOMAIN p.body = 1 .. Len(p.body)
           /\ \A i \in 1 .. Len(p.body) : p.body[i] \in Int
           /\ p.step \in Int /\ p.delta \in Int
           /\ -1 <= p.step /\ p.step <= Len(p.body) - 1
<1>1. p.body \in Seq(Int) /\ p.step \in Int /\ p.delta \in Int
    BY DEF WellFormed
<1>2. Len(p.body) \in Nat /\ DOMAIN p.body = 1 .. Len(p.body)
    BY <1>1, LenProperties
<1>3. \A i \in 1 .. Len(p.body) : p.body[i] \in Int
    BY <1>1, ElementOfSeq
<1> QED BY <1>1, <1>2, <1>3 DEF WellFormed, Partitions

LEMMA MakeForm ==
    ASSUME NEW b \in Seq(Int), NEW s \in Int, NEW d \in Int,
           Len(b) > 1, -1 <= s, s <= Len(b) - 1
    PROVE  LET p == [body |-> b, step |-> s, delta |-> d]
           IN  WellFormed(p) /\ p.body = b /\ p.step = s /\ p.delta = d
<1>1. Len(b) \in Nat
    BY LenProperties
<1> QED BY <1>1 DEF WellFormed, Partitions

(***************************************************************************)
(* Moving the step.                                                        *)
(***************************************************************************)

LEMMA RangeAdded ==
    ASSUME NEW b \in Seq(Int), NEW first \in Int, NEW end \in Int, NEW d \in Int
    PROVE  LET r == RangeAdd(b, first, end, d)
           IN  /\ r \in Seq(Int) /\ Len(r) = Len(b)
               /\ \A i \in 1 .. Len(b) :
                      r[i] = b[i] + (IF i - 1 \in first .. end - 1 THEN d ELSE 0)
<1> DEFINE r == RangeAdd(b, first, end, d)
<1>1. /\ Len(b) \in Nat /\ DOMAIN b = 1 .. Len(b)
      /\ \A i \in 1 .. Len(b) : b[i] \in Int
    BY LenProperties, ElementOfSeq
<1>2. r = [i \in 1 .. Len(b) |-> b[i] + (IF i - 1 \in first .. end - 1 THEN d ELSE 0)]
    BY <1>1 DEF RangeAdd
<1> HIDE DEF r
<1>3. r \in [1 .. Len(b) -> Int]
    BY <1>1, <1>2
<1>4. r \in Seq(Int) /\ Len(r) = Len(b)
    BY <1>1, <1>3
<1> QED BY <1>2, <1>4 DEF r

\* Applying the pending change further on moves the step, and no start.
LEMMA ApplyStepMovesNothing ==
    ASSUME NEW p, WellFormed(p), NEW upTo \in Int, p.step <= upTo
    PROVE  LET q == ApplyStep(p, upTo)
           IN  /\ WellFormed(q) /\ Len(q.body) = Len(p.body)
               /\ \A j \in Bounds(p) : PositionFromPartition(q, j) = PositionFromPartition(p, j)
               /\ upTo < Partitions(p) => q.step = upTo
               /\ upTo >= Partitions(p) => q.step = Partitions(p) /\ q.delta = 0
<1> DEFINE moved == RangeAdd(p.body, p.step + 1, upTo + 1, p.delta)
           q == ApplyStep(p, upTo)
           n == Len(p.body)
<1>1. /\ p.body \in Seq(Int) /\ n \in Nat /\ n > 1
      /\ \A i \in 1 .. n : p.body[i] \in Int
      /\ p.step \in Int /\ p.delta \in Int /\ -1 <= p.step /\ p.step <= n - 1
    BY Form
<1>2. /\ moved \in Seq(Int) /\ Len(moved) = n
      /\ \A i \in 1 .. n : moved[i] = p.body[i] + (IF i - 1 \in p.step + 1 .. upTo + 1 - 1
                                                   THEN p.delta ELSE 0)
    <2> DEFINE f == p.step + 1
               e == upTo + 1
    <2>1. f \in Int /\ e \in Int
        BY <1>1
    <2> HIDE DEF f, e
    <2>2. /\ RangeAdd(p.body, f, e, p.delta) \in Seq(Int)
          /\ Len(RangeAdd(p.body, f, e, p.delta)) = n
          /\ \A i \in 1 .. n : RangeAdd(p.body, f, e, p.delta)[i] =
                 p.body[i] + (IF i - 1 \in f .. e - 1 THEN p.delta ELSE 0)
        <3> DEFINE body == p.body
                   delta == p.delta
        <3>1. body \in Seq(Int) /\ delta \in Int
            BY <1>1
        <3> HIDE DEF moved, q, n, body, delta
        <3>2. /\ RangeAdd(body, f, e, delta) \in Seq(Int)
              /\ Len(RangeAdd(body, f, e, delta)) = Len(body)
              /\ \A i \in 1 .. Len(body) : RangeAdd(body, f, e, delta)[i] =
                     body[i] + (IF i - 1 \in f .. e - 1 THEN delta ELSE 0)
            BY <2>1, <3>1, RangeAdded
        <3> QED BY <3>2, Zenon DEF n, body, delta
    <2> QED BY <2>2 DEF f, e
<1>3. q = IF upTo >= n - 1 THEN [body |-> moved, step |-> n - 1, delta |-> 0]
                           ELSE [body |-> moved, step |-> upTo, delta |-> p.delta]
    BY DEF ApplyStep, Partitions
<1> HIDE DEF moved, q, n
<1>4. /\ WellFormed(q) /\ q.body = moved
      /\ q.step = IF upTo >= n - 1 THEN n - 1 ELSE upTo
      /\ q.delta = IF upTo >= n - 1 THEN 0 ELSE p.delta
    <2>1. CASE upTo >= n - 1
        <3>1. n - 1 \in Int /\ -1 <= n - 1 /\ n - 1 <= Len(moved) - 1 /\ Len(moved) > 1 /\ 0 \in Int
            BY <1>1, <1>2
        <3> QED BY <2>1, <3>1, <1>2, <1>3, MakeForm
    <2>2. CASE ~(upTo >= n - 1)
        <3>1. -1 <= upTo /\ upTo <= Len(moved) - 1 /\ Len(moved) > 1
            BY <2>2, <1>1, <1>2
        <3> QED BY <2>2, <3>1, <1>1, <1>2, <1>3, MakeForm
    <2> QED BY <2>1, <2>2
<1>5. ASSUME NEW j \in 0 .. n - 1
      PROVE  PositionFromPartition(q, j) = PositionFromPartition(p, j)
    <2>1. j + 1 \in 1 .. n /\ j \in Int /\ 0 <= j /\ j <= n - 1
        BY <1>1
    <2>6. p.body[j + 1] \in Int
        BY <1>1, <2>1
    <2>7. q.body[j + 1] = p.body[j + 1] + (IF j \in p.step + 1 .. upTo THEN p.delta ELSE 0)
        <3>1. q.body[j + 1] = p.body[j + 1] + (IF j + 1 - 1 \in p.step + 1 .. upTo + 1 - 1
                                               THEN p.delta ELSE 0)
            BY <1>2, <1>4, <2>1
        <3>2. j + 1 - 1 = j /\ upTo + 1 - 1 = upTo
            BY <2>1
        <3> QED BY <3>1, <3>2, Zenon
    <2>2. /\ PositionFromPartition(p, j) = p.body[j + 1] + (IF j > p.step THEN p.delta ELSE 0)
          /\ PositionFromPartition(q, j) = q.body[j + 1] + (IF j > q.step THEN q.delta ELSE 0)
        BY DEF PositionFromPartition
    <2>3. CASE j <= p.step
        <3>1. ~(j > q.step) /\ ~(j > p.step) /\ ~(j \in p.step + 1 .. upTo)
            BY <2>1, <2>3, <1>1, <1>4
        <3> QED BY <3>1, <2>2, <2>6, <2>7
    <2>4. CASE p.step < j /\ j <= upTo
        <3>1. ~(j > q.step) /\ j > p.step /\ j \in p.step + 1 .. upTo
            BY <2>1, <2>4, <1>1, <1>4
        <3>2. PositionFromPartition(p, j) = p.body[j + 1] + p.delta
            BY <3>1, <2>2
        <3>3. PositionFromPartition(q, j) = (p.body[j + 1] + p.delta) + 0
            BY <3>1, <2>2, <2>7
        <3>4. p.delta \in Int
            BY <1>1
        <3> QED BY <3>2, <3>3, <3>4, <2>6
    <2>5. CASE upTo < j
        <3>1. j > q.step /\ j > p.step /\ ~(j \in p.step + 1 .. upTo) /\ q.delta = p.delta
            BY <2>1, <2>5, <1>1, <1>4
        <3> QED BY <3>1, <2>2, <2>6, <2>7, <1>1
    <2> QED BY <2>1, <2>3, <2>4, <2>5, <1>1
<1> QED BY <1>2, <1>4, <1>5 DEF Bounds, Partitions, n, q

\* Nor does taking it back.
LEMMA BackStepMovesNothing ==
    ASSUME NEW p, WellFormed(p), NEW downTo \in Nat, downTo <= p.step
    PROVE  LET q == BackStep(p, downTo)
           IN  /\ WellFormed(q) /\ Len(q.body) = Len(p.body) /\ q.step = downTo
               /\ \A j \in Bounds(p) : PositionFromPartition(q, j) = PositionFromPartition(p, j)
<1> DEFINE moved == RangeAdd(p.body, downTo + 1, p.step + 1, -p.delta)
           q == BackStep(p, downTo)
           n == Len(p.body)
<1>1. /\ p.body \in Seq(Int) /\ n \in Nat /\ n > 1
      /\ \A i \in 1 .. n : p.body[i] \in Int
      /\ p.step \in Int /\ p.delta \in Int /\ -1 <= p.step /\ p.step <= n - 1
    BY Form
<1>2. /\ moved \in Seq(Int) /\ Len(moved) = n
      /\ \A i \in 1 .. n : moved[i] = IF i - 1 \in downTo + 1 .. p.step
                                        THEN p.body[i] - p.delta ELSE p.body[i]
    <2> DEFINE f == downTo + 1
               e == p.step + 1
               d == -p.delta
    <2>1. f \in Int /\ e \in Int /\ d \in Int
        BY <1>1
    <2> HIDE DEF f, e, d
    <2>2. /\ RangeAdd(p.body, f, e, d) \in Seq(Int)
          /\ Len(RangeAdd(p.body, f, e, d)) = n
          /\ \A i \in 1 .. n : RangeAdd(p.body, f, e, d)[i] =
                 p.body[i] + (IF i - 1 \in f .. e - 1 THEN d ELSE 0)
        <3> DEFINE b == p.body
        <3>1. b \in Seq(Int) /\ Len(b) = n
            BY <1>1
        <3> HIDE DEF moved, q, n, b
        <3>2. LET r == RangeAdd(b, f, e, d)
              IN  /\ r \in Seq(Int) /\ Len(r) = Len(b)
                  /\ \A i \in 1 .. Len(b) :
                         r[i] = b[i] + (IF i - 1 \in f .. e - 1 THEN d ELSE 0)
            BY <2>1, <3>1, RangeAdded
        <3> QED BY <3>1, <3>2 DEF b
    <2>3. moved = RangeAdd(p.body, f, e, d)
        BY DEF f, e, d
    <2>4. /\ moved \in Seq(Int) /\ Len(moved) = n
          /\ \A i \in 1 .. n : moved[i] = p.body[i] + (IF i - 1 \in f .. e - 1 THEN d ELSE 0)
        BY <2>2, <2>3
    <2> HIDE DEF moved, q
    <2>5. ASSUME NEW i \in 1 .. n
          PROVE  moved[i] = IF i - 1 \in downTo + 1 .. p.step
                            THEN p.body[i] - p.delta ELSE p.body[i]
        <3>1. d = -p.delta /\ f = downTo + 1 /\ e - 1 = p.step /\ p.body[i] \in Int
            BY <1>1 DEF d, f, e
        <3>2. moved[i] = p.body[i] + (IF i - 1 \in f .. e - 1 THEN d ELSE 0)
            BY <2>4
        <3>3. i \in Int /\ p.delta \in Int
            BY <1>1
        <3>4. CASE i - 1 \in downTo + 1 .. p.step
            <4>1. moved[i] = p.body[i] + d
                BY <3>1, <3>2, <3>4
            <4> QED BY <4>1, <3>1, <3>3, <3>4
        <3>5. CASE ~(i - 1 \in downTo + 1 .. p.step)
            <4>1. moved[i] = p.body[i] + 0
                BY <3>1, <3>2, <3>5
            <4> QED BY <4>1, <3>1, <3>5
        <3> QED BY <3>4, <3>5
    <2> QED BY <2>4, <2>5
<1>3. q = [body |-> moved, step |-> downTo, delta |-> p.delta]
    <2>1. q = [p EXCEPT !.body = moved, !.step = downTo]
        BY DEF BackStep
    <2> HIDE DEF moved, q
    <2> QED BY <2>1 DEF WellFormed
<1> HIDE DEF moved, q, n
<1>4. WellFormed(q) /\ q.body = moved /\ q.step = downTo /\ q.delta = p.delta
    <2>1. downTo \in Int /\ -1 <= downTo /\ downTo <= Len(moved) - 1 /\ Len(moved) > 1
        BY <1>1, <1>2
    <2> QED BY <2>1, <1>1, <1>2, <1>3, MakeForm
<1>5. ASSUME NEW j \in 0 .. n - 1
      PROVE  PositionFromPartition(q, j) = PositionFromPartition(p, j)
    <2>1. /\ j + 1 \in 1 .. n /\ p.body[j + 1] \in Int
          /\ q.body[j + 1] = IF j \in downTo + 1 .. p.step
                             THEN p.body[j + 1] - p.delta ELSE p.body[j + 1]
        BY <1>1, <1>2, <1>4
    <2>2. /\ PositionFromPartition(p, j) = p.body[j + 1] + (IF j > p.step THEN p.delta ELSE 0)
          /\ PositionFromPartition(q, j) = q.body[j + 1] + (IF j > q.step THEN q.delta ELSE 0)
        BY DEF PositionFromPartition
    <2> QED BY <2>1, <2>2, <1>1, <1>4
<1> QED BY <1>2, <1>4, <1>5 DEF Bounds, n, q

(***************************************************************************)
(* The operations.                                                         *)
(***************************************************************************)

LEMMA Place ==
    ASSUME NEW p
    PROVE  \A j : PositionFromPartition(p, j) =
                      p.body[j + 1] + (IF j > p.step THEN p.delta ELSE 0)
BY DEF PositionFromPartition

\* A change that is made pending at k with nothing pending moves the starts after k.
LEMMA PendingMoves ==
    ASSUME NEW p, WellFormed(p), p.delta = 0, NEW k \in 0 .. Partitions(p), NEW delta \in Int
    PROVE  LET q == [p EXCEPT !.step = k, !.delta = delta]
           IN  /\ WellFormed(q) /\ Len(q.body) = Len(p.body)
               /\ \A j \in Bounds(p) :
                      PositionFromPartition(q, j) =
                          PositionFromPartition(p, j) + (IF j > k THEN delta ELSE 0)
<1> DEFINE q == [p EXCEPT !.step = k, !.delta = delta]
<1>1. /\ p.body \in Seq(Int) /\ Len(p.body) \in Nat /\ Len(p.body) > 1
      /\ \A i \in 1 .. Len(p.body) : p.body[i] \in Int
    BY Form
<1>2. k \in Int /\ 0 <= k /\ k <= Len(p.body) - 1
    BY <1>1 DEF Partitions
<1>3. /\ q \in [body : Seq(Int), step : Int, delta : Int]
      /\ q.body = p.body /\ q.step = k /\ q.delta = delta
    <2>1. p \in [body : Seq(Int), step : Int, delta : Int]
        BY DEF WellFormed
    <2> QED BY <2>1, <1>2
<1> HIDE DEF q
<1>4. WellFormed(q)
    BY <1>1, <1>2, <1>3 DEF WellFormed, Partitions
<1>5. ASSUME NEW j \in Bounds(p)
      PROVE  PositionFromPartition(q, j) =
                 PositionFromPartition(p, j) + (IF j > k THEN delta ELSE 0)
    <2>1. j \in Int /\ p.body[j + 1] \in Int
        BY <1>1 DEF Bounds
    <2>2. PositionFromPartition(q, j) = p.body[j + 1] + (IF j > k THEN delta ELSE 0)
        <3>1. PositionFromPartition(q, j) = q.body[j + 1] + (IF j > q.step THEN q.delta ELSE 0)
            BY Place
        <3> QED BY <3>1, <1>3
    <2>3. PositionFromPartition(p, j) = p.body[j + 1]
        <3>1. PositionFromPartition(p, j) = p.body[j + 1] + (IF j > p.step THEN 0 ELSE 0)
            BY Place
        <3> QED BY <2>1, <3>1
    <2> QED BY <2>2, <2>3
<1> QED BY <1>3, <1>4, <1>5 DEF q

\* So does one that is added to what is pending at the same place.
LEMMA MoreMoves ==
    ASSUME NEW p, WellFormed(p), NEW delta \in Int
    PROVE  LET q == [p EXCEPT !.delta = @ + delta]
           IN  /\ WellFormed(q) /\ Len(q.body) = Len(p.body)
               /\ \A j \in Bounds(p) :
                      PositionFromPartition(q, j) =
                          PositionFromPartition(p, j) + (IF j > p.step THEN delta ELSE 0)
<1> DEFINE q == [p EXCEPT !.delta = @ + delta]
           more == p.delta + delta
<1>1. q = [body |-> p.body, step |-> p.step, delta |-> more]
    BY DEF WellFormed
<1>2. /\ p.body \in Seq(Int) /\ Len(p.body) \in Nat /\ Len(p.body) > 1
      /\ \A i \in 1 .. Len(p.body) : p.body[i] \in Int
      /\ p.step \in Int /\ p.delta \in Int /\ -1 <= p.step /\ p.step <= Len(p.body) - 1
    BY Form
<1>3. more \in Int
    BY <1>2
<1> HIDE DEF q, more
<1>4. WellFormed(q) /\ q.body = p.body /\ q.step = p.step /\ q.delta = more
    BY <1>1, <1>2, <1>3, MakeForm
<1>5. ASSUME NEW j \in Bounds(p)
      PROVE  PositionFromPartition(q, j) =
                 PositionFromPartition(p, j) + (IF j > p.step THEN delta ELSE 0)
    <2>1. j \in Int /\ p.body[j + 1] \in Int
        BY <1>2 DEF Bounds
    <2>2. /\ PositionFromPartition(q, j) = p.body[j + 1] + (IF j > p.step THEN more ELSE 0)
          /\ PositionFromPartition(p, j) = p.body[j + 1] + (IF j > p.step THEN p.delta ELSE 0)
        BY <1>4, Place
    <2>3. more = p.delta + delta
        BY DEF more
    <2>4. CASE j > p.step
        <3>1. /\ PositionFromPartition(q, j) = p.body[j + 1] + more
              /\ PositionFromPartition(p, j) = p.body[j + 1] + p.delta
            BY <2>2, <2>4
        <3>3. p.body[j + 1] \in Int /\ p.delta \in Int /\ delta \in Int
            BY <2>1, <1>2
        <3>2. p.body[j + 1] + more = (p.body[j + 1] + p.delta) + delta
            BY <3>3, <2>3
        <3> QED BY <3>1, <3>2, <2>4
    <2>5. CASE ~(j > p.step)
        <3>1. /\ PositionFromPartition(q, j) = p.body[j + 1] + 0
              /\ PositionFromPartition(p, j) = p.body[j + 1] + 0
            BY <2>2, <2>5
        <3>2. p.body[j + 1] + 0 = (p.body[j + 1] + 0) + 0
            BY <2>1
        <3> QED BY <3>1, <3>2, <2>5
    <2> QED BY <2>4, <2>5
<1> QED BY <1>4, <1>5 DEF q

\* Text that is put into a partition, or taken out of it, moves the starts of all
\* later ones and of no other, whatever was pending (Partitioning::InsertText).
THEOREM InsertTextMovesLater ==
    ASSUME NEW p, WellFormed(p), NEW k \in 0 .. Partitions(p), NEW delta \in Int
    PROVE  LET q == InsertText(p, k, delta)
           IN  /\ WellFormed(q) /\ Len(q.body) = Len(p.body)
               /\ \A j \in Bounds(p) :
                      PositionFromPartition(q, j) =
                          PositionFromPartition(p, j) + (IF j > k THEN delta ELSE 0)
<1> DEFINE q == InsertText(p, k, delta)
<1>1. /\ Len(p.body) \in Nat /\ p.step \in Int /\ k \in Nat /\ k <= Partitions(p)
      /\ Partitions(p) = Len(p.body) - 1 /\ p.step <= Partitions(p)
    BY Form DEF Partitions
<1>2. CASE p.delta = 0
    BY <1>2, PendingMoves DEF InsertText
<1>3. CASE p.delta # 0 /\ k >= p.step
    <2> DEFINE r == ApplyStep(p, k)
    <2>1. /\ WellFormed(r) /\ Len(r.body) = Len(p.body) /\ Bounds(r) = Bounds(p)
          /\ \A j \in Bounds(p) : PositionFromPartition(r, j) = PositionFromPartition(p, j)
          /\ r.step = k
        <3>1. k \in Int /\ p.step <= k
            BY <1>1, <1>3
        <3> HIDE DEF q, r
        <3>2. /\ WellFormed(r) /\ Len(r.body) = Len(p.body)
              /\ \A j \in Bounds(p) : PositionFromPartition(r, j) = PositionFromPartition(p, j)
              /\ k < Partitions(p) => r.step = k
              /\ k >= Partitions(p) => r.step = Partitions(p)
            BY <3>1, ApplyStepMovesNothing DEF r
        <3>3. r.step = k
            BY <3>1, <3>2, <1>1
        <3> QED BY <3>2, <3>3 DEF Bounds
    <2>2. q = [r EXCEPT !.delta = @ + delta]
        BY <1>3 DEF InsertText
    <2> HIDE DEF r, q
    <2>3. /\ WellFormed(q) /\ Len(q.body) = Len(r.body)
          /\ \A j \in Bounds(r) :
                 PositionFromPartition(q, j) =
                     PositionFromPartition(r, j) + (IF j > r.step THEN delta ELSE 0)
        BY <2>1, <2>2, MoreMoves
    <2> QED BY <2>1, <2>3 DEF q
<1>4. CASE p.delta # 0 /\ ~(k >= p.step) /\ k >= p.step - Len(p.body) \div NearShare
    <2> DEFINE r == BackStep(p, k)
    <2>1. /\ WellFormed(r) /\ Len(r.body) = Len(p.body) /\ Bounds(r) = Bounds(p)
          /\ \A j \in Bounds(p) : PositionFromPartition(r, j) = PositionFromPartition(p, j)
          /\ r.step = k
        <3>1. k \in Nat /\ k <= p.step
            BY <1>1, <1>4
        <3> HIDE DEF q, r
        <3>2. /\ WellFormed(r) /\ Len(r.body) = Len(p.body) /\ r.step = k
              /\ \A j \in Bounds(p) : PositionFromPartition(r, j) = PositionFromPartition(p, j)
            BY <3>1, BackStepMovesNothing DEF r
        <3> QED BY <3>2 DEF Bounds
    <2>2. q = [r EXCEPT !.delta = @ + delta]
        BY <1>4 DEF InsertText
    <2> HIDE DEF r, q
    <2>3. /\ WellFormed(q) /\ Len(q.body) = Len(r.body)
          /\ \A j \in Bounds(r) :
                 PositionFromPartition(q, j) =
                     PositionFromPartition(r, j) + (IF j > r.step THEN delta ELSE 0)
        BY <2>1, <2>2, MoreMoves
    <2> QED BY <2>1, <2>3 DEF q
<1>5. CASE p.delta # 0 /\ ~(k >= p.step) /\ ~(k >= p.step - Len(p.body) \div NearShare)
    <2> DEFINE r == ApplyStep(p, Partitions(p))
    <2>1. /\ WellFormed(r) /\ Len(r.body) = Len(p.body)
          /\ \A j \in Bounds(p) : PositionFromPartition(r, j) = PositionFromPartition(p, j)
          /\ r.delta = 0
        <3>1. Partitions(p) \in Int /\ Partitions(p) >= Partitions(p)
            BY <1>1
        <3> QED BY <3>1, <1>1, ApplyStepMovesNothing
    <2>2. Bounds(r) = Bounds(p) /\ k \in 0 .. Partitions(r)
        BY <2>1, <1>1 DEF Bounds, Partitions
    <2>3. q = [r EXCEPT !.step = k, !.delta = delta]
        BY <1>5 DEF InsertText
    <2> HIDE DEF r, q
    <2>4. /\ WellFormed(q) /\ Len(q.body) = Len(r.body)
          /\ \A j \in Bounds(r) :
                 PositionFromPartition(q, j) =
                     PositionFromPartition(r, j) + (IF j > k THEN delta ELSE 0)
        <3>1. WellFormed(r) /\ r.delta = 0 /\ k \in 0 .. Partitions(r)
            BY <2>1, <2>2
        <3> QED BY <3>1, <2>3, PendingMoves
    <2> QED BY <2>1, <2>2, <2>4 DEF q
<1> QED BY <1>2, <1>3, <1>4, <1>5

(***************************************************************************)
(* Partitions come and go.                                                 *)
(***************************************************************************)

HasInserted(s, b, i, e) ==
    /\ s \in Seq(Int) /\ Len(s) = Len(b) + 1
    /\ \A j \in 1 .. Len(b) + 1 :
           s[j] = IF j < i THEN b[j] ELSE IF j = i THEN e ELSE b[j - 1]

LEMMA InsertAtShifts ==
    ASSUME NEW b \in Seq(Int), NEW i \in 1 .. Len(b) + 1, NEW e \in Int
    PROVE  HasInserted(InsertAt(b, i, e), b, i, e)
<1> DEFINE front == SubSeq(b, 1, i - 1)
           back  == SubSeq(b, i, Len(b))
<1>1. /\ front \in Seq(Int) /\ Len(front) = i - 1
      /\ \A j \in 1 .. i - 1 : front[j] = b[j]
    OBVIOUS
<1>2. /\ back \in Seq(Int) /\ Len(back) = Len(b) - i + 1
      /\ \A j \in 1 .. Len(b) - i + 1 : back[j] = b[i + j - 1]
    OBVIOUS
<1> HIDE DEF front, back
<1> DEFINE mid == front \o <<e>>
<1>3. InsertAt(b, i, e) = mid \o back
    BY DEF InsertAt, front, back
<1>4. /\ mid \in Seq(Int) /\ Len(mid) = i
      /\ \A j \in 1 .. i : mid[j] = IF j < i THEN b[j] ELSE e
    <2>1. mid = Append(front, e)
        BY <1>1
    <2>2. /\ Append(front, e) \in Seq(Int) /\ Len(Append(front, e)) = Len(front) + 1
          /\ Append(front, e)[Len(front) + 1] = e
          /\ \A j \in 1 .. Len(front) : Append(front, e)[j] = front[j]
        BY <1>1, AppendProperties
    <2> HIDE DEF mid
    <2>3. Len(front) + 1 = i /\ Len(front) = i - 1
        BY <1>1
    <2>4. ASSUME NEW j \in 1 .. i PROVE mid[j] = IF j < i THEN b[j] ELSE e
        <3>1. CASE j < i
            <4>1. j \in 1 .. i - 1
                BY <3>1
            <4> QED BY <4>1, <3>1, <2>1, <2>2, <2>3, <1>1
        <3>2. CASE ~(j < i)
            <4>1. j = i
                BY <3>2
            <4> QED BY <4>1, <3>2, <2>1, <2>2, <2>3
        <3> QED BY <3>1, <3>2
    <2> QED BY <2>1, <2>2, <2>3, <2>4
<1> HIDE DEF mid
<1>5. /\ InsertAt(b, i, e) \in Seq(Int) /\ Len(InsertAt(b, i, e)) = Len(b) + 1
      /\ \A j \in 1 .. Len(b) + 1 :
             InsertAt(b, i, e)[j] = IF j <= i THEN mid[j] ELSE back[j - i]
    <2>1. /\ mid \o back \in Seq(Int) /\ Len(mid \o back) = Len(mid) + Len(back)
          /\ \A j \in 1 .. Len(mid) + Len(back) :
                 (mid \o back)[j] = IF j <= Len(mid) THEN mid[j] ELSE back[j - Len(mid)]
        BY <1>2, <1>4, ConcatProperties
    <2>2. Len(b) \in Nat /\ i + (Len(b) - i + 1) = Len(b) + 1
        BY LenProperties
    <2> QED BY <2>1, <2>2, <1>2, <1>3, <1>4, Zenon
<1>6. ASSUME NEW j \in 1 .. Len(b) + 1
      PROVE  InsertAt(b, i, e)[j] = IF j < i THEN b[j] ELSE IF j = i THEN e ELSE b[j - 1]
    <2>1. CASE j <= i
        BY <2>1, <1>4, <1>5
    <2>2. CASE ~(j <= i)
        <3>1. j - i \in 1 .. Len(b) - i + 1 /\ i + (j - i) - 1 = j - 1 /\ ~(j < i) /\ j # i
            BY <2>2
        <3>2. back[j - i] = b[i + (j - i) - 1]
            BY <3>1, <1>2
        <3> QED BY <3>1, <3>2, <2>2, <1>5
    <2> QED BY <2>1, <2>2
<1> QED BY <1>5, <1>6 DEF HasInserted

LEMMA RemoveAtShifts ==
    ASSUME NEW b \in Seq(Int), NEW i \in 1 .. Len(b)
    PROVE  /\ RemoveAt(b, i) \in Seq(Int) /\ Len(RemoveAt(b, i)) = Len(b) - 1
           /\ \A j \in 1 .. Len(b) - 1 :
                  RemoveAt(b, i)[j] = IF j < i THEN b[j] ELSE b[j + 1]
<1> DEFINE front == SubSeq(b, 1, i - 1)
           back  == SubSeq(b, i + 1, Len(b))
<1>1. /\ front \in Seq(Int) /\ Len(front) = i - 1
      /\ \A j \in 1 .. i - 1 : front[j] = b[j]
    OBVIOUS
<1>2. /\ back \in Seq(Int) /\ Len(back) = Len(b) - i
      /\ \A j \in 1 .. Len(b) - i : back[j] = b[i + j]
    OBVIOUS
<1> HIDE DEF front, back
<1>3. RemoveAt(b, i) = front \o back
    BY DEF RemoveAt, front, back
<1>4. /\ RemoveAt(b, i) \in Seq(Int) /\ Len(RemoveAt(b, i)) = Len(b) - 1
      /\ \A j \in 1 .. Len(b) - 1 :
             RemoveAt(b, i)[j] = IF j <= i - 1 THEN front[j] ELSE back[j - (i - 1)]
    <2>1. /\ front \o back \in Seq(Int) /\ Len(front \o back) = Len(front) + Len(back)
          /\ \A j \in 1 .. Len(front) + Len(back) :
                 (front \o back)[j] = IF j <= Len(front) THEN front[j]
                                                         ELSE back[j - Len(front)]
        BY <1>1, <1>2, ConcatProperties
    <2>2. Len(b) \in Nat /\ (i - 1) + (Len(b) - i) = Len(b) - 1
        BY LenProperties
    <2> QED BY <2>1, <2>2, <1>1, <1>2, <1>3, Zenon
<1>5. ASSUME NEW j \in 1 .. Len(b) - 1
      PROVE  RemoveAt(b, i)[j] = IF j < i THEN b[j] ELSE b[j + 1]
    <2>1. CASE j < i
        <3>1. j \in 1 .. i - 1 /\ j <= i - 1
            BY <2>1
        <3> QED BY <3>1, <2>1, <1>1, <1>4
    <2>2. CASE ~(j < i)
        <3>1. j - (i - 1) \in 1 .. Len(b) - i /\ i + (j - (i - 1)) = j + 1 /\ ~(j <= i - 1)
            BY <2>2
        <3>2. back[j - (i - 1)] = b[i + (j - (i - 1))]
            BY <3>1, <1>2
        <3> QED BY <3>1, <3>2, <2>2, <1>4
    <2> QED BY <2>1, <2>2
<1> QED BY <1>4, <1>5

With(r, b, s) == [r EXCEPT !.body = b, !.step = s]

LEMMA WithBodyAndStep ==
    ASSUME NEW r, WellFormed(r), NEW b \in Seq(Int), NEW s \in Int,
           Len(b) > 1, -1 <= s, s <= Len(b) - 1
    PROVE  /\ WellFormed(With(r, b, s)) /\ With(r, b, s).body = b
           /\ With(r, b, s).step = s /\ With(r, b, s).delta = r.delta
<1> DEFINE q == With(r, b, s)
<1>1. /\ q \in [body : Seq(Int), step : Int, delta : Int]
      /\ q.body = b /\ q.step = s /\ q.delta = r.delta
    <2>1. r \in [body : Seq(Int), step : Int, delta : Int]
        BY DEF WellFormed
    <2> QED BY <2>1 DEF With
<1>2. Len(b) \in Nat
    BY LenProperties
<1> HIDE DEF q
<1>3. WellFormed(q)
    BY <1>1, <1>2 DEF WellFormed, Partitions
<1> QED BY <1>1, <1>3 DEF q

\* What both begin with: the pending change is applied up to the place, if it
\* has not been.
LEMMA AppliedUpTo ==
    ASSUME NEW p, WellFormed(p), NEW k \in 0 .. Partitions(p)
    PROVE  LET q == IF p.step < k THEN ApplyStep(p, k) ELSE p
           IN  /\ WellFormed(q) /\ Len(q.body) = Len(p.body) /\ k <= q.step
               /\ \A j \in Bounds(p) : PositionFromPartition(q, j) = PositionFromPartition(p, j)
<1> DEFINE r == ApplyStep(p, k)
<1>1. /\ p.step \in Int /\ k \in Int /\ Partitions(p) \in Int /\ k <= Partitions(p)
    BY Form DEF Partitions
<1>2. CASE p.step < k
    <2>1. p.step <= k
        BY <1>1, <1>2
    <2> HIDE DEF r
    <2>2. /\ WellFormed(r) /\ Len(r.body) = Len(p.body)
          /\ \A j \in Bounds(p) : PositionFromPartition(r, j) = PositionFromPartition(p, j)
          /\ k < Partitions(p) => r.step = k
          /\ k >= Partitions(p) => r.step = Partitions(p)
        BY <2>1, <1>1, ApplyStepMovesNothing DEF r
    <2>3. k <= r.step
        BY <2>2, <1>1
    <2> QED BY <2>2, <2>3, <1>2 DEF r
<1>3. CASE ~(p.step < k)
    BY <1>1, <1>3
<1> QED BY <1>2, <1>3

\* A new partition takes its place among the others: those before keep their
\* starts, those from there on keep theirs under the next number, and so a change
\* that is pending goes on to concern the same ones (Partitioning::InsertPartition).
THEOREM InsertPartitionShifts ==
    ASSUME NEW p, WellFormed(p), NEW k \in 0 .. Partitions(p), NEW pos \in Int
    PROVE  LET q == InsertPartition(p, k, pos)
           IN  /\ WellFormed(q) /\ Len(q.body) = Len(p.body) + 1
               /\ \A j \in Bounds(q) :
                      PositionFromPartition(q, j) =
                          IF j < k THEN PositionFromPartition(p, j)
                          ELSE IF j = k THEN pos
                          ELSE PositionFromPartition(p, j - 1)
<1> DEFINE r == IF p.step < k THEN ApplyStep(p, k) ELSE p
           q == InsertPartition(p, k, pos)
           b == InsertAt(r.body, k + 1, pos)
<1>1. /\ WellFormed(r) /\ Len(r.body) = Len(p.body) /\ k <= r.step
      /\ \A j \in Bounds(p) : PositionFromPartition(r, j) = PositionFromPartition(p, j)
    <2> HIDE DEF q, b
    <2> QED BY AppliedUpTo
<1>2. q = [r EXCEPT !.body = b, !.step = r.step + 1]
    BY DEF InsertPartition
<1> HIDE DEF r
<1>3. /\ r.body \in Seq(Int) /\ Len(r.body) \in Nat /\ Len(r.body) > 1
      /\ \A i \in 1 .. Len(r.body) : r.body[i] \in Int
      /\ r.step \in Int /\ r.delta \in Int /\ r.step <= Len(r.body) - 1
    BY <1>1, Form
<1>4. /\ k \in Int /\ 0 <= k /\ k <= r.step /\ k + 1 \in 1 .. Len(r.body) + 1
      /\ Bounds(p) = 0 .. Len(r.body) - 1
    BY <1>1, <1>3 DEF Partitions, Bounds
<1> HIDE DEF q, b
<1>5. /\ b \in Seq(Int) /\ Len(b) = Len(r.body) + 1
      /\ \A i \in 1 .. Len(r.body) + 1 :
             b[i] = IF i < k + 1 THEN r.body[i] ELSE IF i = k + 1 THEN pos ELSE r.body[i - 1]
    <2> DEFINE c == r.body
               place == k + 1
    <2>1. c \in Seq(Int) /\ place \in 1 .. Len(c) + 1
        BY <1>3, <1>4
    <2>2. b = InsertAt(c, place, pos)
        BY DEF b
    <2> HIDE DEF c, place
    <2>3. HasInserted(b, c, place, pos)
        <3> HIDE DEF b
        <3> QED BY <2>1, <2>2, InsertAtShifts
    <2> QED BY <2>3 DEF HasInserted, c, place
<1>6. WellFormed(q) /\ q.body = b /\ q.step = r.step + 1 /\ q.delta = r.delta
    <2>1. /\ r.step + 1 \in Int /\ Len(b) > 1 /\ -1 <= r.step + 1
          /\ r.step + 1 <= Len(b) - 1
        <3>1. /\ Len(r.body) \in Int /\ Len(r.body) > 1 /\ r.step \in Int
              /\ 0 <= k /\ k \in Int /\ k <= r.step /\ r.step <= Len(r.body) - 1
            BY <1>3, <1>4
        <3>2. Len(b) = Len(r.body) + 1
            BY <1>5
        <3> QED BY <3>1, <3>2
    <2>2. b \in Seq(Int) /\ WellFormed(r)
        BY <1>1, <1>5
    <2> DEFINE next == r.step + 1
    <2>3. /\ next \in Int /\ -1 <= next /\ next <= Len(b) - 1 /\ Len(b) > 1
          /\ q = With(r, b, next)
        BY <2>1, <1>2 DEF With
    <2> HIDE DEF next
    <2>4. LET u == With(r, b, next)
          IN  WellFormed(u) /\ u.body = b /\ u.step = next /\ u.delta = r.delta
        <3>1. /\ b \in Seq(Int) /\ WellFormed(r) /\ next \in Int
              /\ Len(b) > 1 /\ -1 <= next /\ next <= Len(b) - 1
            BY <2>2, <2>3
        <3> HIDE DEF b
        <3> QED BY <3>1, WithBodyAndStep
    <2>5. WellFormed(q) /\ q.body = b /\ q.step = next /\ q.delta = r.delta
        BY <2>3, <2>4, Zenon
    <2> QED BY <2>5 DEF next
<1>8. ASSUME NEW j \in 0 .. Len(r.body)
      PROVE  PositionFromPartition(q, j) =
                 IF j < k THEN PositionFromPartition(p, j)
                 ELSE IF j = k THEN pos
                 ELSE PositionFromPartition(p, j - 1)
    <2>1. j \in Int /\ 0 <= j /\ j <= Len(r.body)
        BY <1>3
    <2>2. PositionFromPartition(q, j) = b[j + 1] + (IF j > r.step + 1 THEN r.delta ELSE 0)
        <3>1. PositionFromPartition(q, j) = q.body[j + 1] + (IF j > q.step THEN q.delta ELSE 0)
            BY Place
        <3> QED BY <3>1, <1>6
    <2>3. CASE j < k
        <3>0. /\ Len(r.body) \in Int /\ r.step \in Int /\ k \in Int /\ 0 <= j /\ j \in Int
              /\ k <= r.step /\ r.step <= Len(r.body) - 1 /\ j < k
              /\ Bounds(p) = 0 .. Len(r.body) - 1
            BY <2>1, <2>3, <1>3, <1>4
        <3>1. /\ j \in Bounds(p) /\ j + 1 \in 1 .. Len(r.body) + 1 /\ j + 1 < k + 1
              /\ ~(j > r.step + 1) /\ ~(j > r.step)
            BY <3>0
        <3>2. PositionFromPartition(p, j) = r.body[j + 1] + (IF j > r.step THEN r.delta ELSE 0)
            BY <3>1, <1>1, Place
        <3> QED BY <2>2, <2>3, <3>1, <3>2, <1>5
    <2>4. CASE j = k
        <3>1. j + 1 \in 1 .. Len(r.body) + 1 /\ ~(j > r.step + 1)
            BY <2>1, <2>4, <1>1, <1>3
        <3>2. b[j + 1] = pos
            BY <3>1, <2>4, <1>5, <1>4
        <3> QED BY <2>2, <2>4, <3>1, <3>2, <1>4
    <2>5. CASE j > k
        <3>1. /\ j - 1 \in Bounds(p) /\ j + 1 \in 1 .. Len(r.body) + 1
              /\ ~(j + 1 < k + 1) /\ j + 1 # k + 1 /\ (j + 1) - 1 = j /\ (j - 1) + 1 = j
            BY <2>1, <2>5, <1>3, <1>4
        <3>5. (j - 1 > r.step) <=> (j > r.step + 1)
            <4>1. r.step \in Int
                BY <1>3
            <4> QED BY <4>1, <2>1
        <3>2. PositionFromPartition(p, j - 1)
              = r.body[(j - 1) + 1] + (IF j - 1 > r.step THEN r.delta ELSE 0)
            BY <3>1, <1>1, Place
        <3>3. b[j + 1] = r.body[j]
            <4>1. b[j + 1] = IF j + 1 < k + 1 THEN r.body[j + 1]
                             ELSE IF j + 1 = k + 1 THEN pos ELSE r.body[(j + 1) - 1]
                BY <3>1, <1>5, Zenon
            <4>2. b[j + 1] = r.body[(j + 1) - 1]
                BY <4>1, <3>1, Zenon
            <4> QED BY <4>2, <3>1, Zenon
        <3>4. ~(j < k) /\ j # k
            BY <2>1, <2>5, <1>4
        <3> QED BY <2>2, <3>1, <3>2, <3>3, <3>4, <3>5
    <2> QED BY <2>1, <2>3, <2>4, <2>5, <1>4
<1>9. Bounds(q) = 0 .. Len(r.body)
    BY <1>3, <1>5, <1>6 DEF Bounds
<1> QED BY <1>1, <1>5, <1>6, <1>8, <1>9 DEF q

\* A partition that goes takes only its own start with it (RemovePartition). The
\* first one may go too: the step is then before the first partition.
THEOREM RemovePartitionShifts ==
    ASSUME NEW p, WellFormed(p), Partitions(p) > 1, NEW k \in 0 .. Partitions(p)
    PROVE  LET q == RemovePartition(p, k)
           IN  /\ WellFormed(q) /\ Len(q.body) = Len(p.body) - 1
               /\ \A j \in Bounds(q) :
                      PositionFromPartition(q, j) =
                          IF j < k THEN PositionFromPartition(p, j)
                          ELSE PositionFromPartition(p, j + 1)
<1> DEFINE r == IF p.step < k THEN ApplyStep(p, k) ELSE p
           q == RemovePartition(p, k)
           b == RemoveAt(r.body, k + 1)
<1>1. /\ WellFormed(r) /\ Len(r.body) = Len(p.body) /\ k <= r.step
      /\ \A j \in Bounds(p) : PositionFromPartition(r, j) = PositionFromPartition(p, j)
    <2> HIDE DEF q, b
    <2> QED BY AppliedUpTo
<1>2. q = [r EXCEPT !.body = b, !.step = r.step - 1]
    <2>1. p.step \in Int /\ k \in Int
        BY Form DEF Partitions
    <2>2. k > p.step <=> p.step < k
        BY <2>1
    <2> QED BY <2>2 DEF RemovePartition
<1> HIDE DEF r
<1>3. /\ r.body \in Seq(Int) /\ Len(r.body) \in Nat /\ Len(r.body) > 2
      /\ \A i \in 1 .. Len(r.body) : r.body[i] \in Int
      /\ r.step \in Int /\ r.delta \in Int /\ r.step <= Len(r.body) - 1
    <2> HIDE DEF q, b
    <2>1. Len(p.body) \in Nat /\ Len(p.body) > 2
        BY Form DEF Partitions
    <2>2. /\ r.body \in Seq(Int) /\ \A i \in 1 .. Len(r.body) : r.body[i] \in Int
          /\ r.step \in Int /\ r.delta \in Int /\ r.step <= Len(r.body) - 1
        BY <1>1, Form
    <2> QED BY <2>1, <2>2, <1>1
<1>4. /\ k \in Int /\ 0 <= k /\ k <= r.step /\ k + 1 \in 1 .. Len(r.body)
      /\ Bounds(p) = 0 .. Len(r.body) - 1
    BY <1>1, <1>3 DEF Partitions, Bounds
<1> HIDE DEF q, b
<1>5. /\ b \in Seq(Int) /\ Len(b) = Len(r.body) - 1
      /\ \A i \in 1 .. Len(r.body) - 1 : b[i] = IF i < k + 1 THEN r.body[i] ELSE r.body[i + 1]
    BY <1>3, <1>4, RemoveAtShifts DEF b
<1>6. WellFormed(q) /\ q.body = b /\ q.step = r.step - 1 /\ q.delta = r.delta
    <2>1. /\ r.step - 1 \in Int /\ Len(b) > 1 /\ -1 <= r.step - 1
          /\ r.step - 1 <= Len(b) - 1
        <3>1. /\ Len(r.body) \in Int /\ Len(r.body) > 2 /\ r.step \in Int
              /\ 0 <= k /\ k \in Int /\ k <= r.step /\ r.step <= Len(r.body) - 1
            BY <1>3, <1>4
        <3>2. Len(b) = Len(r.body) - 1
            BY <1>5
        <3> QED BY <3>1, <3>2
    <2>2. b \in Seq(Int) /\ WellFormed(r)
        BY <1>1, <1>5
    <2> DEFINE next == r.step - 1
    <2>3. /\ next \in Int /\ -1 <= next /\ next <= Len(b) - 1 /\ Len(b) > 1
          /\ q = With(r, b, next)
        BY <2>1, <1>2 DEF With
    <2> HIDE DEF next
    <2>4. LET u == With(r, b, next)
          IN  WellFormed(u) /\ u.body = b /\ u.step = next /\ u.delta = r.delta
        <3>1. /\ b \in Seq(Int) /\ WellFormed(r) /\ next \in Int
              /\ Len(b) > 1 /\ -1 <= next /\ next <= Len(b) - 1
            BY <2>2, <2>3
        <3> HIDE DEF b
        <3> QED BY <3>1, WithBodyAndStep
    <2>5. WellFormed(q) /\ q.body = b /\ q.step = next /\ q.delta = r.delta
        BY <2>3, <2>4, Zenon
    <2> QED BY <2>5 DEF next
<1>8. ASSUME NEW j \in 0 .. Len(r.body) - 2
      PROVE  PositionFromPartition(q, j) =
                 IF j < k THEN PositionFromPartition(p, j)
                 ELSE PositionFromPartition(p, j + 1)
    <2>1. j \in Int /\ 0 <= j /\ j <= Len(r.body) - 2
        BY <1>3
    <2>2. PositionFromPartition(q, j) = b[j + 1] + (IF j > r.step - 1 THEN r.delta ELSE 0)
        <3>1. PositionFromPartition(q, j) = q.body[j + 1] + (IF j > q.step THEN q.delta ELSE 0)
            BY Place
        <3> QED BY <3>1, <1>6
    <2>3. CASE j < k
        <3>0. /\ Len(r.body) \in Int /\ r.step \in Int /\ k \in Int /\ 0 <= j /\ j \in Int
              /\ k <= r.step /\ r.step <= Len(r.body) - 1 /\ j < k
              /\ Bounds(p) = 0 .. Len(r.body) - 1
            BY <2>1, <2>3, <1>3, <1>4
        <3>1. /\ j \in Bounds(p) /\ j + 1 \in 1 .. Len(r.body) - 1 /\ j + 1 < k + 1
              /\ ~(j > r.step - 1) /\ ~(j > r.step)
            BY <3>0
        <3>2. PositionFromPartition(p, j) = r.body[j + 1] + (IF j > r.step THEN r.delta ELSE 0)
            BY <3>1, <1>1, Place
        <3> QED BY <2>2, <2>3, <3>1, <3>2, <1>5
    <2>4. CASE ~(j < k)
        <3>1. /\ j + 1 \in Bounds(p) /\ j + 1 \in 1 .. Len(r.body) - 1 /\ ~(j + 1 < k + 1)
            BY <2>1, <2>4, <1>3, <1>4
        <3>4. (j + 1 > r.step) <=> (j > r.step - 1)
            <4>1. r.step \in Int
                BY <1>3
            <4> QED BY <4>1, <2>1
        <3>2. PositionFromPartition(p, j + 1)
              = r.body[(j + 1) + 1] + (IF j + 1 > r.step THEN r.delta ELSE 0)
            BY <3>1, <1>1, Place
        <3>3. b[j + 1] = r.body[(j + 1) + 1]
            BY <3>1, <1>5
        <3> QED BY <2>2, <2>4, <3>1, <3>2, <3>3, <3>4
    <2> QED BY <2>3, <2>4
<1>9. Bounds(q) = 0 .. Len(r.body) - 2
    BY <1>3, <1>5, <1>6 DEF Bounds
<1> QED BY <1>1, <1>5, <1>6, <1>8, <1>9 DEF q

\* What the folds of the model do, with what they take from around them as c.
ScanOp(c, acc, i) == ScanInserted(acc, c.s[i], c.pos + i, c.lineStart)
RemoveOp(c, acc, i) == IF EndsLineThatGoes(c.t, c.pos, i) THEN RemoveLine(acc, c.here) ELSE acc

Scanning == INSTANCE FoldProofs WITH Op <- ScanOp
Removing == INSTANCE FoldProofs WITH Op <- RemoveOp

(***************************************************************************)
(* Line breaks of texts.                                                   *)
(***************************************************************************)

Shifted(S, d) == {e + d : e \in S}

Pair(u, v) == CharAt(u, Len(u) - 1) = CR /\ CharAt(v, 0) = LF

BreaksOfBoth(u, v) ==
    (LineBreaks(u) \ (IF Pair(u, v) THEN {Len(u)} ELSE {})) \cup Shifted(LineBreaks(v), Len(u))

LEMMA CharIs ==
    ASSUME NEW C, NEW t \in Seq(C), NEW k \in Int
    PROVE  /\ k \in 0 .. Len(t) - 1 => CharAt(t, k) = t[k + 1]
           /\ k \notin 0 .. Len(t) - 1 => CharAt(t, k) = "none"
BY DEF CharAt

LEMMA BreakIs ==
    ASSUME NEW C, NEW t \in Seq(C), NEW e
    PROVE  e \in LineBreaks(t) <=> /\ e \in 1 .. Len(t)
                                   /\ t[e] = LF \/ (t[e] = CR /\ CharAt(t, e) # LF)
BY LenProperties DEF LineBreaks

LEMMA JoinIs ==
    ASSUME NEW C, NEW u \in Seq(C), NEW v \in Seq(C)
    PROVE  /\ u \o v \in Seq(C) /\ Len(u \o v) = Len(u) + Len(v)
           /\ \A i \in 1 .. Len(u) : (u \o v)[i] = u[i]
           /\ \A i \in Len(u) + 1 .. Len(u) + Len(v) : (u \o v)[i] = v[i - Len(u)]
<1>1. Len(u) \in Nat /\ Len(v) \in Nat
    BY LenProperties
<1>2. /\ u \o v \in Seq(C) /\ Len(u \o v) = Len(u) + Len(v)
      /\ \A i \in 1 .. Len(u) + Len(v) :
             (u \o v)[i] = IF i <= Len(u) THEN u[i] ELSE v[i - Len(u)]
    BY ConcatProperties
<1> QED BY <1>1, <1>2

\* The line breaks of a text in two parts: that of a "\r" at the end of the first one
\* goes when the second one begins with "\n".
LEMMA BreaksJoin ==
    ASSUME NEW C, NEW u \in Seq(C), NEW v \in Seq(C)
    PROVE  LineBreaks(u \o v) = BreaksOfBoth(u, v)
<1> DEFINE w == u \o v
<1>1. Len(u) \in Nat /\ Len(v) \in Nat
    BY LenProperties
<1>2. /\ w \in Seq(C) /\ Len(w) = Len(u) + Len(v)
      /\ \A i \in 1 .. Len(u) : w[i] = u[i]
      /\ \A i \in Len(u) + 1 .. Len(u) + Len(v) : w[i] = v[i - Len(u)]
    BY JoinIs
<1> HIDE DEF w
<1>3. ASSUME NEW e \in 1 .. Len(u), e < Len(u)
      PROVE  e \in LineBreaks(w) <=> e \in LineBreaks(u)
    <2>1. e \in 1 .. Len(w) /\ e \in 0 .. Len(u) - 1 /\ e \in 0 .. Len(w) - 1 /\ e + 1 \in 1 .. Len(u)
        BY <1>1, <1>2, <1>3
    <2>2. CharAt(w, e) = CharAt(u, e)
        BY <2>1, <1>2 DEF CharAt
    <2> QED BY <2>1, <2>2, <1>2, BreakIs
<1>4. ASSUME Len(u) \in 1 .. Len(u)
      PROVE  Len(u) \in LineBreaks(w) <=> Len(u) \in LineBreaks(u) /\ ~Pair(u, v)
    <2>1. Len(u) \in 1 .. Len(w) /\ Len(u) \notin 0 .. Len(u) - 1 /\ Len(u) - 1 \in 0 .. Len(u) - 1
        BY <1>1, <1>2, <1>4
    <2>2. CharAt(u, Len(u)) = "none" /\ CharAt(u, Len(u) - 1) = u[Len(u)]
        BY <2>1, <1>1 DEF CharAt
    <2>3. CharAt(w, Len(u)) = CharAt(v, 0)
        <3>1. CASE Len(v) = 0
            BY <3>1, <1>1, <1>2 DEF CharAt
        <3>2. CASE Len(v) > 0
            <4>1. /\ Len(u) \in 0 .. Len(w) - 1 /\ 0 \in 0 .. Len(v) - 1
                  /\ Len(u) + 1 \in Len(u) + 1 .. Len(u) + Len(v) /\ (Len(u) + 1) - Len(u) = 0 + 1
                BY <3>2, <1>1, <1>2
            <4>2. w[Len(u) + 1] = v[0 + 1]
                BY <4>1, <1>2
            <4> QED BY <4>1, <4>2 DEF CharAt
        <3> QED BY <3>1, <3>2, <1>1
    <2>4. w[Len(u)] = u[Len(u)]
        BY <1>2, <1>4
    <2>5. "none" # LF /\ CR # LF
        BY DEF LF, CR
    <2> QED BY <2>1, <2>2, <2>3, <2>4, <2>5, <1>2, <1>4, BreakIs DEF Pair
<1>5. ASSUME NEW e \in 1 .. Len(v)
      PROVE  e + Len(u) \in LineBreaks(w) <=> e \in LineBreaks(v)
    <2>1. /\ e + Len(u) \in 1 .. Len(w) /\ (e + Len(u)) - Len(u) = e
          /\ e + Len(u) \in Len(u) + 1 .. Len(u) + Len(v)
        BY <1>1, <1>2
    <2>2. w[e + Len(u)] = v[e]
        BY <2>1, <1>2
    <2>3. CharAt(w, e + Len(u)) = CharAt(v, e)
        <3>1. CASE e = Len(v)
            BY <3>1, <1>1, <1>2 DEF CharAt
        <3>2. CASE e < Len(v)
            <4>1. /\ e + Len(u) \in 0 .. Len(w) - 1 /\ e \in 0 .. Len(v) - 1
                  /\ (e + Len(u)) + 1 \in Len(u) + 1 .. Len(u) + Len(v)
                  /\ ((e + Len(u)) + 1) - Len(u) = e + 1
                BY <3>2, <1>1, <1>2
            <4>2. w[(e + Len(u)) + 1] = v[e + 1]
                BY <4>1, <1>2
            <4> QED BY <4>1, <4>2 DEF CharAt
        <3> QED BY <3>1, <3>2, <1>1
    <2> QED BY <2>1, <2>2, <2>3, <1>2, BreakIs
<1>6. /\ \A e : e \in LineBreaks(w) => e \in 1 .. Len(u) + Len(v)
      /\ \A e : e \in LineBreaks(u) => e \in 1 .. Len(u)
      /\ \A e : e \in LineBreaks(v) => e \in 1 .. Len(v)
    BY <1>2, BreakIs
<1>7. ASSUME NEW e \in LineBreaks(w)
      PROVE  e \in BreaksOfBoth(u, v)
    <2>1. e \in 1 .. Len(u) + Len(v)
        BY <1>6
    <2>2. CASE e < Len(u)
        <3>1. e \in 1 .. Len(u) /\ e # Len(u)
            BY <2>1, <2>2, <1>1
        <3> QED BY <3>1, <2>2, <1>3 DEF BreaksOfBoth
    <2>3. CASE e = Len(u)
        BY <2>1, <2>3, <1>4 DEF BreaksOfBoth
    <2>4. CASE e > Len(u)
        <3>1. PICK k \in 1 .. Len(v) : e = k + Len(u)
            <4>1. e - Len(u) \in 1 .. Len(v) /\ e = (e - Len(u)) + Len(u)
                BY <2>1, <2>4, <1>1
            <4> QED BY <4>1
        <3>2. k \in LineBreaks(v)
            BY <3>1, <1>5
        <3> QED BY <3>1, <3>2 DEF BreaksOfBoth, Shifted
    <2> QED BY <2>1, <2>2, <2>3, <2>4, <1>1
<1>8. ASSUME NEW e \in BreaksOfBoth(u, v)
      PROVE  e \in LineBreaks(w)
    <2>1. CASE e \in LineBreaks(u) /\ ~(Pair(u, v) /\ e = Len(u))
        <3>1. e \in 1 .. Len(u) /\ (e < Len(u) \/ e = Len(u))
            BY <2>1, <1>6, <1>1
        <3> QED BY <3>1, <2>1, <1>3, <1>4
    <2>2. CASE e \in Shifted(LineBreaks(v), Len(u))
        <3>1. PICK k \in LineBreaks(v) : e = k + Len(u)
            BY <2>2 DEF Shifted
        <3> QED BY <3>1, <1>5, <1>6
    <2> QED BY <2>1, <2>2 DEF BreaksOfBoth
<1> QED BY <1>7, <1>8 DEF w

LEMMA BreaksOfOne ==
    ASSUME NEW ch
    PROVE  /\ ch \in {CR, LF} => LineBreaks(<<ch>>) = {1}
           /\ ch \notin {CR, LF} => LineBreaks(<<ch>>) = {}
<1>1. DOMAIN <<ch>> = {1} /\ <<ch>>[1] = ch /\ CharAt(<<ch>>, 1) = "none"
    BY DEF CharAt
<1> QED BY <1>1 DEF LineBreaks, CR, LF

LEMMA BreaksBounded ==
    ASSUME NEW C, NEW t \in Seq(C)
    PROVE  LineBreaks(t) \subseteq 1 .. Len(t)
BY BreakIs

(***************************************************************************)
(* How far the step of a partitioning gets.                                *)
(***************************************************************************)

LEMMA GrowStep ==
    ASSUME NEW p, WellFormed(p), NEW k \in 0 .. Partitions(p) - 1, NEW d \in Int
    PROVE  InsertText(p, k, d).step = k
<1>1. /\ p.step \in Int /\ Len(p.body) \in Nat /\ Partitions(p) = Len(p.body) - 1
      /\ p.step <= Partitions(p) /\ k \in Int /\ k < Partitions(p)
    BY Form DEF Partitions
<1>2. p = [body |-> p.body, step |-> p.step, delta |-> p.delta]
    BY DEF WellFormed
<1>3. CASE p.delta = 0
    BY <1>2, <1>3 DEF InsertText
<1>4. CASE p.delta # 0 /\ k >= p.step
    BY <1>1, <1>2, <1>4 DEF InsertText, ApplyStep
<1>5. CASE p.delta # 0 /\ ~(k >= p.step)
    <2>1. CASE k >= p.step - Len(p.body) \div NearShare
        BY <1>2, <1>5, <2>1 DEF InsertText, BackStep
    <2>2. CASE ~(k >= p.step - Len(p.body) \div NearShare)
        BY <1>1, <1>2, <1>5, <2>2 DEF InsertText, ApplyStep
    <2> QED BY <2>1, <2>2
<1> QED BY <1>3, <1>4, <1>5

\* The step is no further than m, or nothing is pending.
LEMMA InsertStep ==
    ASSUME NEW p, WellFormed(p), NEW k \in 0 .. Partitions(p), NEW pos \in Int, p.step <= k
    PROVE  InsertPartition(p, k, pos).step = k + 1
<1> DEFINE q == IF p.step < k THEN ApplyStep(p, k) ELSE p
<1>1. /\ p.step \in Int /\ Partitions(p) \in Nat /\ k \in Int
    BY Form DEF Partitions
<1>2. WellFormed(q) /\ q.step = k
    <2>1. CASE p.step < k
        BY <1>1, <2>1, ApplyStepMovesNothing
    <2>2. CASE ~(p.step < k)
        BY <1>1, <2>2
    <2> QED BY <2>1, <2>2
<1>3. InsertPartition(p, k, pos) = [q EXCEPT !.body = InsertAt(@, k + 1, pos), !.step = @ + 1]
    BY DEF InsertPartition
<1> HIDE DEF q
<1>4. q = [body |-> q.body, step |-> q.step, delta |-> q.delta]
    BY <1>2 DEF WellFormed
<1> QED BY <1>2, <1>3, <1>4

LEMMA RemoveStep ==
    ASSUME NEW p, WellFormed(p), NEW k \in 0 .. Partitions(p), p.step <= k + 1
    PROVE  RemovePartition(p, k).step <= k
<1> DEFINE q == IF k > p.step THEN ApplyStep(p, k) ELSE p
<1>1. /\ p.step \in Int /\ Partitions(p) \in Nat /\ k \in Int
    BY Form DEF Partitions
<1>2. WellFormed(q) /\ q.step <= k + 1
    <2>1. CASE k > p.step
        BY <1>1, <2>1, ApplyStepMovesNothing
    <2>2. CASE ~(k > p.step)
        BY <1>1, <2>2
    <2> QED BY <2>1, <2>2
<1>3. RemovePartition(p, k) = [q EXCEPT !.body = RemoveAt(@, k + 1), !.step = @ - 1]
    BY DEF RemovePartition
<1> HIDE DEF q
<1>4. q = [body |-> q.body, step |-> q.step, delta |-> q.delta] /\ q.step \in Int
    BY <1>2 DEF WellFormed
<1> QED BY <1>1, <1>2, <1>3, <1>4

\* A start can be set when no change is pending for it and those before it; the
\* others stay.
THEOREM SetPartitionStartSets ==
    ASSUME NEW p, WellFormed(p), NEW k \in 0 .. Partitions(p), NEW pos \in Int, p.step <= k + 1
    PROVE  LET q == SetPartitionStartPosition(p, k, pos)
           IN  /\ WellFormed(q) /\ Len(q.body) = Len(p.body) /\ q.step <= k + 1
               /\ \A j \in Bounds(p) :
                      PositionFromPartition(q, j) =
                          IF j = k THEN pos ELSE PositionFromPartition(p, j)
<1> DEFINE r == ApplyStep(p, k + 1)
           b == [r.body EXCEPT ![k + 1] = pos]
           q == SetPartitionStartPosition(p, k, pos)
<1>1. /\ p.step \in Int /\ Partitions(p) \in Nat /\ k \in Int /\ k + 1 \in Int
      /\ Partitions(p) = Len(p.body) - 1 /\ 0 <= k /\ k <= Partitions(p)
    BY Form DEF Partitions
<1>2. /\ WellFormed(r) /\ Len(r.body) = Len(p.body)
      /\ \A j \in Bounds(p) : PositionFromPartition(r, j) = PositionFromPartition(p, j)
      /\ r.step <= k + 1
      /\ k <= r.step
    <2> HIDE DEF r
    <2>1. /\ WellFormed(r) /\ Len(r.body) = Len(p.body)
          /\ \A j \in Bounds(p) : PositionFromPartition(r, j) = PositionFromPartition(p, j)
          /\ k + 1 < Partitions(p) => r.step = k + 1
          /\ k + 1 >= Partitions(p) => r.step = Partitions(p)
        BY <1>1, ApplyStepMovesNothing DEF r
    <2> QED BY <1>1, <2>1
<1>3. q = [r EXCEPT !.body = b]
    BY DEF SetPartitionStartPosition
<1> HIDE DEF r, q
<1>4. /\ r.body \in Seq(Int) /\ Len(r.body) \in Nat /\ DOMAIN r.body = 1 .. Len(r.body)
      /\ r.step \in Int /\ r.delta \in Int
      /\ \A i \in 1 .. Len(r.body) : r.body[i] \in Int
    BY <1>2, Form
<1>5. /\ b \in Seq(Int) /\ Len(b) = Len(r.body)
      /\ \A i \in 1 .. Len(r.body) : b[i] = IF i = k + 1 THEN pos ELSE r.body[i]
    <2> DEFINE c == r.body
    <2>1. c \in [1 .. Len(c) -> Int]
        BY <1>4
    <2>2. b = [i \in 1 .. Len(c) |-> IF i = k + 1 THEN pos ELSE c[i]]
        BY <2>1
    <2>3. Len(c) \in Nat
        BY <1>4
    <2> HIDE DEF b, c
    <2>4. b \in [1 .. Len(c) -> Int] /\ \A i \in 1 .. Len(c) : b[i] = IF i = k + 1 THEN pos ELSE c[i]
        BY <2>1, <2>2
    <2>5. b \in Seq(Int) /\ Len(b) = Len(c)
        BY <2>3, <2>4
    <2> QED BY <2>4, <2>5 DEF c
<1> HIDE DEF b
<1>6. /\ q.body = b /\ q.step = r.step /\ q.delta = r.delta /\ WellFormed(q)
    <2>1. r = [body |-> r.body, step |-> r.step, delta |-> r.delta]
        BY <1>2 DEF WellFormed
    <2>2. q = [body |-> b, step |-> r.step, delta |-> r.delta]
        BY <2>1, <1>3
    <2> QED BY <2>2, <1>2, <1>4, <1>5 DEF WellFormed, Partitions
<1>7. ASSUME NEW j \in Bounds(p)
      PROVE  PositionFromPartition(q, j) = IF j = k THEN pos ELSE PositionFromPartition(p, j)
    <2>1. j \in Int /\ j + 1 \in 1 .. Len(r.body) /\ (j + 1 = k + 1 <=> j = k)
        BY <1>1, <1>2 DEF Bounds
    <2>2. PositionFromPartition(q, j) = b[j + 1] + (IF j > r.step THEN r.delta ELSE 0)
        BY <1>6, Place
    <2>3. PositionFromPartition(r, j) = r.body[j + 1] + (IF j > r.step THEN r.delta ELSE 0)
        BY Place
    <2>4. CASE j = k
        <3>1. ~(j > r.step) /\ b[j + 1] = pos
            BY <2>1, <2>4, <1>1, <1>2, <1>4, <1>5
        <3> QED BY <3>1, <2>2, <2>4
    <2>5. CASE j # k
        <3>1. b[j + 1] = r.body[j + 1]
            BY <2>1, <2>5, <1>5
        <3> QED BY <3>1, <2>2, <2>3, <2>5, <1>2
    <2> QED BY <2>4, <2>5
<1> QED BY <1>2, <1>5, <1>6, <1>7 DEF q

(***************************************************************************)
(* An index that is being adjusted: the starts before the m-th are those of *)
(* what was looked at, the others are still to come.                       *)
(***************************************************************************)

LEMMA PlaceIsNumber ==
    ASSUME NEW p, WellFormed(p)
    PROVE  /\ \A j \in 0 .. Partitions(p) : PositionFromPartition(p, j) \in Int
           /\ Partitions(p) \in Nat \ {0} /\ Bounds(p) = 0 .. Partitions(p)
           /\ Partitions(p) = Len(p.body) - 1 /\ p.step \in Int
<1>1. /\ Len(p.body) \in Nat /\ Len(p.body) > 1 /\ p.step \in Int /\ p.delta \in Int
      /\ \A i \in 1 .. Len(p.body) : p.body[i] \in Int
    BY Form
<1>2. ASSUME NEW j \in 0 .. Partitions(p)
      PROVE  PositionFromPartition(p, j) \in Int
    <2>1. j + 1 \in 1 .. Len(p.body)
        BY <1>1 DEF Partitions
    <2>2. p.body[j + 1] \in Int
        BY <1>1, <2>1
    <2> QED BY <1>1, <2>2, Place
<1> QED BY <1>1, <1>2 DEF Partitions, Bounds

\* The partitions from a to b start, in order, at the members of S.
Lists(p, a, b, S) ==
    /\ \A j \in a .. b : PositionFromPartition(p, j) \in S
    /\ \A e \in S : \E j \in a .. b : PositionFromPartition(p, j) = e
    /\ \A j, k \in a .. b : j < k => PositionFromPartition(p, j) < PositionFromPartition(p, k)

\* q has at places moved by d what p has.
LEMMA ListsMoved ==
    ASSUME NEW p, NEW q, NEW a \in Int, NEW b \in Int, NEW d \in Int, NEW S, Lists(p, a, b, S),
           \A j \in a .. b : PositionFromPartition(q, j + d) = PositionFromPartition(p, j)
    PROVE  Lists(q, a + d, b + d, S)
<1>1. ASSUME NEW j \in a + d .. b + d
      PROVE  j - d \in a .. b /\ PositionFromPartition(q, j) = PositionFromPartition(p, j - d)
    <2>1. j - d \in a .. b /\ (j - d) + d = j
        OBVIOUS
    <2> QED BY <2>1
<1>2. ASSUME NEW j \in a + d .. b + d
      PROVE  PositionFromPartition(q, j) \in S
    BY <1>1 DEF Lists
<1>3. ASSUME NEW e \in S
      PROVE  \E j \in a + d .. b + d : PositionFromPartition(q, j) = e
    <2>1. PICK j \in a .. b : PositionFromPartition(p, j) = e
        BY DEF Lists
    <2>2. j + d \in a + d .. b + d
        OBVIOUS
    <2> QED BY <2>1, <2>2
<1>4. ASSUME NEW j \in a + d .. b + d, NEW k \in a + d .. b + d, j < k
      PROVE  PositionFromPartition(q, j) < PositionFromPartition(q, k)
    <2>1. j - d < k - d
        BY <1>4
    <2> QED BY <2>1, <1>1 DEF Lists
<1> QED BY <1>2, <1>3, <1>4 DEF Lists

LEMMA ListsStay ==
    ASSUME NEW p, NEW q, NEW a \in Int, NEW b \in Int, NEW S, Lists(p, a, b, S),
           \A j \in a .. b : PositionFromPartition(q, j) = PositionFromPartition(p, j)
    PROVE  Lists(q, a, b, S)
BY DEF Lists

LEMMA ListsExtended ==
    ASSUME NEW p, NEW a \in Int, NEW k \in Int, a <= k, NEW S, Lists(p, a, k - 1, S),
           NEW b, b = PositionFromPartition(p, k), \A e \in S : e < b
    PROVE  Lists(p, a, k, S \cup {b})
<1>1. \A j \in a .. k : j \in a .. k - 1 \/ j = k
    OBVIOUS
<1>2. \A j \in a .. k - 1 : j \in a .. k
    OBVIOUS
<1>3. k \in a .. k
    OBVIOUS
<1>4. \A j \in a .. k : PositionFromPartition(p, j) \in S \cup {b}
    BY <1>1 DEF Lists
<1>5. \A e \in S \cup {b} : \E j \in a .. k : PositionFromPartition(p, j) = e
    BY <1>2, <1>3 DEF Lists
<1>6. ASSUME NEW i \in a .. k, NEW j \in a .. k, i < j
      PROVE  PositionFromPartition(p, i) < PositionFromPartition(p, j)
    <2>1. i \in a .. k - 1
        BY <1>6
    <2>2. CASE j = k
        BY <2>1, <2>2 DEF Lists
    <2>3. CASE j # k
        BY <2>1, <2>3, <1>1, <1>6 DEF Lists
    <2> QED BY <2>2, <2>3
<1> QED BY <1>4, <1>5, <1>6 DEF Lists

LEMMA ListsShortened ==
    ASSUME NEW p, NEW a \in Int, NEW k \in Int, a <= k, NEW S, S \subseteq Int, Lists(p, a, k, S),
           NEW last, last = PositionFromPartition(p, k)
    PROVE  /\ Lists(p, a, k - 1, S \ {last})
           /\ \A e \in S : e # last => e < last
<1>1. \A j \in a .. k : j \in a .. k - 1 \/ j = k
    OBVIOUS
<1>2. \A j \in a .. k - 1 : j \in a .. k /\ j < k
    OBVIOUS
<1>3. k \in a .. k
    OBVIOUS
<1>4. ASSUME NEW j \in a .. k - 1
      PROVE  PositionFromPartition(p, j) \in S /\ PositionFromPartition(p, j) < last
    BY <1>2, <1>3 DEF Lists
<1>5. last \in Int
    BY <1>3 DEF Lists
<1>6. ASSUME NEW j \in a .. k - 1
      PROVE  PositionFromPartition(p, j) \in S \ {last}
    BY <1>4, <1>5
<1>7. ASSUME NEW e \in S, e # last
      PROVE  \E j \in a .. k - 1 : PositionFromPartition(p, j) = e
    BY <1>1, <1>7 DEF Lists
<1>8. \A i, j \in a .. k - 1 : i < j => PositionFromPartition(p, i) < PositionFromPartition(p, j)
    BY <1>2 DEF Lists
<1> QED BY <1>4, <1>6, <1>7, <1>8 DEF Lists

Splits(p, m, F, B, end) ==
    /\ WellFormed(p)
    /\ m \in 1 .. Partitions(p)
    /\ p.step <= m
    /\ PositionFromPartition(p, 0) = 0
    /\ PositionFromPartition(p, Partitions(p)) = end
    /\ Lists(p, 1, m - 1, F)
    /\ Lists(p, m, Partitions(p) - 1, B)

\* The starts of q are those of p, but for one more at k, with b.
OneMore(p, q, k, b) ==
    \A j \in 0 .. Partitions(q) :
        PositionFromPartition(q, j) =
            IF j < k THEN PositionFromPartition(p, j)
            ELSE IF j = k THEN b
            ELSE PositionFromPartition(p, j - 1)

OneLess(p, q, k) ==
    \A j \in 0 .. Partitions(q) :
        PositionFromPartition(q, j) =
            IF j < k THEN PositionFromPartition(p, j) ELSE PositionFromPartition(p, j + 1)

Another(p, q, k, b) ==
    \A j \in 0 .. Partitions(q) :
        PositionFromPartition(q, j) = IF j = k THEN b ELSE PositionFromPartition(p, j)

\* A break right behind what was looked at.
LEMMA SplitsInsert ==
    ASSUME NEW p, NEW m, NEW F, NEW B, NEW end, Splits(p, m, F, B, end),
           NEW b \in Int, \A e \in F : e < b
    PROVE  Splits(InsertPartition(p, m, b), m + 1, F \cup {b}, B, end)
<1> DEFINE q == InsertPartition(p, m, b)
           n == Partitions(p)
<1>1. /\ WellFormed(p) /\ m \in 1 .. n /\ p.step <= m
      /\ n \in Nat \ {0} /\ Bounds(p) = 0 .. n /\ n = Len(p.body) - 1
    BY PlaceIsNumber DEF Splits
<1>2. /\ WellFormed(q) /\ Len(q.body) = Len(p.body) + 1
      /\ \A j \in Bounds(q) :
             PositionFromPartition(q, j) =
                 IF j < m THEN PositionFromPartition(p, j)
                 ELSE IF j = m THEN b
                 ELSE PositionFromPartition(p, j - 1)
    <2> HIDE DEF q
    <2>1. m \in 0 .. Partitions(p)
        BY <1>1
    <2> QED BY <1>1, <2>1, InsertPartitionShifts DEF q
<1>3. q.step = m + 1
    BY <1>1, InsertStep
<1> HIDE DEF q
<1>4. Partitions(q) = n + 1 /\ Bounds(q) = 0 .. n + 1
    BY <1>1, <1>2, PlaceIsNumber
<1>5. OneMore(p, q, m, b)
    BY <1>2, <1>4 DEF OneMore
<1> HIDE DEF n
<1>6. Lists(q, 1, m, F \cup {b})
    <2>1. \A j \in 1 .. m - 1 : PositionFromPartition(q, j) = PositionFromPartition(p, j)
        BY <1>1, <1>4, <1>5 DEF OneMore
    <2>2. PositionFromPartition(q, m) = b
        BY <1>1, <1>4, <1>5 DEF OneMore
    <2>3. Lists(p, 1, m - 1, F) /\ m \in Int /\ 1 <= m /\ m - 1 \in Int
        BY <1>1 DEF Splits
    <2>4. Lists(q, 1, m - 1, F)
        BY <2>1, <2>3, ListsStay
    <2> QED BY <2>2, <2>3, <2>4, ListsExtended
<1>7. Lists(q, m + 1, n, B)
    <2>1. ASSUME NEW j \in m .. n - 1
          PROVE  PositionFromPartition(q, j + 1) = PositionFromPartition(p, j)
        <3>1. j + 1 \in 0 .. n + 1 /\ ~(j + 1 < m) /\ j + 1 # m /\ (j + 1) - 1 = j
            BY <1>1
        <3> QED BY <3>1, <1>4, <1>5 DEF OneMore
    <2>2. Lists(p, m, n - 1, B) /\ m \in Int /\ n - 1 \in Int /\ (n - 1) + 1 = n
        BY <1>1 DEF Splits, n
    <2>3. Lists(q, m + 1, (n - 1) + 1, B)
        BY <2>1, <2>2, ListsMoved
    <2> QED BY <2>2, <2>3
<1>8. PositionFromPartition(q, 0) = 0 /\ PositionFromPartition(q, n + 1) = end
    <2>1. 0 \in 0 .. n + 1 /\ 0 < m /\ n + 1 \in 0 .. n + 1 /\ ~(n + 1 < m) /\ n + 1 # m /\ (n + 1) - 1 = n
        BY <1>1
    <2> QED BY <2>1, <1>4, <1>5 DEF OneMore, Splits, n
<1>9. m + 1 \in 1 .. n + 1 /\ (m + 1) - 1 = m /\ (n + 1) - 1 = n
    BY <1>1
<1> QED BY <1>2, <1>3, <1>4, <1>6, <1>7, <1>8, <1>9 DEF Splits, q

\* The last break that was looked at turns out to be elsewhere.
LEMMA SplitsSet ==
    ASSUME NEW p, NEW m, NEW F, NEW B, NEW end, Splits(p, m, F, B, end), m > 1,
           F \subseteq Int, NEW b \in Int, NEW last,
           last = PositionFromPartition(p, m - 1),
           \A e \in F : e # last => e < b
    PROVE  Splits(SetPartitionStartPosition(p, m - 1, b), m, (F \ {last}) \cup {b}, B, end)
<1> DEFINE q == SetPartitionStartPosition(p, m - 1, b)
           n == Partitions(p)
<1>1. /\ WellFormed(p) /\ m \in 1 .. n /\ p.step <= m
      /\ n \in Nat \ {0} /\ Bounds(p) = 0 .. n /\ n = Len(p.body) - 1
      /\ \A j \in 0 .. n : PositionFromPartition(p, j) \in Int
    BY PlaceIsNumber DEF Splits
<1>2. /\ WellFormed(q) /\ Len(q.body) = Len(p.body) /\ q.step <= m
      /\ \A j \in Bounds(p) :
             PositionFromPartition(q, j) = IF j = m - 1 THEN b ELSE PositionFromPartition(p, j)
    <2>1. m - 1 \in 0 .. Partitions(p) /\ (m - 1) + 1 = m
        BY <1>1
    <2> HIDE DEF q
    <2> DEFINE k == m - 1
    <2>2. k \in 0 .. Partitions(p) /\ p.step <= k + 1 /\ k + 1 = m
        BY <1>1, <2>1
    <2> HIDE DEF k
    <2>3. LET r == SetPartitionStartPosition(p, k, b)
          IN  /\ WellFormed(r) /\ Len(r.body) = Len(p.body) /\ r.step <= k + 1
              /\ \A j \in Bounds(p) :
                     PositionFromPartition(r, j) = IF j = k THEN b ELSE PositionFromPartition(p, j)
        BY <1>1, <2>2, SetPartitionStartSets
    <2> QED BY <2>2, <2>3 DEF k, q
<1> HIDE DEF q
<1>4. Partitions(q) = n /\ Bounds(q) = 0 .. n
    BY <1>1, <1>2, PlaceIsNumber
<1>5. Another(p, q, m - 1, b)
    BY <1>1, <1>2, <1>4 DEF Another
<1> HIDE DEF n
<1>6. Lists(q, 1, m - 1, (F \ {last}) \cup {b})
    <2> DEFINE k == m - 1
    <2>1. \A j \in 1 .. k - 1 : PositionFromPartition(q, j) = PositionFromPartition(p, j)
        BY <1>1, <1>4, <1>5 DEF Another
    <2>2. PositionFromPartition(q, k) = b
        BY <1>1, <1>4, <1>5 DEF Another
    <2>3. Lists(p, 1, k, F) /\ k \in Int /\ 1 <= k /\ k - 1 \in Int /\ last = PositionFromPartition(p, k)
          /\ 1 \in Int /\ F \subseteq Int
        BY <1>1 DEF Splits
    <2> HIDE DEF k
    <2>4. Lists(p, 1, k - 1, F \ {last})
        BY <2>3, ListsShortened, Zenon
    <2>5. Lists(q, 1, k - 1, F \ {last})
        BY <2>1, <2>3, <2>4, ListsStay
    <2>6. Lists(q, 1, k, (F \ {last}) \cup {b})
        <3>1. \A e \in F \ {last} : e < b
            OBVIOUS
        <3> QED BY <3>1, <2>2, <2>3, <2>5, ListsExtended, Zenon
    <2> QED BY <2>6 DEF k
<1>7. Lists(q, m, n - 1, B)
    <2>1. \A j \in m .. n - 1 : PositionFromPartition(q, j) = PositionFromPartition(p, j)
        BY <1>1, <1>4, <1>5 DEF Another
    <2>2. Lists(p, m, n - 1, B) /\ m \in Int /\ n - 1 \in Int
        BY <1>1 DEF Splits, n
    <2> QED BY <2>1, <2>2, ListsStay
<1>8. PositionFromPartition(q, 0) = 0 /\ PositionFromPartition(q, n) = end
    BY <1>1, <1>4, <1>5 DEF Another, Splits, n
<1> QED BY <1>1, <1>2, <1>4, <1>6, <1>7, <1>8 DEF Splits, q

\* The first break that is still to come goes.
LEMMA SplitsRemoveNext ==
    ASSUME NEW p, NEW m, NEW F, NEW B, NEW end, Splits(p, m, F, B, end),
           NEW b \in B, \A e \in B : b <= e, B \subseteq Int
    PROVE  Splits(RemovePartition(p, m), m, F, B \ {b}, end)
<1> DEFINE q == RemovePartition(p, m)
           n == Partitions(p)
<1>1. /\ WellFormed(p) /\ m \in 1 .. n /\ p.step <= m /\ p.step \in Int
      /\ n \in Nat \ {0} /\ Bounds(p) = 0 .. n /\ n = Len(p.body) - 1
      /\ \A j \in 0 .. n : PositionFromPartition(p, j) \in Int
    BY PlaceIsNumber DEF Splits
<1>0. Lists(p, m, n - 1, B)
    BY DEF Splits
<1>00. m <= n - 1 /\ n > 1
    BY <1>0, <1>1 DEF Lists
<1>2. /\ WellFormed(q) /\ Len(q.body) = Len(p.body) - 1 /\ q.step <= m
      /\ \A j \in Bounds(q) :
             PositionFromPartition(q, j) =
                 IF j < m THEN PositionFromPartition(p, j) ELSE PositionFromPartition(p, j + 1)
    <2>1. m \in 0 .. Partitions(p) /\ p.step <= m + 1
        BY <1>1
    <2> HIDE DEF q
    <2> QED BY <1>1, <1>00, <2>1, RemovePartitionShifts, RemoveStep DEF q
<1> HIDE DEF q
<1>4. Partitions(q) = n - 1 /\ Bounds(q) = 0 .. n - 1
    BY <1>1, <1>2, PlaceIsNumber
<1>5. OneLess(p, q, m)
    BY <1>2, <1>4 DEF OneLess
<1> HIDE DEF n
<1>6. Lists(q, 1, m - 1, F)
    <2>1. \A j \in 1 .. m - 1 : PositionFromPartition(q, j) = PositionFromPartition(p, j)
        BY <1>1, <1>00, <1>4, <1>5 DEF OneLess
    <2>2. Lists(p, 1, m - 1, F) /\ m - 1 \in Int
        BY <1>1 DEF Splits
    <2> QED BY <2>1, <2>2, ListsStay
<1>7. Lists(q, m, n - 2, B \ {b})
    <2>1. ASSUME NEW j \in m .. n - 2
          PROVE  PositionFromPartition(q, j) = PositionFromPartition(p, j + 1) /\ j + 1 \in m + 1 .. n - 1
        BY <1>1, <1>4, <1>5 DEF OneLess
    <2>2. PositionFromPartition(p, m) = b
        <3>1. PICK k \in m .. n - 1 : PositionFromPartition(p, k) = b
            BY <1>0 DEF Lists
        <3>2. m \in m .. n - 1 /\ PositionFromPartition(p, m) \in B
            BY <1>0, <1>00, <1>1 DEF Lists
        <3>3. CASE m < k
            <4>1. PositionFromPartition(p, m) < PositionFromPartition(p, k)
                BY <1>0, <3>2, <3>3 DEF Lists
            <4>2. b <= PositionFromPartition(p, m) /\ b \in Int /\ PositionFromPartition(p, m) \in Int
                BY <3>2
            <4> QED BY <3>1, <4>1, <4>2
        <3> QED BY <3>1, <3>3, <1>1
    <2>3. ASSUME NEW j \in m + 1 .. n - 1
          PROVE  /\ PositionFromPartition(q, j - 1) = PositionFromPartition(p, j) /\ j - 1 \in m .. n - 2
                 /\ PositionFromPartition(p, j) # b
        <3>1. j - 1 \in m .. n - 2 /\ (j - 1) + 1 = j /\ m < j /\ m \in m .. n - 1 /\ j \in m .. n - 1
              /\ j \in 0 .. n /\ m \in 0 .. n
            BY <1>1, <1>00
        <3>2. PositionFromPartition(p, m) < PositionFromPartition(p, j)
            BY <3>1, <1>0 DEF Lists
        <3>3. PositionFromPartition(p, m) \in Int /\ PositionFromPartition(p, j) \in Int
            BY <3>1, <1>1
        <3> QED BY <3>1, <3>2, <3>3, <2>1, <2>2
    <2>4. ASSUME NEW e \in B, e # b
          PROVE  \E j \in m .. n - 2 : PositionFromPartition(q, j) = e
        <3>1. PICK k \in m .. n - 1 : PositionFromPartition(p, k) = e
            BY <1>0 DEF Lists
        <3>2. k \in m + 1 .. n - 1
            BY <3>1, <2>2, <2>4, <1>1
        <3> QED BY <3>1, <3>2, <2>3
    <2>5. ASSUME NEW j \in m .. n - 2
          PROVE  PositionFromPartition(q, j) \in B \ {b}
        <3>1. j + 1 \in m + 1 .. n - 1 /\ j + 1 \in m .. n - 1
            BY <2>1, <1>1
        <3> QED BY <3>1, <2>1, <2>3, <1>0 DEF Lists
    <2>6. ASSUME NEW j \in m .. n - 2, NEW k \in m .. n - 2, j < k
          PROVE  PositionFromPartition(q, j) < PositionFromPartition(q, k)
        <3>1. j + 1 \in m .. n - 1 /\ k + 1 \in m .. n - 1 /\ j + 1 < k + 1
            BY <2>6, <1>1
        <3> QED BY <3>1, <2>1, <1>0 DEF Lists
    <2> QED BY <2>4, <2>5, <2>6 DEF Lists
<1>8. PositionFromPartition(q, 0) = 0 /\ PositionFromPartition(q, n - 1) = end
    <2>1. 0 \in 0 .. n - 1 /\ 0 < m /\ n - 1 \in 0 .. n - 1 /\ ~(n - 1 < m) /\ (n - 1) + 1 = n
        BY <1>1, <1>00
    <2> QED BY <2>1, <1>4, <1>5 DEF OneLess, Splits, n
<1>9. m \in 1 .. n - 1 /\ (n - 1) - 1 = n - 2
    BY <1>1, <1>00
<1> QED BY <1>2, <1>4, <1>6, <1>7, <1>8, <1>9 DEF Splits, q

\* The last break that was looked at goes.
LEMMA SplitsRemoveLast ==
    ASSUME NEW p, NEW m, NEW F, NEW B, NEW end, Splits(p, m, F, B, end), m > 1,
           NEW last, last = PositionFromPartition(p, m - 1)
    PROVE  Splits(RemovePartition(p, m - 1), m - 1, F \ {last}, B, end)
<1> DEFINE k == m - 1
           q == RemovePartition(p, k)
           n == Partitions(p)
<1>1. /\ WellFormed(p) /\ m \in 1 .. n /\ p.step <= m /\ p.step \in Int
      /\ n \in Nat \ {0} /\ Bounds(p) = 0 .. n /\ n = Len(p.body) - 1
      /\ \A j \in 0 .. n : PositionFromPartition(p, j) \in Int
    BY PlaceIsNumber DEF Splits
<1>00. k \in 1 .. n - 1 /\ k + 1 = m /\ n > 1 /\ p.step <= k + 1 /\ k \in Int
    BY <1>1
<1>0. Lists(p, 1, k, F) /\ Lists(p, k + 1, n - 1, B)
    BY <1>00 DEF Splits, k
<1> HIDE DEF k
<1>2. /\ WellFormed(q) /\ Len(q.body) = Len(p.body) - 1 /\ q.step <= k
      /\ \A j \in Bounds(q) :
             PositionFromPartition(q, j) =
                 IF j < k THEN PositionFromPartition(p, j) ELSE PositionFromPartition(p, j + 1)
    <2>1. k \in 0 .. Partitions(p)
        BY <1>1, <1>00
    <2> HIDE DEF q
    <2> QED BY <1>1, <1>00, <2>1, RemovePartitionShifts, RemoveStep DEF q
<1> HIDE DEF q
<1>4. Partitions(q) = n - 1 /\ Bounds(q) = 0 .. n - 1
    BY <1>1, <1>2, PlaceIsNumber
<1>5. OneLess(p, q, k)
    BY <1>2, <1>4 DEF OneLess
<1> HIDE DEF n
<1>6. Lists(q, 1, k - 1, F \ {last})
    <2>1. ASSUME NEW j \in 1 .. k - 1
          PROVE  /\ PositionFromPartition(q, j) = PositionFromPartition(p, j) /\ j \in 1 .. k /\ j < k
                 /\ PositionFromPartition(p, j) # last
        <3>1. j \in 1 .. k /\ j < k /\ j \in 0 .. n - 1 /\ k \in 1 .. k /\ j \in 0 .. n /\ k \in 0 .. n
            BY <1>1, <1>00
        <3>2. PositionFromPartition(p, j) < PositionFromPartition(p, k)
            BY <3>1, <1>0 DEF Lists
        <3>3. PositionFromPartition(p, j) \in Int /\ last \in Int /\ last = PositionFromPartition(p, k)
            BY <3>1, <1>1 DEF k
        <3> QED BY <3>1, <3>2, <3>3, <1>4, <1>5 DEF OneLess
    <2>2. ASSUME NEW e \in F, e # last
          PROVE  \E j \in 1 .. k - 1 : PositionFromPartition(q, j) = e
        <3>1. PICK i \in 1 .. k : PositionFromPartition(p, i) = e
            BY <1>0 DEF Lists
        <3>2. i \in 1 .. k - 1
            BY <3>1, <2>2, <1>00 DEF k
        <3> QED BY <3>1, <3>2, <2>1
    <2> QED BY <2>1, <2>2, <1>0 DEF Lists
<1>7. Lists(q, k, n - 2, B)
    <2>1. ASSUME NEW j \in k + 1 .. n - 1
          PROVE  PositionFromPartition(q, j + -1) = PositionFromPartition(p, j)
        <3>1. j + -1 \in 0 .. n - 1 /\ ~(j + -1 < k) /\ (j + -1) + 1 = j
            BY <1>1, <1>00
        <3> QED BY <3>1, <1>4, <1>5 DEF OneLess
    <2>2. k + 1 \in Int /\ n - 1 \in Int /\ (k + 1) + -1 = k /\ (n - 1) + -1 = n - 2 /\ -1 \in Int
        BY <1>1, <1>00
    <2> DEFINE a == k + 1
               z == n - 1
               d == -1
    <2>3. /\ a \in Int /\ z \in Int /\ d \in Int /\ Lists(p, a, z, B)
          /\ \A j \in a .. z : PositionFromPartition(q, j + d) = PositionFromPartition(p, j)
        BY <2>1, <2>2, <1>0
    <2>4. a + d = k /\ z + d = n - 2
        BY <2>2
    <2> HIDE DEF a, z, d
    <2>5. Lists(q, a + d, z + d, B)
        BY <2>3, ListsMoved
    <2> QED BY <2>4, <2>5
<1>8. PositionFromPartition(q, 0) = 0 /\ PositionFromPartition(q, n - 1) = end
    <2>1. 0 \in 0 .. n - 1 /\ 0 < k /\ n - 1 \in 0 .. n - 1 /\ ~(n - 1 < k) /\ (n - 1) + 1 = n
        BY <1>1, <1>00
    <2> QED BY <2>1, <1>4, <1>5 DEF OneLess, Splits, n
<1>9. k \in 1 .. n - 1 /\ (n - 1) - 1 = n - 2
    BY <1>1, <1>00
<1> QED BY <1>2, <1>4, <1>6, <1>7, <1>8, <1>9 DEF Splits, q, k

(***************************************************************************)
(* From an index to one that is being adjusted, and back.                  *)
(***************************************************************************)

IndexOf(p, S, end) ==
    /\ WellFormed(p)
    /\ PositionFromPartition(p, 0) = 0
    /\ PositionFromPartition(p, Partitions(p)) = end
    /\ Lists(p, 1, Partitions(p) - 1, S)

LEMMA IndexIsLineStarts ==
    ASSUME NEW p, WellFormed(p), NEW t
    PROVE  AreLineStarts(Starts(p), t) <=> IndexOf(p, LineBreaks(t), Len(t))
<1> DEFINE n == Partitions(p)
           st == Starts(p)
           inner == {st[i] : i \in 2 .. Len(st) - 1}
<1>1. /\ n \in Nat \ {0} /\ n = Len(p.body) - 1 /\ Len(p.body) \in Nat
      /\ DOMAIN p.body = 1 .. Len(p.body)
      /\ \A j \in 0 .. n : PositionFromPartition(p, j) \in Int
    BY PlaceIsNumber, Form
<1>2. /\ Len(st) = n + 1
      /\ \A i \in 1 .. n + 1 : st[i] = PositionFromPartition(p, i - 1)
    <2>1. st = [i \in 1 .. n + 1 |-> PositionFromPartition(p, i - 1)]
        BY <1>1 DEF Starts
    <2> HIDE DEF st, n
    <2>2. DOMAIN st = 1 .. n + 1 /\ \A i \in 1 .. n + 1 : st[i] \in Int
        BY <1>1, <2>1
    <2>3. st \in [1 .. n + 1 -> Int]
        BY <1>1, <2>1
    <2>4. Len(st) = n + 1
        <3> DEFINE k == n + 1
        <3>1. k \in Nat /\ st \in [1 .. k -> Int]
            BY <1>1, <2>3
        <3> HIDE DEF k
        <3>2. Len(st) = k
            BY <3>1
        <3> QED BY <3>2 DEF k
    <2> QED BY <2>1, <2>4
<1> HIDE DEF st, n
<1>3. st[1] = PositionFromPartition(p, 0) /\ st[Len(st)] = PositionFromPartition(p, n) /\ Len(st) > 1
    <2>1. 1 \in 1 .. n + 1 /\ n + 1 \in 1 .. n + 1 /\ 1 - 1 = 0 /\ (n + 1) - 1 = n
        BY <1>1
    <2>2. st[1] = PositionFromPartition(p, 1 - 1) /\ st[n + 1] = PositionFromPartition(p, (n + 1) - 1)
        BY <2>1, <1>2
    <2>3. Len(st) = n + 1 /\ n + 1 > 1
        <3>1. n + 1 > 1
            <4>1. n \in Nat /\ n # 0
                BY <1>1
            <4>2. n >= 1
                BY <4>1
            <4> QED BY <4>1, <4>2
        <3> QED BY <3>1, <1>2
    <2>4. st[1] = PositionFromPartition(p, 0) /\ st[n + 1] = PositionFromPartition(p, n)
        BY <2>1, <2>2
    <2> QED BY <2>3, <2>4
<1>4. ASSUME NEW i \in 2 .. Len(st) - 1
      PROVE  i - 1 \in 1 .. n - 1 /\ st[i] = PositionFromPartition(p, i - 1)
    BY <1>1, <1>2
<1>5. ASSUME NEW j \in 1 .. n - 1
      PROVE  j + 1 \in 2 .. Len(st) - 1 /\ st[j + 1] = PositionFromPartition(p, j)
    <2>1. j + 1 \in 2 .. Len(st) - 1 /\ (j + 1) - 1 = j
        BY <1>1, <1>2
    <2> QED BY <2>1, <1>4
<1>6. ASSUME AreLineStarts(st, t)
      PROVE  Lists(p, 1, n - 1, LineBreaks(t))
    <2>1. /\ inner = LineBreaks(t)
          /\ \A i, j \in 2 .. Len(st) - 1 : i < j => st[i] < st[j]
        BY <1>6 DEF AreLineStarts
    <2>2. \A j \in 1 .. n - 1 : PositionFromPartition(p, j) \in LineBreaks(t)
        BY <2>1, <1>5
    <2>3. \A e \in LineBreaks(t) : \E j \in 1 .. n - 1 : PositionFromPartition(p, j) = e
        BY <2>1, <1>4
    <2>4. ASSUME NEW j \in 1 .. n - 1, NEW k \in 1 .. n - 1, j < k
          PROVE  PositionFromPartition(p, j) < PositionFromPartition(p, k)
        <3>1. j + 1 < k + 1
            BY <2>4
        <3> QED BY <3>1, <2>1, <1>5
    <2> QED BY <2>2, <2>3, <2>4 DEF Lists
<1>7. ASSUME Lists(p, 1, n - 1, LineBreaks(t))
      PROVE  /\ inner = LineBreaks(t)
             /\ \A i, j \in 2 .. Len(st) - 1 : i < j => st[i] < st[j]
    <2>1. \A e \in inner : e \in LineBreaks(t)
        BY <1>4, <1>7 DEF Lists
    <2>2. \A e \in LineBreaks(t) : e \in inner
        BY <1>5, <1>7 DEF Lists
    <2>3. ASSUME NEW i \in 2 .. Len(st) - 1, NEW j \in 2 .. Len(st) - 1, i < j
          PROVE  st[i] < st[j]
        <3>1. i - 1 < j - 1
            BY <2>3
        <3> QED BY <3>1, <1>4, <1>7 DEF Lists
    <2> QED BY <2>1, <2>2, <2>3
<1>8. ASSUME IndexOf(p, LineBreaks(t), Len(t))
      PROVE  AreLineStarts(st, t)
    <2>1. /\ PositionFromPartition(p, 0) = 0 /\ PositionFromPartition(p, n) = Len(t)
          /\ Lists(p, 1, n - 1, LineBreaks(t))
        BY <1>8 DEF IndexOf, n
    <2> QED BY <2>1, <1>3, <1>7 DEF AreLineStarts
<1>9. ASSUME AreLineStarts(st, t)
      PROVE  IndexOf(p, LineBreaks(t), Len(t))
    <2>1. PositionFromPartition(p, 0) = 0 /\ PositionFromPartition(p, n) = Len(t)
        BY <1>9, <1>3 DEF AreLineStarts
    <2> QED BY <2>1, <1>6, <1>9 DEF IndexOf, n
<1> QED BY <1>8, <1>9 DEF st

\* The line that a position is in: the last one that does not start after it.
IsLineAt(p, line, pos) ==
    /\ line \in 0 .. Partitions(p) - 1
    /\ \A j \in 0 .. line : PositionFromPartition(p, j) <= pos
    /\ \A j \in line + 1 .. Partitions(p) - 1 : PositionFromPartition(p, j) > pos

LEMMA LineFound ==
    ASSUME NEW p, NEW S, NEW end, IndexOf(p, S, end), NEW pos \in Nat
    PROVE  IsLineAt(p, PartitionFromPosition(p, pos), pos)
<1> DEFINE n == Partitions(p)
           T == {0} \cup {k \in 0 .. n - 1 : PositionFromPartition(p, k) <= pos}
<1>1. /\ n \in Nat \ {0} /\ PositionFromPartition(p, 0) = 0
      /\ \A j \in 0 .. n : PositionFromPartition(p, j) \in Int
      /\ Lists(p, 1, n - 1, S)
    BY PlaceIsNumber DEF IndexOf
<1>2. PartitionFromPosition(p, pos) = Max(T)
    BY DEF PartitionFromPosition
<1> HIDE DEF n
<1>3. PICK m \in T : \A k \in T : k <= m
    <2>1. n - 1 \in Nat /\ T \subseteq 0 .. n - 1 /\ T # {}
        BY <1>1
    <2> HIDE DEF T
    <2> QED BY <2>1, Scanning!GreatestOf
<1>4. Max(T) = m
    <2>1. T \subseteq Int
        BY <1>1
    <2>2. Scanning!Max(T) = m
        <3> HIDE DEF T
        <3> QED BY <2>1, <1>3, Scanning!MaxIs
    <2> QED BY <2>2 DEF Scanning!Max, Max
<1>5. m \in 0 .. n - 1 /\ PositionFromPartition(p, m) <= pos
    BY <1>1, <1>3
<1>6. ASSUME NEW j \in 0 .. m
      PROVE  PositionFromPartition(p, j) <= pos
    <2>1. CASE j = 0
        BY <2>1, <1>1
    <2>2. CASE j = m
        BY <2>2, <1>5
    <2>3. CASE j # 0 /\ j # m
        <3>1. j \in 1 .. n - 1 /\ m \in 1 .. n - 1 /\ j < m /\ j \in 0 .. n /\ m \in 0 .. n
            BY <2>3, <1>1, <1>5
        <3>2. PositionFromPartition(p, j) < PositionFromPartition(p, m)
            BY <3>1, <1>1 DEF Lists
        <3>3. PositionFromPartition(p, j) \in Int /\ PositionFromPartition(p, m) \in Int
            BY <3>1, <1>1
        <3> QED BY <3>2, <3>3, <1>5
    <2> QED BY <2>1, <2>2, <2>3
<1>7. ASSUME NEW j \in m + 1 .. n - 1
      PROVE  PositionFromPartition(p, j) > pos
    <2>1. j \in 0 .. n - 1 /\ j \in 0 .. n /\ ~(j <= m)
        BY <1>1, <1>5
    <2>2. ~(PositionFromPartition(p, j) <= pos)
        BY <2>1, <1>3
    <2> QED BY <2>1, <2>2, <1>1
<1> QED BY <1>2, <1>4, <1>5, <1>6, <1>7 DEF IsLineAt, n

\* q is p when text of length d has come into the line of pos, or gone from it.
GrownAt(p, q, S, end, pos, line, d) ==
    /\ Splits(q, line + 1, {e \in S : e <= pos}, Shifted({e \in S : e > pos}, d), end + d)
    /\ Partitions(q) = Partitions(p)
    /\ \A j \in 0 .. Partitions(p) :
           PositionFromPartition(q, j) = PositionFromPartition(p, j) + (IF j > line THEN d ELSE 0)

LEMMA IndexSplits ==
    ASSUME NEW p, NEW S, S \subseteq Int, NEW end \in Int, IndexOf(p, S, end), NEW pos \in Nat,
           NEW line, IsLineAt(p, line, pos), NEW d \in Int
    PROVE  GrownAt(p, InsertText(p, line, d), S, end, pos, line, d)
<1> DEFINE q == InsertText(p, line, d)
           n == Partitions(p)
           F == {e \in S : e <= pos}
           L == {e \in S : e > pos}
<1>1. /\ n \in Nat \ {0} /\ PositionFromPartition(p, 0) = 0 /\ PositionFromPartition(p, n) = end
      /\ \A j \in 0 .. n : PositionFromPartition(p, j) \in Int
      /\ Lists(p, 1, n - 1, S) /\ WellFormed(p) /\ Bounds(p) = 0 .. n /\ n = Len(p.body) - 1
    BY PlaceIsNumber DEF IndexOf
<1>2. line \in 0 .. n - 1 /\ line \in 0 .. n /\ line \in Int /\ line < n
    BY <1>1 DEF IsLineAt
<1>3. /\ WellFormed(q) /\ Len(q.body) = Len(p.body) /\ q.step = line
      /\ \A j \in 0 .. n :
             PositionFromPartition(q, j) = PositionFromPartition(p, j) + (IF j > line THEN d ELSE 0)
    <2> HIDE DEF q
    <2>1. line \in 0 .. Partitions(p) /\ line \in 0 .. Partitions(p) - 1
        BY <1>2
    <2>2. InsertText(p, line, d).step = line
        BY <2>1, <1>1, GrowStep
    <2>3. LET r == InsertText(p, line, d)
          IN  /\ WellFormed(r) /\ Len(r.body) = Len(p.body)
              /\ \A j \in Bounds(p) :
                     PositionFromPartition(r, j) =
                         PositionFromPartition(p, j) + (IF j > line THEN d ELSE 0)
        BY <2>1, <1>1, InsertTextMovesLater, ZenonT(60)
    <2> QED BY <2>2, <2>3, <1>1 DEF q
<1>4. Partitions(q) = n
    BY <1>1, <1>3, PlaceIsNumber
<1> HIDE DEF q, n
<1>5. Lists(q, 1, line, F)
    <2>1. \A j \in 1 .. line : j \in 1 .. n - 1 /\ j \in 0 .. n /\ j \in 0 .. line /\ ~(j > line)
        BY <1>1, <1>2
    <2>2. \A j \in 1 .. line : PositionFromPartition(q, j) = PositionFromPartition(p, j)
        BY <2>1, <1>1, <1>3
    <2>3. \A j \in 1 .. line : PositionFromPartition(p, j) \in F
        BY <2>1, <1>1 DEF Lists, IsLineAt
    <2>4. ASSUME NEW e \in F
          PROVE  \E j \in 1 .. line : PositionFromPartition(p, j) = e
        <3>1. PICK k \in 1 .. n - 1 : PositionFromPartition(p, k) = e
            BY <1>1 DEF Lists
        <3>2. CASE k > line
            <4>1. k \in line + 1 .. n - 1
                BY <3>2, <1>1, <1>2
            <4>2. PositionFromPartition(p, k) > pos
                BY <4>1 DEF IsLineAt, n
            <4>3. e \in Int
                OBVIOUS
            <4> QED BY <4>2, <4>3, <3>1
        <3>3. CASE ~(k > line)
            BY <3>1, <3>3, <1>2
        <3> QED BY <3>2, <3>3
    <2>5. \A j, k \in 1 .. line : j < k => PositionFromPartition(p, j) < PositionFromPartition(p, k)
        BY <2>1, <1>1 DEF Lists
    <2>6. Lists(p, 1, line, F)
        <3> HIDE DEF F
        <3> QED BY <2>3, <2>4, <2>5 DEF Lists
    <2> HIDE DEF F
    <2> QED BY <2>2, <2>6, <1>2, ListsStay
<1>6. Lists(q, line + 1, n - 1, Shifted(L, d))
    <2>1. \A j \in line + 1 .. n - 1 : j \in 1 .. n - 1 /\ j \in 0 .. n /\ j > line
        BY <1>1, <1>2
    <2>2. \A j \in line + 1 .. n - 1 : PositionFromPartition(q, j) = PositionFromPartition(p, j) + d
        BY <2>1, <1>3
    <2>3. \A j \in line + 1 .. n - 1 : PositionFromPartition(p, j) \in L
        BY <2>1, <1>1 DEF Lists, IsLineAt, n
    <2>4. ASSUME NEW e \in L
          PROVE  \E j \in line + 1 .. n - 1 : PositionFromPartition(p, j) = e
        <3>1. PICK k \in 1 .. n - 1 : PositionFromPartition(p, k) = e
            BY <1>1 DEF Lists
        <3>2. CASE k <= line
            <4>1. k \in 0 .. line
                BY <3>2, <1>1, <1>2
            <4>2. PositionFromPartition(p, k) <= pos
                BY <4>1 DEF IsLineAt
            <4> QED BY <4>2, <3>1
        <3>3. CASE ~(k <= line)
            <4>1. k \in line + 1 .. n - 1
                BY <3>3, <1>1, <1>2
            <4> QED BY <4>1, <3>1
        <3> QED BY <3>2, <3>3
    <2>5. ASSUME NEW j \in line + 1 .. n - 1
          PROVE  PositionFromPartition(q, j) \in Shifted(L, d)
        <3> HIDE DEF L
        <3> QED BY <2>2, <2>3 DEF Shifted
    <2>6. ASSUME NEW x \in Shifted(L, d)
          PROVE  \E j \in line + 1 .. n - 1 : PositionFromPartition(q, j) = x
        <3>1. PICK e \in L : x = e + d
            BY DEF Shifted
        <3>2. PICK j \in line + 1 .. n - 1 : PositionFromPartition(p, j) = e
            BY <3>1, <2>4
        <3> QED BY <3>1, <3>2, <2>2
    <2>7. ASSUME NEW j \in line + 1 .. n - 1, NEW k \in line + 1 .. n - 1, j < k
          PROVE  PositionFromPartition(q, j) < PositionFromPartition(q, k)
        <3>1. PositionFromPartition(p, j) < PositionFromPartition(p, k)
            BY <2>1, <2>7, <1>1 DEF Lists
        <3>2. PositionFromPartition(p, j) \in Int /\ PositionFromPartition(p, k) \in Int
            BY <2>1, <1>1
        <3> QED BY <3>1, <3>2, <2>2
    <2> HIDE DEF L
    <2> QED BY <2>5, <2>6, <2>7 DEF Lists
<1>7. /\ PositionFromPartition(q, 0) = 0 /\ PositionFromPartition(q, n) = end + d
      /\ line + 1 \in 1 .. n /\ (line + 1) - 1 = line /\ q.step <= line + 1
    <2>1. 0 \in 0 .. n /\ ~(0 > line) /\ n \in 0 .. n /\ n > line
        BY <1>1, <1>2
    <2>2. PositionFromPartition(q, 0) = PositionFromPartition(p, 0) + 0
        BY <2>1, <1>3
    <2>3. PositionFromPartition(q, n) = PositionFromPartition(p, n) + d
        BY <2>1, <1>3
    <2>4. line + 1 \in 1 .. n /\ (line + 1) - 1 = line /\ q.step <= line + 1
        BY <1>1, <1>2, <1>3
    <2> QED BY <2>2, <2>3, <2>4, <1>1
<1> QED BY <1>3, <1>4, <1>5, <1>6, <1>7 DEF Splits, GrownAt, q, n

LEMMA SplitsJoin ==
    ASSUME NEW p, NEW m, NEW F, NEW B, NEW end, Splits(p, m, F, B, end),
           F \subseteq Int, B \subseteq Int, \A e \in F, f \in B : e < f
    PROVE  IndexOf(p, F \cup B, end)
<1> DEFINE n == Partitions(p)
<1>1. /\ n \in Nat \ {0} /\ m \in 1 .. n
      /\ Lists(p, 1, m - 1, F) /\ Lists(p, m, n - 1, B)
    BY PlaceIsNumber DEF Splits
<1> HIDE DEF n
<1>2. /\ \A j \in 1 .. n - 1 : j \in 1 .. m - 1 \/ j \in m .. n - 1
      /\ \A j \in 1 .. m - 1 : j \in 1 .. n - 1
      /\ \A j \in m .. n - 1 : j \in 1 .. n - 1
      /\ \A j \in 1 .. m - 1, k \in m .. n - 1 : ~(k < j)
    BY <1>1
<1>3. \A j \in 1 .. n - 1 : PositionFromPartition(p, j) \in F \cup B
    BY <1>1, <1>2 DEF Lists
<1>4. \A e \in F \cup B : \E j \in 1 .. n - 1 : PositionFromPartition(p, j) = e
    BY <1>1, <1>2 DEF Lists
<1>5. \A j, k \in 1 .. n - 1 : j < k => PositionFromPartition(p, j) < PositionFromPartition(p, k)
    BY <1>1, <1>2 DEF Lists
<1> QED BY <1>3, <1>4, <1>5 DEF Lists, IndexOf, Splits, n

(***************************************************************************)
(* Texts that are cut.                                                     *)
(***************************************************************************)

LEMMA CutIs ==
    ASSUME NEW C, NEW t \in Seq(C), NEW a \in Nat, NEW b \in Nat, a <= b, b <= Len(t)
    PROVE  /\ SubSeq(t, a + 1, b) \in Seq(C) /\ Len(SubSeq(t, a + 1, b)) = b - a
           /\ \A i \in 1 .. b - a : SubSeq(t, a + 1, b)[i] = t[a + i]
OBVIOUS

LEMMA CutInTwo ==
    ASSUME NEW C, NEW t \in Seq(C), NEW k \in 0 .. Len(t)
    PROVE  /\ SubSeq(t, 1, k) \in Seq(C) /\ Len(SubSeq(t, 1, k)) = k
           /\ \A i \in 1 .. k : SubSeq(t, 1, k)[i] = t[i]
           /\ SubSeq(t, k + 1, Len(t)) \in Seq(C) /\ Len(SubSeq(t, k + 1, Len(t))) = Len(t) - k
           /\ \A i \in 1 .. Len(t) - k : SubSeq(t, k + 1, Len(t))[i] = t[k + i]
           /\ t = SubSeq(t, 1, k) \o SubSeq(t, k + 1, Len(t))
<1> DEFINE u == SubSeq(t, 1, k)
           v == SubSeq(t, k + 1, Len(t))
<1>1. Len(t) \in Nat /\ k \in Nat /\ k <= Len(t)
    BY LenProperties
<1>2. u \in Seq(C) /\ Len(u) = k /\ \A i \in 1 .. k : u[i] = t[i]
    <2>1. 0 + 1 = 1 /\ k - 0 = k /\ 0 \in Nat /\ 0 <= k
        BY <1>1
    <2> HIDE DEF u
    <2>2. /\ SubSeq(t, 0 + 1, k) \in Seq(C) /\ Len(SubSeq(t, 0 + 1, k)) = k - 0
          /\ \A i \in 1 .. k - 0 : SubSeq(t, 0 + 1, k)[i] = t[0 + i]
        BY <1>1, <2>1, CutIs
    <2>3. \A i \in 1 .. k : 0 + i = i
        BY <1>1
    <2> QED BY <2>1, <2>2, <2>3 DEF u
<1>3. v \in Seq(C) /\ Len(v) = Len(t) - k /\ \A i \in 1 .. Len(t) - k : v[i] = t[k + i]
    BY <1>1, CutIs
<1> HIDE DEF u, v
<1>4. /\ u \o v \in Seq(C) /\ Len(u \o v) = Len(t)
      /\ \A i \in 1 .. k : (u \o v)[i] = u[i]
      /\ \A i \in k + 1 .. Len(t) : (u \o v)[i] = v[i - k]
    <2>1. k + (Len(t) - k) = Len(t)
        BY <1>1
    <2>2. /\ u \o v \in Seq(C) /\ Len(u \o v) = Len(u) + Len(v)
          /\ \A i \in 1 .. Len(u) : (u \o v)[i] = u[i]
          /\ \A i \in Len(u) + 1 .. Len(u) + Len(v) : (u \o v)[i] = v[i - Len(u)]
        BY <1>2, <1>3, JoinIs
    <2>3. Len(u) = k /\ Len(u) + Len(v) = Len(t)
        BY <2>1, <1>2, <1>3
    <2> QED BY <2>2, <2>3
<1>5. ASSUME NEW i \in 1 .. Len(t)
      PROVE  (u \o v)[i] = t[i]
    <2>1. CASE i <= k
        BY <2>1, <1>1, <1>2, <1>4
    <2>2. CASE ~(i <= k)
        <3>1. i \in k + 1 .. Len(t) /\ i - k \in 1 .. Len(t) - k /\ k + (i - k) = i
            BY <2>2, <1>1
        <3> QED BY <3>1, <1>3, <1>4
    <2> QED BY <2>1, <2>2
<1>6. t = u \o v
    <2> DEFINE w == u \o v
    <2>1. w \in Seq(C) /\ Len(w) = Len(t) /\ \A i \in 1 .. Len(t) : w[i] = t[i]
        BY <1>4, <1>5
    <2> HIDE DEF w
    <2>2. t = w
        BY <2>1, SeqEqual
    <2> QED BY <2>2 DEF w
<1> QED BY <1>2, <1>3, <1>6 DEF u, v

\* The breaks of t, which is u of length k and v, before k and after it.
CutBreaks(t, k, u, v) ==
    /\ {e \in LineBreaks(t) : e > k} = Shifted(LineBreaks(v), k)
    /\ {e \in LineBreaks(t) : e <= k} = LineBreaks(u) \ (IF Pair(u, v) THEN {k} ELSE {})
    /\ Pair(u, v) <=> SplitsPair(t, k)
    /\ CharAt(u, k - 1) = CharAt(t, k - 1)
    /\ CharAt(v, 0) = CharAt(t, k)

LEMMA BreaksCut ==
    ASSUME NEW C, NEW t \in Seq(C), NEW k \in 0 .. Len(t),
           NEW u, u = SubSeq(t, 1, k), NEW v, v = SubSeq(t, k + 1, Len(t))
    PROVE  CutBreaks(t, k, u, v)
<1>1. Len(t) \in Nat /\ k \in Nat /\ k <= Len(t)
    BY LenProperties
<1>2. /\ u \in Seq(C) /\ Len(u) = k /\ \A i \in 1 .. k : u[i] = t[i]
      /\ v \in Seq(C) /\ Len(v) = Len(t) - k /\ \A i \in 1 .. Len(t) - k : v[i] = t[k + i]
      /\ t = u \o v
    BY CutInTwo, ZenonT(60)
<1>3. LineBreaks(t) = BreaksOfBoth(u, v)
    BY <1>2, BreaksJoin
<1>4. LineBreaks(u) \subseteq 1 .. k /\ LineBreaks(v) \subseteq 1 .. Len(t) - k
    BY <1>2, BreaksBounded
<1>5. \A e \in Shifted(LineBreaks(v), k) : e > k /\ ~(e <= k)
    BY <1>1, <1>4 DEF Shifted
<1>6. \A e \in LineBreaks(u) : e <= k /\ ~(e > k)
    BY <1>1, <1>4
<1>7. /\ {e \in LineBreaks(t) : e > k} = Shifted(LineBreaks(v), k)
      /\ {e \in LineBreaks(t) : e <= k} = LineBreaks(u) \ (IF Pair(u, v) THEN {k} ELSE {})
    BY <1>2, <1>3, <1>5, <1>6 DEF BreaksOfBoth
<1>8. CharAt(u, k - 1) = CharAt(t, k - 1)
    <2>1. CASE k = 0
        BY <2>1, <1>1, <1>2 DEF CharAt
    <2>2. CASE k # 0
        <3>1. k - 1 \in 0 .. k - 1 /\ k - 1 \in 0 .. Len(t) - 1 /\ (k - 1) + 1 = k /\ k \in 1 .. k
            BY <2>2, <1>1
        <3> QED BY <3>1, <1>2 DEF CharAt
    <2> QED BY <2>1, <2>2
<1>9. CharAt(v, 0) = CharAt(t, k)
    <2> DEFINE n == Len(t)
    <2>0. n \in Nat /\ k \in Nat /\ k <= n /\ Len(v) = n - k /\ \A i \in 1 .. n - k : v[i] = t[k + i]
        BY <1>1, <1>2
    <2> HIDE DEF n
    <2>1. CASE k = n
        <3>1. 0 \notin 0 .. Len(v) - 1 /\ k \notin 0 .. n - 1
            BY <2>0, <2>1
        <3> QED BY <3>1 DEF CharAt, n
    <2>2. CASE k # n
        <3>1. 0 \in 0 .. Len(v) - 1 /\ k \in 0 .. n - 1 /\ 1 \in 1 .. n - k
            BY <2>0, <2>2
        <3>2. v[1] = t[k + 1]
            BY <3>1, <2>0
        <3>3. CharAt(v, 0) = v[0 + 1] /\ CharAt(t, k) = t[k + 1] /\ 0 + 1 = 1
            BY <3>1 DEF CharAt, n
        <3> QED BY <3>2, <3>3
    <2> QED BY <2>1, <2>2
<1> QED BY <1>2, <1>7, <1>8, <1>9 DEF Pair, SplitsPair, CutBreaks

\* w has one character more than u, which has k.
Grows(u, w, k, ch) ==
    /\ CharAt(u, k - 1) = CR /\ ch = LF => LineBreaks(w) = (LineBreaks(u) \ {k}) \cup {k + 1}
    /\ ~(CharAt(u, k - 1) = CR /\ ch = LF) /\ ch \in {CR, LF} =>
           LineBreaks(w) = LineBreaks(u) \cup {k + 1}
    /\ ch \notin {CR, LF} => LineBreaks(w) = LineBreaks(u)
    /\ CharAt(w, k) = ch
    /\ Len(w) = k + 1 /\ Len(u) = k

LEMMA BreaksGrow ==
    ASSUME NEW C, NEW t \in Seq(C), NEW k \in 0 .. Len(t) - 1,
           NEW u, u = SubSeq(t, 1, k), NEW w, w = SubSeq(t, 1, k + 1), NEW ch, ch = t[k + 1]
    PROVE  Grows(u, w, k, ch) /\ u \in Seq(C) /\ w \in Seq(C)
<1>1. Len(t) \in Nat /\ k \in Nat /\ k + 1 \in Nat /\ k + 1 <= Len(t) /\ k \in 0 .. Len(t)
      /\ k + 1 \in 0 .. Len(t)
    BY LenProperties
<1>2. u \in Seq(C) /\ Len(u) = k /\ \A i \in 1 .. k : u[i] = t[i]
    BY <1>1, CutInTwo
<1>3. w \in Seq(C) /\ Len(w) = k + 1 /\ \A i \in 1 .. k + 1 : w[i] = t[i]
    BY <1>1, CutInTwo
<1>4. ch \in C
    <2>1. k + 1 \in 1 .. Len(t)
        BY <1>1
    <2> QED BY <2>1, ElementOfSeq
<1>5. w = u \o <<ch>>
    <2> DEFINE x == u \o <<ch>>
    <2>1. <<ch>> \in Seq(C) /\ Len(<<ch>>) = 1 /\ <<ch>>[1] = ch
        BY <1>4
    <2>2. /\ x \in Seq(C) /\ Len(x) = k + 1
          /\ \A i \in 1 .. k : x[i] = u[i]
          /\ \A i \in k + 1 .. k + 1 : x[i] = <<ch>>[i - k]
        BY <1>2, <2>1, JoinIs
    <2> HIDE DEF x
    <2>3. ASSUME NEW i \in 1 .. k + 1
          PROVE  x[i] = w[i]
        <3>1. CASE i <= k
            BY <3>1, <1>1, <1>2, <1>3, <2>2
        <3>2. CASE ~(i <= k)
            <4>1. i = k + 1 /\ i - k = 1 /\ i \in k + 1 .. k + 1
                BY <3>2, <1>1
            <4> QED BY <4>1, <1>3, <2>1, <2>2
        <3> QED BY <3>1, <3>2
    <2>4. x = w
        BY <1>3, <2>2, <2>3, SeqEqual
    <2> QED BY <2>4 DEF x
<1>6. LineBreaks(w) = BreaksOfBoth(u, <<ch>>)
    <2> DEFINE one == <<ch>>
    <2>1. one \in Seq(C) /\ w = u \o one
        BY <1>4, <1>5
    <2> HIDE DEF one
    <2>2. LineBreaks(u \o one) = BreaksOfBoth(u, one)
        BY <2>1, <1>2, BreaksJoin
    <2> QED BY <2>1, <2>2 DEF one
<1>7. Pair(u, <<ch>>) <=> CharAt(u, k - 1) = CR /\ ch = LF
    BY <1>2 DEF Pair, CharAt
<1>8. /\ ch \in {CR, LF} => Shifted(LineBreaks(<<ch>>), k) = {k + 1}
      /\ ch \notin {CR, LF} => Shifted(LineBreaks(<<ch>>), k) = {}
    <2>1. 1 + k = k + 1
        BY <1>1
    <2> QED BY <2>1, BreaksOfOne DEF Shifted
<1>9. CharAt(w, k) = ch
    <2>1. k \in 0 .. Len(w) - 1 /\ k + 1 \in 1 .. k + 1
        BY <1>1, <1>3
    <2> QED BY <2>1, <1>3 DEF CharAt
<1>10. /\ CharAt(u, k - 1) = CR /\ ch = LF => LineBreaks(w) = (LineBreaks(u) \ {k}) \cup {k + 1}
       /\ ~(CharAt(u, k - 1) = CR /\ ch = LF) /\ ch \in {CR, LF} =>
              LineBreaks(w) = LineBreaks(u) \cup {k + 1}
       /\ ch \notin {CR, LF} => LineBreaks(w) = LineBreaks(u)
    BY <1>2, <1>6, <1>7, <1>8 DEF BreaksOfBoth
<1> QED BY <1>2, <1>3, <1>9, <1>10 DEF Grows

(***************************************************************************)
(* Adjusting the index.                                                    *)
(***************************************************************************)

\* A record of the right fields, with its marker on a line.
AreLines(l) ==
    /\ l = [starts |-> l.starts, marker |-> l.marker]
    /\ l.marker \in -1 .. Partitions(l.starts) - 1

\* The lines up to `line' are as they were when there were n; no later one starts
\* before pos.
Beyond(p, n, line, pos) ==
    /\ Partitions(p) >= n
    /\ \A j \in line + 1 .. Partitions(p) : PositionFromPartition(p, j) >= pos

\* What the m-th line is the first after the last break that was looked at.
LEMMA LastBreak ==
    ASSUME NEW p, NEW m, NEW F, NEW B, NEW end, Splits(p, m, F, B, end), F \subseteq Int,
           NEW e \in F, \A f \in F : f <= e
    PROVE  m > 1 /\ PositionFromPartition(p, m - 1) = e
<1>1. m \in Int /\ 1 <= m /\ Lists(p, 1, m - 1, F)
    BY PlaceIsNumber DEF Splits
<1>2. PICK k \in 1 .. m - 1 : PositionFromPartition(p, k) = e
    BY <1>1 DEF Lists
<1>3. m - 1 \in 1 .. m - 1 /\ m > 1
    BY <1>1, <1>2
<1>4. CASE k = m - 1
    BY <1>2, <1>3, <1>4
<1>5. CASE k # m - 1
    <2>1. k < m - 1
        BY <1>1, <1>5
    <2>2. e < PositionFromPartition(p, m - 1)
        BY <1>1, <1>2, <1>3, <2>1 DEF Lists
    <2>3. PositionFromPartition(p, m - 1) \in F
        BY <1>1, <1>3 DEF Lists
    <2>4. PositionFromPartition(p, m - 1) <= e /\ PositionFromPartition(p, m - 1) \in Int /\ e \in Int
        BY <2>3
    <2> QED BY <2>2, <2>4
<1> QED BY <1>4, <1>5

LEMMA BeyondInsert ==
    ASSUME NEW p, WellFormed(p), NEW n \in Int, NEW line \in Nat, NEW pos \in Int,
           Beyond(p, n, line, pos), NEW k \in 0 .. Partitions(p), line < k, NEW b \in Int, pos <= b
    PROVE  /\ Beyond(InsertPartition(p, k, b), n + 1, line, pos)
           /\ Partitions(InsertPartition(p, k, b)) = Partitions(p) + 1
<1> DEFINE q == InsertPartition(p, k, b)
           z == Partitions(p)
<1>1. z \in Nat \ {0} /\ z = Len(p.body) - 1
    BY PlaceIsNumber
<1>2. /\ WellFormed(q) /\ Len(q.body) = Len(p.body) + 1
      /\ \A j \in Bounds(q) :
             PositionFromPartition(q, j) =
                 IF j < k THEN PositionFromPartition(p, j)
                 ELSE IF j = k THEN b
                 ELSE PositionFromPartition(p, j - 1)
    <2> HIDE DEF q
    <2> QED BY InsertPartitionShifts DEF q
<1> HIDE DEF q
<1>3. Partitions(q) = z + 1 /\ Bounds(q) = 0 .. z + 1
    BY <1>1, <1>2, PlaceIsNumber
<1>4. z >= n /\ \A j \in line + 1 .. z : PositionFromPartition(p, j) >= pos
    BY DEF Beyond
<1>5. k \in 0 .. z
    OBVIOUS
<1> HIDE DEF z
<1>6. ASSUME NEW j \in line + 1 .. z + 1
      PROVE  PositionFromPartition(q, j) >= pos
    <2>0. j \in 0 .. z + 1
        BY <1>1
    <2>1. CASE j < k
        <3>1. j \in line + 1 .. z
            BY <2>1, <1>1, <1>5
        <3> QED BY <2>0, <2>1, <3>1, <1>2, <1>3, <1>4
    <2>2. CASE j = k
        BY <2>0, <2>2, <1>2, <1>3
    <2>3. CASE j > k
        <3>1. j - 1 \in line + 1 .. z /\ ~(j < k) /\ j # k
            BY <2>3, <1>1, <1>5
        <3> QED BY <2>0, <3>1, <1>2, <1>3, <1>4
    <2> QED BY <2>1, <2>2, <2>3, <1>5
<1>7. z + 1 >= n + 1
    BY <1>1, <1>4
<1>8. Beyond(q, n + 1, line, pos)
    BY <1>3, <1>6, <1>7 DEF Beyond
<1> QED BY <1>3, <1>8 DEF q, z

LEMMA BeyondSet ==
    ASSUME NEW p, WellFormed(p), NEW n \in Int, NEW line \in Nat, NEW pos \in Int,
           Beyond(p, n, line, pos), NEW k \in 0 .. Partitions(p), NEW b \in Int, pos <= b,
           p.step <= k + 1
    PROVE  /\ Beyond(SetPartitionStartPosition(p, k, b), n, line, pos)
           /\ Partitions(SetPartitionStartPosition(p, k, b)) = Partitions(p)
<1> DEFINE q == SetPartitionStartPosition(p, k, b)
           z == Partitions(p)
<1>1. z \in Nat \ {0} /\ z = Len(p.body) - 1 /\ Bounds(p) = 0 .. z
    BY PlaceIsNumber
<1>2. /\ WellFormed(q) /\ Len(q.body) = Len(p.body)
      /\ \A j \in Bounds(p) :
             PositionFromPartition(q, j) = IF j = k THEN b ELSE PositionFromPartition(p, j)
    <2> HIDE DEF q
    <2> QED BY SetPartitionStartSets DEF q
<1> HIDE DEF q
<1>3. Partitions(q) = z
    BY <1>1, <1>2, PlaceIsNumber
<1>4. z >= n /\ \A j \in line + 1 .. z : PositionFromPartition(p, j) >= pos
    BY DEF Beyond
<1> HIDE DEF z
<1>5. ASSUME NEW j \in line + 1 .. z
      PROVE  PositionFromPartition(q, j) >= pos
    <2>1. j \in 0 .. z
        BY <1>1
    <2> QED BY <2>1, <1>1, <1>2, <1>4
<1> QED BY <1>3, <1>4, <1>5 DEF Beyond, q, z

\* A line that goes is one less, and the later ones move up.
LEMMA BeyondRemove ==
    ASSUME NEW p, WellFormed(p), NEW n \in Int, NEW line \in Nat, NEW pos \in Int,
           Beyond(p, n + 1, line, pos), NEW k \in 0 .. Partitions(p), line <= k,
           Partitions(p) > 1
    PROVE  /\ Beyond(RemovePartition(p, k), n, line, pos)
           /\ Partitions(RemovePartition(p, k)) = Partitions(p) - 1
<1> DEFINE q == RemovePartition(p, k)
           z == Partitions(p)
<1>1. z \in Nat \ {0} /\ z = Len(p.body) - 1 /\ Bounds(p) = 0 .. z
    BY PlaceIsNumber
<1>2. /\ WellFormed(q) /\ Len(q.body) = Len(p.body) - 1
      /\ \A j \in Bounds(q) :
             PositionFromPartition(q, j) =
                 IF j < k THEN PositionFromPartition(p, j) ELSE PositionFromPartition(p, j + 1)
    <2> HIDE DEF q
    <2> QED BY RemovePartitionShifts DEF q
<1> HIDE DEF q
<1>3. Partitions(q) = z - 1 /\ Bounds(q) = 0 .. z - 1
    BY <1>1, <1>2, PlaceIsNumber
<1>4. z >= n + 1 /\ \A j \in line + 1 .. z : PositionFromPartition(p, j) >= pos
    BY DEF Beyond
<1> HIDE DEF z
<1>5. ASSUME NEW j \in line + 1 .. z - 1
      PROVE  PositionFromPartition(q, j) >= pos
    <2>1. j \in 0 .. z - 1 /\ j \in line + 1 .. z /\ j + 1 \in line + 1 .. z
        BY <1>1
    <2> QED BY <2>1, <1>2, <1>3, <1>4
<1>6. z - 1 >= n
    BY <1>1, <1>4
<1> QED BY <1>3, <1>5, <1>6 DEF Beyond, q, z

(***************************************************************************)
(* BasicInsertString: the index is that of the text up to the last         *)
(* character that was looked at, followed by the lines still to come.      *)
(***************************************************************************)

\* Of what is inserted at pos in line number `line' of n, u ends with the last
\* character looked at; B are the starts of the later lines, and end is the end.
Reached(acc, u, B, end, n, line, pos) ==
    /\ acc = [lines |-> acc.lines, next |-> acc.next, prev |-> acc.prev]
    /\ AreLines(acc.lines)
    /\ Splits(acc.lines.starts, acc.next, LineBreaks(u), B, end)
    /\ acc.prev = CharAt(u, Len(u) - 1)
    /\ line < acc.next
    /\ Beyond(acc.lines.starts, n, line, pos)
    /\ acc.prev = CR /\ Len(u) > pos => Beyond(acc.lines.starts, n + 1, line, pos)

LEMMA MarkerPushed ==
    ASSUME NEW l, AreLines(l), WellFormed(l.starts), NEW line \in 1 .. Partitions(l.starts),
           NEW b \in Int, NEW lineStart,
           Partitions(InsertPartition(l.starts, line, b)) = Partitions(l.starts) + 1
    PROVE  /\ AreLines(InsertLine(l, line, b, lineStart))
           /\ InsertLine(l, line, b, lineStart).starts = InsertPartition(l.starts, line, b)
<1>1. Partitions(l.starts) \in Nat /\ l.marker \in Int
    BY PlaceIsNumber DEF AreLines
<1> QED BY <1>1 DEF AreLines, InsertLine

LEMMA MarkerPulled ==
    ASSUME NEW l, AreLines(l), WellFormed(l.starts), NEW line \in 1 .. Partitions(l.starts) - 1,
           Partitions(RemovePartition(l.starts, line)) = Partitions(l.starts) - 1
    PROVE  /\ AreLines(RemoveLine(l, line))
           /\ RemoveLine(l, line).starts = RemovePartition(l.starts, line)
<1>1. Partitions(l.starts) \in Nat /\ l.marker \in Int
    BY PlaceIsNumber DEF AreLines
<1> QED BY <1>1 DEF AreLines, RemoveLine

LEMMA MarkerStays ==
    ASSUME NEW l, AreLines(l), NEW q, Partitions(q) = Partitions(l.starts)
    PROVE  LET m == [l EXCEPT !.starts = q]
           IN  AreLines(m) /\ m.starts = q /\ m.marker = l.marker
BY DEF AreLines

LEMMA ScanKeeps ==
    ASSUME NEW C, NEW t \in Seq(C), NEW k \in 0 .. Len(t) - 1,
           NEW u, u = SubSeq(t, 1, k), NEW w, w = SubSeq(t, 1, k + 1), NEW ch, ch = t[k + 1],
           NEW B, NEW end, NEW n \in Int, NEW line \in Nat, NEW pos \in Nat, pos <= k,
           NEW acc, Reached(acc, u, B, end, n, line, pos), NEW lineStart
    PROVE  Reached(ScanInserted(acc, ch, k + 1, lineStart), w, B, end, n, line, pos)
<1> DEFINE p == acc.lines.starts
           m == acc.next
           F == LineBreaks(u)
           next == ScanInserted(acc, ch, k + 1, lineStart)
<1>1. /\ acc = [lines |-> acc.lines, next |-> acc.next, prev |-> acc.prev]
      /\ AreLines(acc.lines) /\ Splits(p, m, F, B, end) /\ line < m /\ Beyond(p, n, line, pos)
    BY DEF Reached
<1>0. Grows(u, w, k, ch) /\ u \in Seq(C)
    BY BreaksGrow, Zenon
<1>2. /\ Len(w) = k + 1 /\ Len(u) = k /\ CharAt(w, k) = ch /\ u \in Seq(C)
      /\ acc.prev = CharAt(u, k - 1)
    BY <1>0 DEF Reached, Grows
<1>3. Len(t) \in Nat /\ k \in Nat /\ k + 1 \in Nat /\ pos <= k + 1 /\ k + 1 > pos /\ (k + 1) - 1 = k
    BY LenProperties
<1>4. F \subseteq 1 .. k
    BY <1>2, BreaksBounded
<1>5. /\ WellFormed(p) /\ m \in 1 .. Partitions(p) /\ m \in Int /\ p.step <= m
      /\ Partitions(p) \in Nat
    BY <1>1, PlaceIsNumber DEF Splits
<1>6. /\ acc.prev = CR /\ ch = LF => LineBreaks(w) = (F \ {k}) \cup {k + 1}
      /\ ~(acc.prev = CR /\ ch = LF) /\ ch \in {CR, LF} => LineBreaks(w) = F \cup {k + 1}
      /\ ch \notin {CR, LF} => LineBreaks(w) = F
    BY <1>0, <1>2 DEF Grows
<1>7. CR # LF
    BY DEF CR, LF
<1> HIDE DEF F, p
<1>71. ch = CharAt(w, Len(w) - 1) /\ Len(w) > pos
    BY <1>2, <1>3
<1>8. CASE ch = LF /\ acc.prev = CR
    <2> DEFINE q == SetPartitionStartPosition(p, m - 1, k + 1)
    <2>1. next = [acc EXCEPT !.lines = SetLineStart(@, m - 1, k + 1), !.prev = ch]
        BY <1>8 DEF ScanInserted
    <2>2. /\ next = [lines |-> SetLineStart(acc.lines, m - 1, k + 1), next |-> m, prev |-> ch]
        BY <1>1, <2>1
    <2>3. SetLineStart(acc.lines, m - 1, k + 1) = [acc.lines EXCEPT !.starts = q]
        BY <1>1 DEF SetLineStart, AreLines, p
    <2>4. k \in F /\ \A f \in F : f <= k
        <3>1. k # 0
            BY <1>2, <1>8 DEF CharAt, CR
        <3>2. CharAt(u, k - 1) = u[k] /\ k \in 1 .. Len(u) /\ CharAt(u, k) = "none"
            BY <3>1, <1>2, <1>3 DEF CharAt
        <3>3. "none" # LF
            BY DEF LF
        <3>4. k \in LineBreaks(u)
            BY <3>2, <3>3, <1>2, <1>8, BreakIs
        <3>5. \A f \in F : f <= k
            BY <1>3, <1>4
        <3> QED BY <3>4, <3>5 DEF F
    <2>5. m > 1 /\ PositionFromPartition(p, m - 1) = k
        <3>1. F \subseteq Int
            BY <1>3, <1>4
        <3> QED BY <2>4, <3>1, <1>1, LastBreak
    <2>6. Splits(q, m, (F \ {k}) \cup {k + 1}, B, end)
        <3>1. F \subseteq Int /\ \A e \in F : e # k => e < k + 1
            BY <1>3, <1>4
        <3>2. k + 1 \in Int /\ k = PositionFromPartition(p, m - 1)
            BY <1>3, <2>5
        <3> QED BY <2>5, <3>1, <3>2, <1>1, SplitsSet
    <2>7. \A x \in Int : Beyond(p, x, line, pos) =>
              Beyond(q, x, line, pos) /\ Partitions(q) = Partitions(p)
        <3> DEFINE b == k + 1
                   i == m - 1
        <3>1. /\ i \in 0 .. Partitions(p) /\ p.step <= i + 1 /\ b \in Int /\ pos <= b
              /\ pos \in Int
            BY <1>3, <1>5
        <3>2. q = SetPartitionStartPosition(p, i, b)
            OBVIOUS
        <3> HIDE DEF q, b, i
        <3> QED BY <3>1, <3>2, <1>5, BeyondSet
    <2>8. /\ AreLines(next.lines) /\ next.lines.starts = q /\ next.next = m /\ next.prev = ch
          /\ next = [lines |-> next.lines, next |-> next.next, prev |-> next.prev]
        <3>1. Partitions(q) = Partitions(acc.lines.starts)
            BY <2>7, <1>1 DEF p
        <3> HIDE DEF q, next
        <3> DEFINE l == [acc.lines EXCEPT !.starts = q]
        <3>2. AreLines(l) /\ l.starts = q
            BY <3>1, <1>1, MarkerStays
        <3>3. next = [lines |-> l, next |-> m, prev |-> ch]
            BY <2>2, <2>3
        <3> HIDE DEF l
        <3> QED BY <3>2, <3>3
    <2> HIDE DEF q
    <2>9. Splits(q, m, LineBreaks(w), B, end)
        BY <2>6, <1>6, <1>8
    <2> HIDE DEF next, m
    <2>10. Beyond(q, n, line, pos)
        BY <2>7, <1>1
    <2>11. Reached(next, w, B, end, n, line, pos)
        BY <2>8, <2>9, <2>10, <1>1, <1>7, <1>71, <1>8 DEF Reached
    <2> QED BY <2>11 DEF next
<1>9. CASE ~(ch = LF /\ acc.prev = CR) /\ ch \in {CR, LF}
    <2> DEFINE q == InsertPartition(p, m, k + 1)
               l == InsertLine(acc.lines, m, k + 1, lineStart)
    <2>1. next = [lines |-> l, next |-> m + 1, prev |-> ch]
        BY <1>9 DEF ScanInserted
    <2>2. Splits(q, m + 1, F \cup {k + 1}, B, end)
        <3>1. k + 1 \in Int /\ \A e \in F : e < k + 1
            BY <1>3, <1>4
        <3> QED BY <3>1, <1>1, SplitsInsert
    <2>3. Beyond(q, n + 1, line, pos) /\ Partitions(q) = Partitions(p) + 1
        <3> DEFINE b == k + 1
        <3>1. m \in 0 .. Partitions(p) /\ line < m /\ b \in Int /\ pos <= b /\ pos \in Int
            BY <1>1, <1>3, <1>5
        <3>2. q = InsertPartition(p, m, b)
            OBVIOUS
        <3> HIDE DEF q, b, m
        <3> QED BY <3>1, <3>2, <1>1, <1>5, BeyondInsert
    <2>4. AreLines(l) /\ l.starts = q
        <3>1. k + 1 \in Int /\ Partitions(InsertPartition(acc.lines.starts, m, k + 1)) = Partitions(acc.lines.starts) + 1
            BY <2>3, <1>3 DEF p
        <3>2. WellFormed(acc.lines.starts) /\ m \in 1 .. Partitions(acc.lines.starts)
            BY <1>5 DEF p
        <3> HIDE DEF m
        <3> QED BY <3>1, <3>2, <1>1, MarkerPushed DEF p
    <2> HIDE DEF q, l
    <2>5. Beyond(q, n, line, pos)
        <3>1. Partitions(q) \in Nat
            BY <2>3, <1>5
        <3> QED BY <2>3, <3>1 DEF Beyond
    <2>6. line < m + 1
        BY <1>1, <1>5
    <2>7. Splits(q, m + 1, LineBreaks(w), B, end)
        BY <2>2, <1>6, <1>9
    <2> HIDE DEF next
    <2>8. Reached(next, w, B, end, n, line, pos)
        BY <2>1, <2>3, <2>4, <2>5, <2>6, <2>7, <1>71 DEF Reached
    <2> QED BY <2>8 DEF next
<1>10. CASE ch \notin {CR, LF}
    <2>1. next = [lines |-> acc.lines, next |-> m, prev |-> ch]
        BY <1>1, <1>10 DEF ScanInserted
    <2>2. Splits(p, m, LineBreaks(w), B, end)
        BY <1>1, <1>6, <1>10
    <2> HIDE DEF next, m
    <2>3. Reached(next, w, B, end, n, line, pos)
        BY <2>1, <2>2, <1>1, <1>71, <1>10 DEF Reached, p
    <2> QED BY <2>3 DEF next
<1> QED BY <1>8, <1>9, <1>10

LEMMA ScannedIsFold ==
    ASSUME NEW l, NEW t, NEW pos, NEW s
    PROVE  LinesScanned(l, t, pos, s) =
               Scanning!Left([s |-> s, pos |-> pos, lineStart |-> StartsLine(l, pos)],
                             ScanStart(l, t, pos, Len(s)), [i \in DOMAIN s |-> i])
BY DEF LinesScanned, FoldLeftDomain, Scanning!Left, Scanning!IterLeft, FoldLeft, MapThenFoldSet,
       ScanOp, Scanning!Max, Max

\* The parts of a text into which s was inserted.
IsInserted(w, t, pos, s) ==
    /\ Len(w) = Len(t) + Len(s)
    /\ \A i \in 1 .. Len(s) : w[pos + i] = s[i]
    /\ SubSeq(w, 1, pos) = SubSeq(t, 1, pos)
    /\ SubSeq(w, pos + Len(s) + 1, Len(w)) = SubSeq(t, pos + 1, Len(t))

LEMMA InsertedIs ==
    ASSUME NEW C, NEW t \in Seq(C), NEW pos \in 0 .. Len(t), NEW s \in Seq(C)
    PROVE  Inserted(t, pos, s) \in Seq(C) /\ IsInserted(Inserted(t, pos, s), t, pos, s)
<1> DEFINE a == SubSeq(t, 1, pos)
           b == SubSeq(t, pos + 1, Len(t))
           as == a \o s
           w == as \o b
           n == Len(s)
           z == Len(t)
<1>1. n \in Nat /\ z \in Nat /\ pos \in Nat /\ pos <= z /\ pos \in Int
    BY LenProperties
<1>2. /\ a \in Seq(C) /\ Len(a) = pos /\ b \in Seq(C) /\ Len(b) = z - pos
    BY CutInTwo
<1>3. w = Inserted(t, pos, s)
    BY DEF Inserted
<1> HIDE DEF a, b
<1>4. /\ as \in Seq(C) /\ Len(as) = Len(a) + Len(s)
      /\ \A i \in 1 .. Len(a) : as[i] = a[i]
      /\ \A i \in Len(a) + 1 .. Len(a) + Len(s) : as[i] = s[i - Len(a)]
    BY <1>2, JoinIs
<1> HIDE DEF as
<1>5. /\ w \in Seq(C) /\ Len(w) = Len(as) + Len(b)
      /\ \A i \in 1 .. Len(as) : w[i] = as[i]
      /\ \A i \in Len(as) + 1 .. Len(as) + Len(b) : w[i] = b[i - Len(as)]
    <2>1. as \in Seq(C) /\ b \in Seq(C)
        BY <1>2, <1>4
    <2> QED BY <2>1, JoinIs
<1> HIDE DEF w, n, z
<1>6. Len(as) = pos + n /\ Len(w) = z + n
    <2>1. Len(as) = pos + n
        BY <1>2, <1>4 DEF n
    <2>2. (pos + n) + (z - pos) = z + n
        BY <1>1
    <2> QED BY <2>1, <2>2, <1>2, <1>5
<1>7. ASSUME NEW i \in 1 .. n
      PROVE  w[pos + i] = s[i]
    <2>1. pos + i \in 1 .. pos + n /\ pos + i \in pos + 1 .. pos + n /\ (pos + i) - pos = i
        BY <1>1
    <2>2. w[pos + i] = as[pos + i]
        BY <2>1, <1>5, <1>6
    <2>3. as[pos + i] = s[(pos + i) - pos]
        BY <2>1, <1>2, <1>4 DEF n
    <2> QED BY <2>1, <2>2, <2>3
<1>8. SubSeq(w, 1, pos) = a
    <2> DEFINE c == SubSeq(w, 1, pos)
    <2>1. pos \in 0 .. Len(w)
        BY <1>1, <1>6
    <2>2. c \in Seq(C) /\ Len(c) = pos /\ \A i \in 1 .. pos : c[i] = w[i]
        BY <2>1, <1>5, CutInTwo
    <2> HIDE DEF c
    <2>3. ASSUME NEW i \in 1 .. pos
          PROVE  c[i] = a[i]
        <3>1. i \in 1 .. pos + n
            BY <1>1
        <3>2. w[i] = as[i] /\ as[i] = a[i]
            BY <3>1, <1>2, <1>4, <1>5, <1>6
        <3> QED BY <3>2, <2>2
    <2>4. c = a
        BY <2>2, <2>3, <1>2, SeqEqual
    <2> QED BY <2>4 DEF c
<1>9. SubSeq(w, pos + n + 1, Len(w)) = b
    <2> DEFINE k == pos + n
               c == SubSeq(w, k + 1, Len(w))
    <2>1. k \in 0 .. Len(w) /\ k \in Nat /\ Len(w) - k = z - pos
        BY <1>1, <1>6
    <2> HIDE DEF k
    <2>2. c \in Seq(C) /\ Len(c) = Len(w) - k /\ \A i \in 1 .. Len(w) - k : c[i] = w[k + i]
        BY <2>1, <1>5, CutInTwo
    <2> HIDE DEF c
    <2>3. ASSUME NEW i \in 1 .. z - pos
          PROVE  c[i] = b[i]
        <3>1. k + i \in k + 1 .. k + (z - pos) /\ (k + i) - k = i
            BY <1>1, <2>1
        <3>2. Len(as) = k
            BY <1>6 DEF k
        <3>3. w[k + i] = b[(k + i) - k]
            BY <3>1, <3>2, <1>2, <1>5
        <3> QED BY <3>1, <3>3, <2>1, <2>2
    <2>4. c = b
        BY <2>1, <2>2, <2>3, <1>2, SeqEqual
    <2> QED BY <2>4 DEF c, k
<1> QED BY <1>3, <1>5, <1>6, <1>7, <1>8, <1>9 DEF IsInserted, a, b, n, z

\* Before the first character.
LEMMA ScanStarts ==
    ASSUME NEW C, NEW t \in Seq(C), NEW pos \in 0 .. Len(t), NEW len \in Nat,
           NEW l, AreLines(l), IndexOf(l.starts, LineBreaks(t), Len(t)),
           NEW line, line = LineFromPosition(l, pos),
           NEW u, u = SubSeq(t, 1, pos), NEW v, v = SubSeq(t, pos + 1, Len(t))
    PROVE  Reached(ScanStart(l, t, pos, len), u, Shifted(Shifted(LineBreaks(v), pos), len),
                   Len(t) + len, Partitions(l.starts), line, pos)
<1> DEFINE p == l.starts
           q == InsertText(p, line, len)
           n == Partitions(p)
           S == LineBreaks(t)
           z == Len(t)
           B == Shifted(Shifted(LineBreaks(v), pos), len)
           grown == GrowLine(l, line, len)
           start == ScanStart(l, t, pos, len)
<1>1. z \in Nat /\ pos \in Nat /\ pos <= z /\ pos \in Int /\ len \in Int
    BY LenProperties
<1>2. S \subseteq 1 .. z /\ S \subseteq Int
    BY <1>1, BreaksBounded
<1>3. IsLineAt(p, line, pos)
    BY <1>1, LineFound DEF LineFromPosition
<1>40. CutBreaks(t, pos, u, v)
    BY BreaksCut, Zenon
<1>4. /\ {e \in S : e > pos} = Shifted(LineBreaks(v), pos)
      /\ {e \in S : e <= pos} = LineBreaks(u) \ (IF Pair(u, v) THEN {pos} ELSE {})
      /\ Pair(u, v) <=> SplitsPair(t, pos)
      /\ CharAt(u, pos - 1) = CharAt(t, pos - 1)
    BY <1>40 DEF CutBreaks
<1>5. u \in Seq(C) /\ Len(u) = pos
    BY CutInTwo
<1>6. /\ Splits(q, line + 1, {e \in S : e <= pos}, B, z + len)
      /\ Partitions(q) = n
      /\ \A j \in 0 .. n :
             PositionFromPartition(q, j) = PositionFromPartition(p, j) + (IF j > line THEN len ELSE 0)
    <2> HIDE DEF S, p, q, z
    <2>1. GrownAt(p, InsertText(p, line, len), S, z, pos, line, len)
        <3>1. z \in Int /\ IndexOf(p, S, z)
            BY <1>1 DEF S, p, z
        <3> QED BY <3>1, <1>1, <1>2, <1>3, IndexSplits
    <2> QED BY <2>1, <1>4 DEF q, n, B, GrownAt
<1>7. /\ WellFormed(p) /\ n \in Nat \ {0} /\ PositionFromPartition(p, n) = z
      /\ \A j \in 0 .. n : PositionFromPartition(p, j) \in Int
      /\ line \in 0 .. n - 1 /\ line \in Nat
      /\ \A j \in line + 1 .. n - 1 : PositionFromPartition(p, j) > pos
    BY <1>3, PlaceIsNumber DEF IndexOf, IsLineAt
<1>8. AreLines(grown) /\ grown.starts = q
    <2>1. grown = [l EXCEPT !.starts = q]
        BY DEF GrowLine, AreLines
    <2> HIDE DEF q, grown
    <2> QED BY <2>1, <1>6, MarkerStays
<1> HIDE DEF q, n, S, z, grown, B
<1>9. Beyond(q, n, line, pos)
    <2>1. ASSUME NEW j \in line + 1 .. n
          PROVE  PositionFromPartition(q, j) >= pos
        <3>1. j \in 0 .. n /\ j > line
            BY <1>7
        <3>2. PositionFromPartition(q, j) = PositionFromPartition(p, j) + len
            BY <3>1, <1>6
        <3>3. CASE j = n
            BY <3>2, <3>3, <1>1, <1>7
        <3>4. CASE j # n
            <4>1. j \in line + 1 .. n - 1
                BY <3>4, <1>7
            <4>2. PositionFromPartition(p, j) > pos /\ PositionFromPartition(p, j) \in Int
                BY <4>1, <3>1, <1>7
            <4> QED BY <3>2, <4>2, <1>1
        <3> QED BY <3>3, <3>4
    <2>2. n >= n
        BY <1>7
    <2> QED BY <2>1, <2>2, <1>6 DEF Beyond
<1>10. CharAt(t, pos - 1) = CharAt(u, Len(u) - 1) /\ ~(Len(u) > pos)
    BY <1>1, <1>4, <1>5
<1>11. CASE ~SplitsPair(t, pos)
    <2>1. start = [lines |-> grown, next |-> line + 1, prev |-> CharAt(t, pos - 1)]
        BY <1>11 DEF ScanStart, grown
    <2>2. Splits(q, line + 1, LineBreaks(u), B, z + len)
        BY <1>4, <1>6, <1>11
    <2>3. line < line + 1
        BY <1>7
    <2> HIDE DEF start
    <2>4. Reached(start, u, B, z + len, n, line, pos)
        BY <2>1, <2>2, <2>3, <1>8, <1>9, <1>10 DEF Reached
    <2> QED BY <2>4 DEF start, B, z, n
<1>12. CASE SplitsPair(t, pos)
    <2> DEFINE r == InsertPartition(q, line + 1, pos)
               more == InsertLine(grown, line + 1, pos, FALSE)
    <2>1. start = [lines |-> more, next |-> line + 2, prev |-> CharAt(t, pos - 1)]
        BY <1>12 DEF ScanStart, grown
    <2>2. Splits(q, line + 1, LineBreaks(u) \ {pos}, B, z + len)
        BY <1>4, <1>6, <1>12
    <2>3. LineBreaks(u) \subseteq 1 .. pos
        BY <1>5, BreaksBounded
    <2>4. pos \in LineBreaks(u)
        <3>1. CharAt(u, pos - 1) = CR
            BY <1>4, <1>12 DEF SplitsPair
        <3>2. pos - 1 \in 0 .. Len(u) - 1 /\ pos \in 1 .. Len(u)
            <4>1. pos # 0
                BY <3>1, <1>5 DEF CharAt, CR
            <4> QED BY <4>1, <1>1, <1>5
        <3>3. u[pos] = CR /\ CharAt(u, pos) = "none" /\ "none" # LF
            BY <3>1, <3>2, <1>1, <1>5 DEF CharAt, LF
        <3> QED BY <3>2, <3>3, <1>5, BreakIs
    <2>5. Splits(r, line + 2, LineBreaks(u), B, z + len)
        <3>1. \A e \in LineBreaks(u) \ {pos} : e < pos
            BY <2>3, <1>1
        <3> DEFINE F == LineBreaks(u) \ {pos}
                   k == line + 1
        <3>2. Splits(q, k, F, B, z + len) /\ \A e \in F : e < pos
            BY <2>2, <3>1
        <3> HIDE DEF F, k
        <3>3. Splits(InsertPartition(q, k, pos), k + 1, F \cup {pos}, B, z + len)
            BY <3>2, <1>1, SplitsInsert
        <3>4. k + 1 = line + 2 /\ F \cup {pos} = LineBreaks(u)
            BY <2>4, <1>7 DEF F, k
        <3> QED BY <3>3, <3>4 DEF k
    <2>6. Beyond(r, n + 1, line, pos) /\ Partitions(r) = Partitions(q) + 1
        <3> DEFINE k == line + 1
        <3>1. WellFormed(q) /\ k \in 0 .. Partitions(q) /\ line < k /\ pos <= pos /\ n \in Int
            BY <1>1, <1>6, <1>7 DEF Splits
        <3>2. r = InsertPartition(q, k, pos)
            OBVIOUS
        <3> HIDE DEF r, k
        <3> QED BY <3>1, <3>2, <1>1, <1>7, <1>9, BeyondInsert
    <2>7. Beyond(r, n, line, pos)
        <3>1. Partitions(r) \in Nat /\ Partitions(r) >= n + 1
            <4>1. Partitions(r) = n + 1
                BY <2>6, <1>6
            <4> QED BY <4>1, <1>7
        <3>2. Partitions(r) >= n
            BY <3>1, <1>7
        <3> QED BY <2>6, <3>2 DEF Beyond
    <2>8. AreLines(more) /\ more.starts = r
        <3> DEFINE k == line + 1
        <3>1. k \in 1 .. Partitions(grown.starts) /\ WellFormed(grown.starts)
            BY <1>6, <1>7, <1>8 DEF Splits
        <3>2. Partitions(InsertPartition(grown.starts, k, pos)) = Partitions(grown.starts) + 1
            BY <2>6, <1>8
        <3> HIDE DEF k
        <3>3. AreLines(InsertLine(grown, k, pos, FALSE))
              /\ InsertLine(grown, k, pos, FALSE).starts = InsertPartition(grown.starts, k, pos)
            BY <3>1, <3>2, <1>1, <1>8, MarkerPushed
        <3> QED BY <3>3, <1>8 DEF k
    <2>9. line < line + 2
        BY <1>7
    <2> HIDE DEF start, r, more
    <2>10. Reached(start, u, B, z + len, n, line, pos)
        BY <2>1, <2>5, <2>7, <2>8, <2>9, <1>10 DEF Reached
    <2> QED BY <2>10 DEF start, B, z, n
<1> QED BY <1>11, <1>12

\* After the last one, u and v being the text up to there and after it.
ScanEnded(done, l, t, pos, s, line, u, v, w) ==
    /\ Reached(done, u, Shifted(LineBreaks(v), pos + Len(s)),
               Len(t) + Len(s), Partitions(l.starts), line, pos)
    /\ CharAt(u, Len(u) - 1) = Last(s)
    /\ CharAt(v, 0) = CharAt(t, pos)
    /\ w = u \o v /\ Len(u) = pos + Len(s) /\ Len(w) = Len(t) + Len(s)

LEMMA ScanEnds ==
    ASSUME NEW C, NEW t \in Seq(C), NEW pos \in 0 .. Len(t), NEW s \in Seq(C), Len(s) > 0,
           NEW l, AreLines(l), IndexOf(l.starts, LineBreaks(t), Len(t)),
           NEW line, line = LineFromPosition(l, pos),
           NEW w, w = Inserted(t, pos, s), NEW u, u = SubSeq(w, 1, pos + Len(s)),
           NEW v, v = SubSeq(t, pos + 1, Len(t))
    PROVE  ScanEnded(LinesScanned(l, t, pos, s), l, t, pos, s, line, u, v, w)
           /\ u \in Seq(C) /\ v \in Seq(C)
<1> DEFINE n == Len(s)
           z == Len(t)
           B == Shifted(LineBreaks(v), pos + n)
           old == Partitions(l.starts)
           c == [s |-> s, pos |-> pos, lineStart |-> StartsLine(l, pos)]
           start == ScanStart(l, t, pos, n)
           seq == [i \in DOMAIN s |-> i]
           U(i) == SubSeq(w, 1, pos + i)
<1>1. n \in Nat /\ n > 0 /\ z \in Nat /\ pos \in Nat /\ pos <= z /\ DOMAIN s = 1 .. n
    BY LenProperties
<1>2. w \in Seq(C) /\ IsInserted(w, t, pos, s)
    BY InsertedIs
<1>3. Len(w) = z + n /\ SubSeq(w, 1, pos) = SubSeq(t, 1, pos)
      /\ SubSeq(w, pos + n + 1, Len(w)) = v /\ \A i \in 1 .. n : w[pos + i] = s[i]
    BY <1>2 DEF IsInserted
<1>30. Len(w) = z + n
    BY <1>3
<1>4. B = Shifted(Shifted(LineBreaks(v), pos), n)
    <2>1. v \in Seq(C)
        BY CutInTwo
    <2>2. LineBreaks(v) \subseteq 1 .. Len(v)
        BY <2>1, BreaksBounded
    <2>3. \A e \in LineBreaks(v) : e + (pos + n) = (e + pos) + n
        <3> HIDE DEF n
        <3>1. \A e \in 1 .. Len(v) : e + (pos + n) = (e + pos) + n
            BY <1>1
        <3> QED BY <3>1, <2>2
    <2> QED BY <2>3 DEF Shifted
<1>5. Reached(start, U(0), B, z + n, old, line, pos)
    <2> DEFINE x == SubSeq(t, 1, pos)
    <2>1. Reached(ScanStart(l, t, pos, n), x, Shifted(Shifted(LineBreaks(v), pos), n),
                  Len(t) + n, Partitions(l.starts), line, pos)
        <3> HIDE DEF n
        <3>1. n \in Nat
            BY <1>1
        <3> QED BY <3>1, ScanStarts, Zenon
    <2>2. U(0) = x
        <3>1. pos + 0 = pos
            BY <1>1
        <3> QED BY <3>1, <1>3
    <2> QED BY <2>1, <2>2, <1>4
<1>6. LinesScanned(l, t, pos, s) = Scanning!Left(c, start, seq)
    BY ScannedIsFold
<1>7. line \in Nat /\ old \in Int
    <2>1. WellFormed(l.starts) /\ IsLineAt(l.starts, line, pos)
        BY <1>1, LineFound DEF LineFromPosition, IndexOf
    <2> QED BY <2>1, PlaceIsNumber DEF IsLineAt
<1> HIDE DEF n, z, B, old, start, seq, U
<1>8. DOMAIN seq = 1 .. n /\ \A i \in 1 .. n : seq[i] = i
    BY <1>1 DEF seq
<1>9. PICK h : Scanning!PassesLeft(h, c, start, seq, n)
    BY <1>1, <1>8, Scanning!FoldLeftPasses
<1>10. /\ h[0] = start /\ h[n] = Scanning!Left(c, start, seq)
       /\ \A i \in 1 .. n : h[i] = ScanOp(c, h[i - 1], seq[i])
    BY <1>9 DEF Scanning!PassesLeft
<1>11. ASSUME NEW i \in 0 .. n - 1, Reached(h[i], U(i), B, z + n, old, line, pos)
       PROVE  Reached(h[i + 1], U(i + 1), B, z + n, old, line, pos)
    <2> DEFINE k == pos + i
               acc == h[i]
    <2>1. /\ i + 1 \in 1 .. n /\ (i + 1) - 1 = i /\ k \in 0 .. Len(w) - 1 /\ pos <= k
          /\ k + 1 = pos + (i + 1)
        BY <1>1, <1>3
    <2>2. h[i + 1] = ScanInserted(acc, s[i + 1], k + 1, StartsLine(l, pos))
        <3>1. h[i + 1] = ScanOp(c, h[(i + 1) - 1], seq[i + 1])
            BY <2>1, <1>10
        <3>2. seq[i + 1] = i + 1
            BY <2>1, <1>8
        <3>3. h[i + 1] = ScanInserted(acc, s[i + 1], pos + (i + 1), StartsLine(l, pos))
            BY <3>1, <3>2, <2>1 DEF ScanOp
        <3> QED BY <3>3, <2>1
    <2>3. s[i + 1] = w[k + 1]
        BY <2>1, <1>3
    <2>4. U(i) = SubSeq(w, 1, k) /\ U(i + 1) = SubSeq(w, 1, k + 1)
        BY <2>1 DEF U
    <2>5. Reached(acc, U(i), B, z + n, old, line, pos)
        BY <1>11
    <2> HIDE DEF k, acc
    <2> DEFINE x == U(i)
               y == U(i + 1)
               end == z + n
               startsLine == StartsLine(l, pos)
               ch == s[i + 1]
    <2>6. /\ k \in 0 .. Len(w) - 1 /\ x = SubSeq(w, 1, k) /\ y = SubSeq(w, 1, k + 1) /\ ch = w[k + 1]
          /\ Reached(acc, x, B, end, old, line, pos) /\ pos <= k /\ pos \in Nat
        BY <2>1, <2>3, <2>4, <2>5, <1>1
    <2>7. h[i + 1] = ScanInserted(acc, ch, k + 1, startsLine)
        BY <2>2
    <2> HIDE DEF x, y, end, ch, startsLine
    <2>8. Reached(ScanInserted(acc, ch, k + 1, startsLine), y, B, end, old, line, pos)
        BY <2>6, <1>2, <1>7, ScanKeeps
    <2> QED BY <2>7, <2>8 DEF y, end
<1>12. Reached(h[n], U(n), B, z + n, old, line, pos)
    <2> DEFINE T == {i \in 0 .. n : Reached(h[i], U(i), B, z + n, old, line, pos)}
    <2>1. 0 \in T
        BY <1>1, <1>5, <1>10
    <2>2. \A i \in 0 .. n - 1 : i \in T => i + 1 \in T
        BY <1>1, <1>11
    <2> HIDE DEF T
    <2>3. 0 .. n \subseteq T
        BY <1>1, <2>1, <2>2, Scanning!UpTo
    <2>4. n \in T
        BY <1>1, <2>3
    <2> QED BY <2>4 DEF T
<1>13. Reached(LinesScanned(l, t, pos, s), u, B, z + n, old, line, pos)
    BY <1>6, <1>10, <1>12 DEF U, n
<1>14. /\ u \in Seq(C) /\ Len(u) = pos + n /\ w = u \o v /\ v \in Seq(C)
    <2> DEFINE k == pos + n
    <2>1. k \in 0 .. Len(w) /\ u = SubSeq(w, 1, k) /\ v = SubSeq(w, k + 1, Len(w))
        <3>1. k \in 0 .. Len(w)
            BY <1>1, <1>30
        <3>2. u = SubSeq(w, 1, k)
            BY DEF n
        <3> QED BY <3>1, <3>2, <1>3
    <2> HIDE DEF k
    <2>2. /\ SubSeq(w, 1, k) \in Seq(C) /\ Len(SubSeq(w, 1, k)) = k
          /\ w = SubSeq(w, 1, k) \o SubSeq(w, k + 1, Len(w))
          /\ SubSeq(w, k + 1, Len(w)) \in Seq(C)
        BY <2>1, <1>2, CutInTwo
    <2> QED BY <2>1, <2>2 DEF k
<1>15. CharAt(u, Len(u) - 1) = Last(s)
    <2>1. /\ n \in 1 .. n /\ n - 1 \in 0 .. n - 1 /\ (n - 1) + 1 = n
          /\ pos + (n - 1) \in 0 .. Len(w) - 1
          /\ pos + n - 1 \in 0 .. (pos + n) - 1 /\ (pos + n - 1) + 1 = pos + n
          /\ pos + n \in 1 .. pos + n /\ pos + n \in 0 .. Len(w)
        BY <1>1, <1>30
    <2>2. u[pos + n] = w[pos + n]
        <3> DEFINE k == pos + n
        <3>1. k \in 0 .. Len(w) /\ u = SubSeq(w, 1, k) /\ k \in 1 .. k
            BY <2>1 DEF n
        <3> HIDE DEF k
        <3>2. \A i \in 1 .. k : SubSeq(w, 1, k)[i] = w[i]
            BY <3>1, <1>2, CutInTwo
        <3> QED BY <3>1, <3>2 DEF k
    <2>3. w[pos + n] = s[n]
        BY <2>1, <1>3
    <2>4. CharAt(u, pos + n - 1) = u[pos + n]
        BY <2>1, <1>14 DEF CharAt
    <2> QED BY <2>2, <2>3, <2>4, <1>14 DEF Last, n
<1>16. CharAt(v, 0) = CharAt(t, pos)
    <2>1. CutBreaks(t, pos, SubSeq(t, 1, pos), v)
        BY BreaksCut, Zenon
    <2> QED BY <2>1 DEF CutBreaks
<1> QED BY <1>30, <1>13, <1>14, <1>15, <1>16 DEF n, z, B, old, ScanEnded

\* The index is the one of the text with the insertion, whatever pairs of "\r" and "\n"
\* that splits or joins (CellBuffer::BasicInsertString); and no later line starts
\* before the insertion.
THEOREM InsertStringKeepsIndex ==
    ASSUME NEW C, NEW t \in Seq(C), NEW pos \in 0 .. Len(t), NEW s \in Seq(C), Len(s) > 0,
           NEW l, AreLines(l), IndexOf(l.starts, LineBreaks(t), Len(t)),
           NEW w, w = Inserted(t, pos, s)
    PROVE  LET m == BasicInsertString(l, t, pos, s)
           IN  /\ AreLines(m)
               /\ IndexOf(m.starts, LineBreaks(w), Len(w))
               /\ Beyond(m.starts, Partitions(l.starts), LineFromPosition(l, pos), pos)
<1> DEFINE n == Len(s)
           u == SubSeq(w, 1, pos + n)
           v == SubSeq(t, pos + 1, Len(t))
           done == LinesScanned(l, t, pos, s)
           B == Shifted(LineBreaks(v), pos + n)
           F == LineBreaks(u)
           end == Len(t) + n
           old == Partitions(l.starts)
           line == LineFromPosition(l, pos)
           k == done.next - 1
           p == done.lines.starts
           m == BasicInsertString(l, t, pos, s)
<1>1. n \in Nat /\ n > 0 /\ Len(t) \in Nat /\ pos \in Nat /\ pos + n \in Nat /\ pos \in Int
    BY LenProperties
<1>2. /\ Reached(done, u, B, end, old, line, pos)
      /\ CharAt(u, Len(u) - 1) = Last(s) /\ CharAt(v, 0) = CharAt(t, pos)
      /\ w = u \o v /\ u \in Seq(C) /\ v \in Seq(C) /\ Len(u) = pos + n /\ Len(w) = end
    <2> HIDE DEF done, line
    <2>1. ScanEnded(done, l, t, pos, s, line, u, v, w) /\ u \in Seq(C) /\ v \in Seq(C)
        BY ScanEnds, Zenon DEF done, line
    <2> QED BY <2>1 DEF ScanEnded
<1>3. m = IF CharAt(t, pos) = LF /\ Last(s) = CR THEN RemoveLine(done.lines, k) ELSE done.lines
    BY DEF BasicInsertString
<1>4. LineBreaks(w) = BreaksOfBoth(u, v)
    <2> HIDE DEF u, v
    <2> QED BY <1>2, BreaksJoin
<1>5. /\ F \subseteq 1 .. pos + n /\ LineBreaks(v) \subseteq 1 .. Len(v) /\ Len(v) \in Nat
    <2> HIDE DEF u, v
    <2> QED BY <1>2, BreaksBounded, LenProperties DEF F
<1>6. F \subseteq Int /\ B \subseteq Int /\ \A e \in F, f \in B : e < f
    <2>1. F \subseteq Int /\ \A e \in F : e <= pos + n
        BY <1>1, <1>5
    <2>2. \A f \in B : f \in Int /\ f > pos + n
        BY <1>1, <1>5 DEF Shifted
    <2> HIDE DEF F, B
    <2> QED BY <2>1, <2>2, <1>1
<1>7. /\ done = [lines |-> done.lines, next |-> done.next, prev |-> done.prev]
      /\ AreLines(done.lines) /\ Splits(p, done.next, F, B, end)
      /\ done.prev = Last(s) /\ line < done.next
      /\ Beyond(p, old, line, pos)
      /\ done.prev = CR => Beyond(p, old + 1, line, pos)
    <2>1. Len(u) > pos
        BY <1>1, <1>2
    <2> HIDE DEF done, u, v, B, line
    <2> QED BY <2>1, <1>2 DEF Reached, F, p
<1>8. line \in Nat /\ old \in Int
    <2>1. WellFormed(l.starts) /\ IsLineAt(l.starts, line, pos)
        BY <1>1, LineFound DEF LineFromPosition, IndexOf
    <2> QED BY <2>1, PlaceIsNumber DEF IsLineAt
<1> HIDE DEF n, u, v, done, B, F, end, old, line, m
<1>9. CASE ~(CharAt(t, pos) = LF /\ Last(s) = CR)
    <2>1. m = done.lines
        BY <1>3, <1>9
    <2>2. LineBreaks(w) = F \cup B
        BY <1>2, <1>4, <1>9 DEF BreaksOfBoth, Pair, F, B
    <2>3. IndexOf(p, F \cup B, end)
        BY <1>6, <1>7, SplitsJoin
    <2> QED BY <2>1, <2>2, <2>3, <1>2, <1>7 DEF m, old, line
<1>10. CASE CharAt(t, pos) = LF /\ Last(s) = CR
    <2> DEFINE q == RemovePartition(p, k)
               last == pos + n
    <2>1. m = RemoveLine(done.lines, k)
        BY <1>3, <1>10
    <2>2. LineBreaks(w) = (F \ {last}) \cup B
        BY <1>2, <1>4, <1>10 DEF BreaksOfBoth, Pair, F, B
    <2>3. last \in F /\ \A f \in F : f <= last
        <3>1. last - 1 \in 0 .. Len(u) - 1 /\ last \in 1 .. Len(u) /\ (last - 1) + 1 = last
            BY <1>1, <1>2
        <3>2. u[last] = CR /\ CharAt(u, last) = "none" /\ "none" # LF
            BY <3>1, <1>2, <1>10 DEF CharAt, LF
        <3>3. last \in LineBreaks(u)
            <4> HIDE DEF last
            <4> QED BY <3>1, <3>2, <1>2, BreakIs
        <3>4. \A f \in F : f <= last
            BY <1>1, <1>5
        <3> QED BY <3>3, <3>4 DEF F
    <2>4. done.next > 1 /\ PositionFromPartition(p, k) = last
        <3> DEFINE next == done.next
        <3>1. Splits(p, next, F, B, end) /\ F \subseteq Int
            BY <1>6, <1>7
        <3> HIDE DEF next, last, p
        <3> QED BY <3>1, <2>3, LastBreak DEF next
    <2>5. Splits(q, k, F \ {last}, B, end)
        <3> DEFINE next == done.next
        <3>1. Splits(p, next, F, B, end) /\ next > 1 /\ last = PositionFromPartition(p, next - 1)
            BY <2>4, <1>7
        <3> HIDE DEF next, last, p
        <3>2. Splits(RemovePartition(p, next - 1), next - 1, F \ {last}, B, end)
            BY <3>1, SplitsRemoveLast
        <3> QED BY <3>2 DEF next
    <2>6. IndexOf(q, (F \ {last}) \cup B, end)
        <3> DEFINE G == F \ {last}
        <3>1. Splits(q, k, G, B, end) /\ G \subseteq Int /\ B \subseteq Int /\ \A e \in G, f \in B : e < f
            BY <2>5, <1>6
        <3> HIDE DEF G, q, k
        <3>2. IndexOf(q, G \cup B, end)
            BY <3>1, SplitsJoin
        <3> QED BY <3>2 DEF G
    <2>7. /\ WellFormed(p) /\ k \in 1 .. Partitions(p) - 1 /\ line <= k /\ Partitions(p) > 1
          /\ k \in 0 .. Partitions(p)
        <3>1. WellFormed(p) /\ done.next \in 1 .. Partitions(p) /\ done.next > 1
            BY <2>4, <1>7 DEF Splits
        <3>2. Partitions(p) \in Nat
            BY <3>1, PlaceIsNumber
        <3> QED BY <3>1, <3>2, <1>7, <1>8
    <2>8. Beyond(q, old, line, pos) /\ Partitions(q) = Partitions(p) - 1
        <3>1. Beyond(p, old + 1, line, pos)
            BY <1>7, <1>10
        <3> HIDE DEF q, k, p
        <3> QED BY <3>1, <2>7, <1>1, <1>8, BeyondRemove DEF q
    <2>9. AreLines(m) /\ m.starts = q
        <3> DEFINE d == done.lines
        <3>1. AreLines(d) /\ WellFormed(d.starts) /\ k \in 1 .. Partitions(d.starts) - 1
              /\ Partitions(RemovePartition(d.starts, k)) = Partitions(d.starts) - 1
            BY <2>7, <2>8, <1>7
        <3>2. m = RemoveLine(d, k) /\ q = RemovePartition(d.starts, k)
            BY <2>1
        <3> HIDE DEF d, q, k, p
        <3> QED BY <3>1, <3>2, MarkerPulled
    <2> HIDE DEF q, last
    <2> QED BY <2>2, <2>6, <2>8, <2>9, <1>2 DEF m, old, line
<1> QED BY <1>9, <1>10

(***************************************************************************)
(* BasicDeleteChars: the index is that of the text before what goes,       *)
(* followed by the lines that are not removed yet.                         *)
(***************************************************************************)

LEMMA FirstBreak ==
    ASSUME NEW p, NEW m, NEW F, NEW B, NEW end, Splits(p, m, F, B, end), B \subseteq Int,
           NEW e \in B, \A f \in B : e <= f
    PROVE  /\ m \in 1 .. Partitions(p) - 1 /\ Partitions(p) \in Nat
           /\ PositionFromPartition(p, m) = e
<1> DEFINE n == Partitions(p)
<1>1. m \in Int /\ 1 <= m /\ m <= n /\ n \in Nat /\ Lists(p, m, n - 1, B)
    BY PlaceIsNumber DEF Splits
<1> HIDE DEF n
<1>2. PICK k \in m .. n - 1 : PositionFromPartition(p, k) = e
    BY <1>1 DEF Lists
<1>3. m \in m .. n - 1 /\ m \in 1 .. n - 1
    BY <1>1, <1>2
<1>4. CASE k = m
    BY <1>1, <1>2, <1>3, <1>4 DEF n
<1>5. CASE k # m
    <2>1. m < k
        BY <1>1, <1>5
    <2>2. PositionFromPartition(p, m) < e
        BY <1>1, <1>2, <1>3, <2>1 DEF Lists
    <2>3. PositionFromPartition(p, m) \in B
        BY <1>1, <1>3 DEF Lists
    <2>4. e <= PositionFromPartition(p, m) /\ PositionFromPartition(p, m) \in Int /\ e \in Int
        BY <2>3
    <2> QED BY <2>2, <2>4
<1> QED BY <1>4, <1>5

\* The first of the later breaks is set to be the last of the others.
LEMMA SplitsTake ==
    ASSUME NEW p, NEW m, NEW F, NEW B, NEW end, Splits(p, m, F, B, end), B \subseteq Int,
           NEW e \in B, \A f \in B : e <= f, NEW b \in Int, \A f \in F : f < b
    PROVE  /\ Splits(SetPartitionStartPosition(p, m, b), m + 1, F \cup {b}, B \ {e}, end)
           /\ Partitions(SetPartitionStartPosition(p, m, b)) = Partitions(p)
<1> DEFINE q == SetPartitionStartPosition(p, m, b)
           n == Partitions(p)
<1>1. /\ WellFormed(p) /\ m \in 1 .. n - 1 /\ m \in Int /\ p.step <= m /\ p.step \in Int
      /\ n \in Nat \ {0} /\ Bounds(p) = 0 .. n /\ n = Len(p.body) - 1
      /\ \A j \in 0 .. n : PositionFromPartition(p, j) \in Int
      /\ PositionFromPartition(p, m) = e
      /\ Lists(p, m, n - 1, B) /\ Lists(p, 1, m - 1, F)
    <2> HIDE DEF n
    <2>1. m \in 1 .. Partitions(p) - 1 /\ PositionFromPartition(p, m) = e
        BY FirstBreak
    <2> QED BY <2>1, PlaceIsNumber DEF Splits, n
<1>2. /\ WellFormed(q) /\ Len(q.body) = Len(p.body) /\ q.step <= m + 1
      /\ \A j \in 0 .. n :
             PositionFromPartition(q, j) = IF j = m THEN b ELSE PositionFromPartition(p, j)
    <2>1. m \in 0 .. Partitions(p) /\ p.step <= m + 1
        BY <1>1
    <2> HIDE DEF q
    <2>2. LET r == SetPartitionStartPosition(p, m, b)
          IN  /\ WellFormed(r) /\ Len(r.body) = Len(p.body) /\ r.step <= m + 1
              /\ \A j \in Bounds(p) :
                     PositionFromPartition(r, j) = IF j = m THEN b ELSE PositionFromPartition(p, j)
        <3>1. WellFormed(p)
            BY <1>1
        <3> HIDE DEF n
        <3> QED BY <3>1, <2>1, SetPartitionStartSets, ZenonT(60)
    <2> QED BY <1>1, <2>2 DEF q
<1> HIDE DEF q
<1>3. Partitions(q) = n
    BY <1>1, <1>2, PlaceIsNumber
<1> HIDE DEF n
<1>4. Lists(q, 1, m, F \cup {b})
    <2>1. \A j \in 1 .. m - 1 : PositionFromPartition(q, j) = PositionFromPartition(p, j)
        BY <1>1, <1>2
    <2>2. PositionFromPartition(q, m) = b /\ 1 \in Int /\ 1 <= m /\ m - 1 \in Int
        BY <1>1, <1>2
    <2>3. Lists(q, 1, m - 1, F)
        BY <2>1, <2>2, <1>1, ListsStay
    <2> QED BY <2>2, <2>3, <1>1, ListsExtended, Zenon
<1>5. Lists(q, m + 1, n - 1, B \ {e})
    <2>1. \A j \in m + 1 .. n - 1 :
              /\ j \in m .. n - 1 /\ m < j /\ j \in 0 .. n /\ j # m
              /\ PositionFromPartition(q, j) = PositionFromPartition(p, j)
        BY <1>1, <1>2
    <2>2. m \in m .. n - 1
        BY <1>1
    <2>3. ASSUME NEW j \in m + 1 .. n - 1
          PROVE  PositionFromPartition(p, j) \in B \ {e}
        <3>1. PositionFromPartition(p, m) < PositionFromPartition(p, j)
            BY <2>1, <2>2, <1>1 DEF Lists
        <3>2. PositionFromPartition(p, j) \in B
            BY <2>1, <1>1 DEF Lists
        <3> QED BY <3>1, <3>2, <1>1
    <2>4. ASSUME NEW f \in B \ {e}
          PROVE  \E j \in m + 1 .. n - 1 : PositionFromPartition(p, j) = f
        <3>1. PICK j \in m .. n - 1 : PositionFromPartition(p, j) = f
            BY <1>1 DEF Lists
        <3>2. j \in m + 1 .. n - 1
            BY <3>1, <1>1
        <3> QED BY <3>1, <3>2
    <2>5. \A j, k \in m + 1 .. n - 1 : j < k => PositionFromPartition(p, j) < PositionFromPartition(p, k)
        BY <2>1, <1>1 DEF Lists
    <2> QED BY <2>1, <2>3, <2>4, <2>5 DEF Lists
<1>6. /\ PositionFromPartition(q, 0) = 0 /\ PositionFromPartition(q, n) = end
      /\ m + 1 \in 1 .. n /\ (m + 1) - 1 = m
    <2>1. 0 \in 0 .. n /\ n \in 0 .. n /\ 0 # m /\ n # m /\ m + 1 \in 1 .. n /\ (m + 1) - 1 = m
        BY <1>1
    <2> QED BY <2>1, <1>2 DEF Splits, n
<1> QED BY <1>2, <1>3, <1>4, <1>5, <1>6 DEF Splits, q, n

LEMMA IndexSet ==
    ASSUME NEW p, NEW S, NEW end, IndexOf(p, S, end), NEW k \in 0 .. Partitions(p),
           p.step <= k + 1, NEW b \in Int, PositionFromPartition(p, k) = b
    PROVE  LET q == SetPartitionStartPosition(p, k, b)
           IN  IndexOf(q, S, end) /\ Partitions(q) = Partitions(p)
<1> DEFINE q == SetPartitionStartPosition(p, k, b)
           n == Partitions(p)
<1>1. /\ WellFormed(p) /\ n \in Nat \ {0} /\ Bounds(p) = 0 .. n /\ n = Len(p.body) - 1
    BY PlaceIsNumber DEF IndexOf
<1>2. /\ WellFormed(q) /\ Len(q.body) = Len(p.body)
      /\ \A j \in 0 .. n : PositionFromPartition(q, j) = PositionFromPartition(p, j)
    <2> HIDE DEF q
    <2> QED BY <1>1, SetPartitionStartSets DEF q
<1> HIDE DEF q
<1>3. Partitions(q) = n
    BY <1>1, <1>2, PlaceIsNumber
<1> HIDE DEF n
<1>4. Lists(q, 1, n - 1, S)
    <2>1. \A j \in 1 .. n - 1 : PositionFromPartition(q, j) = PositionFromPartition(p, j)
        BY <1>1, <1>2
    <2> QED BY <2>1, <1>1, ListsStay DEF IndexOf, n
<1> QED BY <1>1, <1>2, <1>3, <1>4 DEF IndexOf, q, n

\* The breaks after the first i characters that go; the "\n" of a pair that is split
\* has become part of what is before.
BreaksLeft(t, pos, i) ==
    {e \in LineBreaks(t) : e > pos + i /\ ~(SplitsPair(t, pos) /\ e = pos + 1)}

StillRemoving(acc, u, B, end, here, n) ==
    /\ AreLines(acc)
    /\ Splits(acc.starts, here, LineBreaks(u), B, end)
    /\ Partitions(acc.starts) <= n

LEMMA LeftIsLess ==
    ASSUME NEW C, NEW t \in Seq(C), NEW pos \in Nat, NEW i \in Nat, pos + i < Len(t)
    PROVE  /\ BreaksLeft(t, pos, i + 1) = BreaksLeft(t, pos, i) \ {pos + i + 1}
           /\ EndsLineThatGoes(t, pos, pos + i) <=> pos + i + 1 \in BreaksLeft(t, pos, i)
           /\ BreaksLeft(t, pos, i) \subseteq Int
           /\ \A x \in BreaksLeft(t, pos, i) : pos + i + 1 <= x
<1> DEFINE A == BreaksLeft(t, pos, i)
           D == BreaksLeft(t, pos, i + 1)
           e == pos + i + 1
<1>1. /\ Len(t) \in Nat /\ e \in 1 .. Len(t) /\ pos + i \in 0 .. Len(t) - 1 /\ e \in Int
      /\ (pos + i) + 1 = e /\ pos + (i + 1) = e
      /\ (pos + i = pos <=> e = pos + 1)
    BY LenProperties
<1>2. LineBreaks(t) \subseteq 1 .. Len(t)
    BY BreaksBounded
<1>3. D = A \ {e}
    <2>1. \A x \in 1 .. Len(t) : x > pos + (i + 1) <=> x > pos + i /\ x # e
        BY <1>1
    <2> QED BY <2>1, <1>2 DEF BreaksLeft
<1>4. EndsLineThatGoes(t, pos, pos + i) <=> e \in A
    <2>1. CharAt(t, pos + i) = t[e]
        BY <1>1 DEF CharAt
    <2>2. e \in LineBreaks(t) <=> t[e] = LF \/ (t[e] = CR /\ CharAt(t, e) # LF)
        <3> HIDE DEF e
        <3> QED BY <1>1, BreakIs
    <2>3. e > pos + i
        BY <1>1
    <2>4. SplitsPair(t, pos) /\ e = pos + 1 => t[e] = LF
        <3>1. SplitsPair(t, pos) => CharAt(t, pos) = LF
            BY DEF SplitsPair
        <3> QED BY <3>1, <2>1, <1>1
    <2>5. CR # LF
        BY DEF CR, LF
    <2>6. EndsLineThatGoes(t, pos, pos + i) <=>
              \/ t[e] = CR /\ CharAt(t, e) # LF
              \/ t[e] = LF /\ ~(e = pos + 1 /\ SplitsPair(t, pos))
        BY <2>1, <1>1 DEF EndsLineThatGoes
    <2>7. e \in A <=> e \in LineBreaks(t) /\ ~(SplitsPair(t, pos) /\ e = pos + 1)
        BY <2>3 DEF BreaksLeft
    <2> HIDE DEF e, A
    <2> QED BY <2>2, <2>4, <2>5, <2>6, <2>7
<1>5. A \subseteq Int /\ \A x \in A : e <= x
    <2>1. \A x \in A : x \in Int /\ x > pos + i
        BY <1>2 DEF BreaksLeft
    <2> HIDE DEF A
    <2> QED BY <2>1, <1>1
<1> QED BY <1>3, <1>4, <1>5

LEMMA RemoveKeeps ==
    ASSUME NEW C, NEW t \in Seq(C), NEW pos \in Nat, NEW i \in Nat, pos + i < Len(t),
           NEW u, NEW len \in Int, NEW end, NEW here, NEW n \in Int,
           NEW acc, StillRemoving(acc, u, Shifted(BreaksLeft(t, pos, i), len), end, here, n)
    PROVE  StillRemoving(IF EndsLineThatGoes(t, pos, pos + i) THEN RemoveLine(acc, here) ELSE acc,
                     u, Shifted(BreaksLeft(t, pos, i + 1), len), end, here, n)
<1> DEFINE A == BreaksLeft(t, pos, i)
           B == Shifted(A, len)
           D == BreaksLeft(t, pos, i + 1)
           e == pos + i + 1
           p == acc.starts
<1>1. e \in Int
    OBVIOUS
<1>3. /\ D = A \ {e} /\ (EndsLineThatGoes(t, pos, pos + i) <=> e \in A)
      /\ A \subseteq Int /\ \A x \in A : e <= x
    BY LeftIsLess
<1> HIDE DEF A, D, e
<1>6. CASE e \notin A
    <2>1. D = A
        BY <1>3, <1>6
    <2> QED BY <2>1, <1>3, <1>6 DEF A, D
<1>7. CASE e \in A
    <2> DEFINE b == e + len
               q == RemovePartition(p, here)
               next == RemoveLine(acc, here)
    <2>1. b \in B /\ B \subseteq Int /\ \A x \in B : b <= x
        BY <1>1, <1>3, <1>7 DEF Shifted
    <2>2. Shifted(D, len) = B \ {b}
        <3>1. \A x \in A : x + len = b <=> x = e
            BY <1>1, <1>3
        <3> QED BY <3>1, <1>3 DEF Shifted
    <2>3. Splits(p, here, LineBreaks(u), B, end) /\ AreLines(acc) /\ Partitions(p) <= n
        BY DEF StillRemoving, A
    <2> HIDE DEF b, B, q, next, p
    <2>4. here \in 1 .. Partitions(p) - 1 /\ Partitions(p) \in Nat
        BY <2>1, <2>3, FirstBreak
    <2>5. Splits(q, here, LineBreaks(u), B \ {b}, end)
        BY <2>1, <2>3, SplitsRemoveNext DEF q
    <2>6. Partitions(q) = Partitions(p) - 1
        <3>1. WellFormed(p) /\ Partitions(p) > 1 /\ here \in 0 .. Partitions(p)
            BY <2>3, <2>4 DEF Splits
        <3>2. WellFormed(q) /\ Len(q.body) = Len(p.body) - 1
            BY <3>1, RemovePartitionShifts DEF q
        <3> QED BY <3>1, <3>2, PlaceIsNumber
    <2>7. AreLines(next) /\ next.starts = q
        <3>1. WellFormed(acc.starts) /\ here \in 1 .. Partitions(acc.starts) - 1
              /\ Partitions(RemovePartition(acc.starts, here)) = Partitions(acc.starts) - 1
            BY <2>3, <2>4, <2>6 DEF Splits, p, q
        <3> QED BY <3>1, <2>3, MarkerPulled DEF p, q, next
    <2>8. Partitions(q) <= n
        BY <2>3, <2>4, <2>6
    <2>9. StillRemoving(next, u, Shifted(D, len), end, here, n)
        BY <2>2, <2>5, <2>7, <2>8 DEF StillRemoving
    <2> QED BY <2>9, <1>3, <1>7 DEF next, D
<1> QED BY <1>6, <1>7

\* The "\r" of a pair that is split ends what is before.
LEMMA SplitEnds ==
    ASSUME NEW C, NEW t \in Seq(C), NEW pos \in 0 .. Len(t), SplitsPair(t, pos),
           NEW u, u = SubSeq(t, 1, pos)
    PROVE  pos \in LineBreaks(u) /\ pos + 1 \in LineBreaks(t)
<1>1. Len(t) \in Nat /\ pos \in Nat /\ pos <= Len(t)
    BY LenProperties
<1>2. u \in Seq(C) /\ Len(u) = pos
    BY CutInTwo
<1>3. CharAt(u, pos - 1) = CR
    <2>1. CutBreaks(t, pos, u, SubSeq(t, pos + 1, Len(t)))
        BY BreaksCut, Zenon
    <2> QED BY <2>1 DEF CutBreaks, SplitsPair
<1>4. pos - 1 \in 0 .. Len(u) - 1 /\ pos \in 1 .. Len(u) /\ (pos - 1) + 1 = pos
    <2>1. pos # 0
        BY <1>2, <1>3 DEF CharAt, CR
    <2> QED BY <2>1, <1>1, <1>2
<1>5. u[pos] = CR /\ CharAt(u, pos) = "none" /\ "none" # LF
    BY <1>1, <1>2, <1>3, <1>4 DEF CharAt, LF
<1>6. pos \in LineBreaks(u)
    BY <1>2, <1>4, <1>5, BreakIs
<1>7. CharAt(t, pos) = LF
    BY DEF SplitsPair
<1>8. pos \in 0 .. Len(t) - 1 /\ pos + 1 \in 1 .. Len(t)
    <2>1. pos \in 0 .. Len(t) - 1
        BY <1>7 DEF CharAt, LF
    <2> QED BY <2>1, <1>1
<1>9. pos + 1 \in LineBreaks(t)
    <2> DEFINE e == pos + 1
    <2>1. e \in 1 .. Len(t) /\ t[e] = LF
        BY <1>7, <1>8 DEF CharAt
    <2> HIDE DEF e
    <2>2. e \in LineBreaks(t)
        BY <2>1, BreakIs
    <2> QED BY <2>2 DEF e
<1> QED BY <1>6, <1>9

\* w is t without the characters from pos on, u before them and v after them.
IsDeleted(w, t, pos, len, u, v) ==
    /\ w = u \o v /\ Len(u) = pos /\ Len(w) = Len(t) - len
    /\ LineBreaks(w) = (LineBreaks(u) \ (IF Pair(u, v) THEN {pos} ELSE {}))
                           \cup Shifted(BreaksLeft(t, pos, len), -len)
    /\ Shifted(BreaksLeft(t, pos, len), -len) = Shifted(LineBreaks(v), pos)
    /\ CharAt(u, pos - 1) = CharAt(t, pos - 1)
    /\ CharAt(v, 0) = CharAt(t, pos + len)

LEMMA DeletedIs ==
    ASSUME NEW C, NEW t \in Seq(C), NEW pos \in Nat, NEW len \in Nat \ {0}, pos + len <= Len(t),
           NEW w, w = Deleted(t, pos, len),
           NEW u, u = SubSeq(t, 1, pos), NEW v, v = SubSeq(t, pos + len + 1, Len(t))
    PROVE  IsDeleted(w, t, pos, len, u, v) /\ u \in Seq(C) /\ v \in Seq(C) /\ w \in Seq(C)
<1> DEFINE k == pos + len
<1>1. /\ Len(t) \in Nat /\ pos \in 0 .. Len(t) /\ k \in 0 .. Len(t) /\ k \in Int
      /\ len > 0 /\ pos \in Int /\ len \in Int
    BY LenProperties
<1>2. u \in Seq(C) /\ Len(u) = pos
    BY <1>1, CutInTwo
<1>3. v \in Seq(C) /\ Len(v) = Len(t) - k
    <2>1. v = SubSeq(t, k + 1, Len(t))
        OBVIOUS
    <2> HIDE DEF k
    <2>2. SubSeq(t, k + 1, Len(t)) \in Seq(C) /\ Len(SubSeq(t, k + 1, Len(t))) = Len(t) - k
        BY <1>1, CutInTwo
    <2> QED BY <2>1, <2>2
<1>4. w = u \o v
    BY DEF Deleted
<1>5. w \in Seq(C) /\ Len(w) = Len(u) + Len(v)
    BY <1>2, <1>3, <1>4, JoinIs
<1>6. Len(w) = Len(t) - len
    BY <1>1, <1>2, <1>3, <1>5
<1>7. LineBreaks(w) = BreaksOfBoth(u, v)
    BY <1>2, <1>3, <1>4, BreaksJoin
<1>8. CutBreaks(t, k, SubSeq(t, 1, k), v)
    <2>1. v = SubSeq(t, k + 1, Len(t))
        OBVIOUS
    <2> HIDE DEF k
    <2> QED BY <2>1, <1>1, BreaksCut, Zenon
<1>9. BreaksLeft(t, pos, len) = Shifted(LineBreaks(v), k)
    <2>1. \A e \in LineBreaks(t) : e > k => ~(e = pos + 1)
        BY <1>1
    <2>2. BreaksLeft(t, pos, len) = {e \in LineBreaks(t) : e > k}
        BY <2>1 DEF BreaksLeft
    <2> QED BY <2>2, <1>8 DEF CutBreaks
<1>10. Shifted(BreaksLeft(t, pos, len), -len) = Shifted(LineBreaks(v), pos)
    <2> DEFINE S == LineBreaks(v)
    <2>1. S \subseteq Int
        <3>1. S \subseteq 1 .. Len(v)
            BY <1>3, BreaksBounded
        <3> HIDE DEF S
        <3> QED BY <3>1
    <2>2. BreaksLeft(t, pos, len) = Shifted(S, k)
        BY <1>9
    <2> HIDE DEF S
    <2>3. \A e \in S : (e + k) + (-len) = e + pos
        BY <1>1, <2>1
    <2> HIDE DEF k
    <2>4. Shifted(Shifted(S, k), -len) = Shifted(S, pos)
        BY <2>3 DEF Shifted
    <2> QED BY <2>2, <2>4 DEF S
<1>11. CharAt(v, 0) = CharAt(t, pos + len)
    BY <1>8 DEF CutBreaks
<1>12. CharAt(u, pos - 1) = CharAt(t, pos - 1)
    <2>1. CutBreaks(t, pos, u, SubSeq(t, pos + 1, Len(t)))
        BY <1>1, BreaksCut, Zenon
    <2> QED BY <2>1 DEF CutBreaks
<1>13. LineBreaks(w) = (LineBreaks(u) \ (IF Pair(u, v) THEN {pos} ELSE {}))
                           \cup Shifted(BreaksLeft(t, pos, len), -len)
    BY <1>2, <1>7, <1>10 DEF BreaksOfBoth
<1> QED BY <1>2, <1>3, <1>4, <1>5, <1>6, <1>10, <1>11, <1>12, <1>13 DEF IsDeleted

\* What is there before the first line end goes, and the line from which they go.
BeforeRemoving(l, t, pos, len) ==
    LET line == LineFromPosition(l, pos) + 1
        shrunk == GrowLine(l, line - 1, -len)
    IN  IF SplitsPair(t, pos) THEN SetLineStart(shrunk, line, pos) ELSE shrunk

RemovedFrom(l, t, pos) ==
    IF SplitsPair(t, pos) THEN LineFromPosition(l, pos) + 2 ELSE LineFromPosition(l, pos) + 1

LEMMA RemovingStarts ==
    ASSUME NEW C, NEW t \in Seq(C), NEW pos \in 0 .. Len(t), NEW len \in Nat,
           NEW l, AreLines(l), IndexOf(l.starts, LineBreaks(t), Len(t)),
           NEW u, u = SubSeq(t, 1, pos)
    PROVE  StillRemoving(BeforeRemoving(l, t, pos, len), u,
                         Shifted(BreaksLeft(t, pos, 0), -len), Len(t) - len,
                         RemovedFrom(l, t, pos), Partitions(l.starts))
<1> DEFINE line == LineFromPosition(l, pos)
           p == l.starts
           d == -len
           q == InsertText(p, line, d)
           n == Partitions(p)
           S == LineBreaks(t)
           z == Len(t)
           F == {e \in S : e <= pos}
           L == {e \in S : e > pos}
           B == Shifted(L, d)
           end == z + d
           shrunk == GrowLine(l, line, d)
           start == BeforeRemoving(l, t, pos, len)
<1>1. /\ z \in Nat /\ pos \in Nat /\ pos <= z /\ pos \in Int /\ len \in Int /\ d \in Int
      /\ end = z - len
    BY LenProperties
<1>2. S \subseteq 1 .. z /\ S \subseteq Int
    BY <1>1, BreaksBounded
<1>3. IsLineAt(p, line, pos)
    BY <1>1, LineFound DEF LineFromPosition
<1>4. /\ F = LineBreaks(u) \ (IF SplitsPair(t, pos) THEN {pos} ELSE {})
    <2>1. CutBreaks(t, pos, u, SubSeq(t, pos + 1, Len(t)))
        BY BreaksCut, Zenon
    <2> QED BY <2>1 DEF CutBreaks
<1>5. u \in Seq(C) /\ Len(u) = pos
    BY CutInTwo
<1>6. /\ Splits(q, line + 1, F, B, end) /\ Partitions(q) = n
    <2> HIDE DEF S, p, q, z, d, line
    <2>1. GrownAt(p, InsertText(p, line, d), S, z, pos, line, d)
        <3>1. z \in Int /\ IndexOf(p, S, z)
            BY <1>1 DEF S, p, z
        <3> QED BY <3>1, <1>1, <1>2, <1>3, IndexSplits
    <2> QED BY <2>1 DEF q, n, GrownAt
<1>7. n \in Nat \ {0} /\ line \in 0 .. n - 1 /\ line \in Nat /\ line + 1 \in Int
      /\ (line + 1) - 1 = line /\ (line + 1) + 1 = line + 2
    BY <1>3, PlaceIsNumber DEF IndexOf, IsLineAt
<1>8. AreLines(shrunk) /\ shrunk.starts = q
    <2>1. shrunk = [l EXCEPT !.starts = q]
        BY DEF GrowLine
    <2> HIDE DEF q, shrunk, d, line
    <2> QED BY <2>1, <1>6, MarkerStays
<1>9. /\ start = IF SplitsPair(t, pos) THEN SetLineStart(shrunk, line + 1, pos) ELSE shrunk
      /\ RemovedFrom(l, t, pos) = IF SplitsPair(t, pos) THEN line + 2 ELSE line + 1
    <2> HIDE DEF line
    <2>1. line = LineFromPosition(l, pos) /\ (line + 1) - 1 = line
        BY <1>7 DEF line
    <2> QED BY <2>1 DEF BeforeRemoving, RemovedFrom
<1> HIDE DEF q, n, z, end, shrunk, line, start, d
<1>10. CASE ~SplitsPair(t, pos)
    <2>1. \A e \in S : e > pos + 0 <=> e > pos
        BY <1>1, <1>2
    <2>2. BreaksLeft(t, pos, 0) = L
        BY <2>1, <1>10 DEF BreaksLeft
    <2>3. F = LineBreaks(u) /\ n <= n
        BY <1>4, <1>7, <1>10
    <2> HIDE DEF F, L, S
    <2>4. StillRemoving(start, u, B, end, line + 1, n)
        BY <2>3, <1>6, <1>8, <1>9, <1>10 DEF StillRemoving
    <2> QED BY <2>2, <2>4, <1>1, <1>9, <1>10 DEF start, n, d, z
<1>11. CASE SplitsPair(t, pos)
    <2> DEFINE m == line + 1
               b == pos + 1 + d
               r == SetPartitionStartPosition(q, m, pos)
    <2>1. pos \in LineBreaks(u) /\ pos + 1 \in S
        BY <1>11, SplitEnds
    <2>2. F = LineBreaks(u) \ {pos}
        BY <1>4, <1>11
    <2>3. \A f \in F : f < pos
        <3>1. LineBreaks(u) \subseteq 1 .. pos
            BY <1>5, BreaksBounded
        <3> QED BY <3>1, <2>2, <1>1
    <2>4. BreaksLeft(t, pos, 0) = L \ {pos + 1}
        <3>1. \A e \in S : e > pos + 0 <=> e > pos
            BY <1>1, <1>2
        <3> QED BY <3>1, <1>11 DEF BreaksLeft
    <2>5. L \subseteq Int /\ pos + 1 \in L /\ \A e \in L : pos + 1 <= e
        <3>1. \A e \in S : e > pos => pos + 1 <= e
            BY <1>1, <1>2
        <3>2. pos + 1 > pos
            BY <1>1
        <3> QED BY <3>1, <3>2, <2>1, <1>2
    <2>6. B \subseteq Int /\ b \in B /\ \A x \in B : b <= x
        <3> HIDE DEF L
        <3> QED BY <2>5, <1>1 DEF Shifted
    <2>7. B \ {b} = Shifted(BreaksLeft(t, pos, 0), d)
        <3> HIDE DEF L
        <3>1. \A e \in L : e + d = b <=> e = pos + 1
            BY <2>5, <1>1
        <3> HIDE DEF b
        <3> QED BY <3>1, <2>4 DEF Shifted
    <2>8. Splits(q, m, F, B, end)
        BY <1>6
    <2>9. F \cup {pos} = LineBreaks(u)
        BY <2>1, <2>2
    <2> HIDE DEF m, b, B, F, L, S
    <2>10. Splits(r, m + 1, F \cup {pos}, B \ {b}, end) /\ Partitions(r) = Partitions(q)
        BY <2>3, <2>6, <2>8, <1>1, SplitsTake
    <2>11. start = [shrunk EXCEPT !.starts = r]
        BY <1>8, <1>9, <1>11 DEF SetLineStart, m
    <2> HIDE DEF r
    <2>12. AreLines(start) /\ start.starts = r
        BY <2>10, <2>11, <1>8, MarkerStays
    <2>13. m + 1 = line + 2 /\ n <= n
        BY <1>7 DEF m
    <2>14. StillRemoving(start, u, Shifted(BreaksLeft(t, pos, 0), d), end, line + 2, n)
        BY <2>7, <2>9, <2>10, <2>12, <2>13, <1>6 DEF StillRemoving
    <2> QED BY <2>14, <1>1, <1>9, <1>11 DEF start, n, d, z
<1> QED BY <1>10, <1>11

LEMMA RemovedIsFold ==
    ASSUME NEW l, NEW t, NEW pos, NEW len, NEW here
    PROVE  LinesRemoved(l, t, pos, len, here) =
               Removing!Left([t |-> t, pos |-> pos, here |-> here], l,
                             [k \in 1 .. len |-> pos + k - 1])
BY DEF LinesRemoved, Removing!Left, Removing!IterLeft, FoldLeft, MapThenFoldSet,
       RemoveOp, Removing!Max, Max

\* When all line ends that go are removed.
LEMMA RemovingEnds ==
    ASSUME NEW C, NEW t \in Seq(C), NEW pos \in Nat, NEW len \in Nat, pos + len <= Len(t),
           NEW u, NEW d \in Int, NEW end, NEW here, NEW n \in Int,
           NEW first, StillRemoving(first, u, Shifted(BreaksLeft(t, pos, 0), d), end, here, n)
    PROVE  StillRemoving(LinesRemoved(first, t, pos, len, here), u,
                         Shifted(BreaksLeft(t, pos, len), d), end, here, n)
<1> DEFINE c == [t |-> t, pos |-> pos, here |-> here]
           seq == [k \in 1 .. len |-> pos + k - 1]
           Left(i) == Shifted(BreaksLeft(t, pos, i), d)
<1>1. LinesRemoved(first, t, pos, len, here) = Removing!Left(c, first, seq)
    BY RemovedIsFold
<1>2. DOMAIN seq = 1 .. len /\ \A i \in 1 .. len : seq[i] = pos + i - 1
    OBVIOUS
<1>3. c.t = t /\ c.pos = pos /\ c.here = here
    OBVIOUS
<1> HIDE DEF c, seq, Left
<1>4. PICK h : Removing!PassesLeft(h, c, first, seq, len)
    BY <1>2, Removing!FoldLeftPasses
<1>5. /\ h[0] = first /\ h[len] = Removing!Left(c, first, seq)
      /\ \A i \in 1 .. len : h[i] = RemoveOp(c, h[i - 1], seq[i])
    BY <1>4 DEF Removing!PassesLeft
<1>6. ASSUME NEW i \in 0 .. len - 1, StillRemoving(h[i], u, Left(i), end, here, n)
      PROVE  StillRemoving(h[i + 1], u, Left(i + 1), end, here, n)
    <2> DEFINE acc == h[i]
    <2>1. /\ i + 1 \in 1 .. len /\ (i + 1) - 1 = i /\ pos + (i + 1) - 1 = pos + i
          /\ i \in Nat /\ pos + i < Len(t)
        <3>1. Len(t) \in Nat
            BY LenProperties
        <3> QED BY <3>1
    <2>2. h[i + 1] = RemoveOp(c, h[(i + 1) - 1], seq[i + 1])
        BY <2>1, <1>5
    <2>3. seq[i + 1] = pos + i
        BY <2>1, <1>2
    <2>4. h[i + 1] = IF EndsLineThatGoes(t, pos, pos + i) THEN RemoveLine(acc, here) ELSE acc
        BY <2>1, <2>2, <2>3, <1>3 DEF RemoveOp
    <2>5. StillRemoving(acc, u, Shifted(BreaksLeft(t, pos, i), d), end, here, n)
        BY <1>6 DEF Left
    <2> HIDE DEF acc
    <2>6. StillRemoving(IF EndsLineThatGoes(t, pos, pos + i) THEN RemoveLine(acc, here) ELSE acc,
                        u, Shifted(BreaksLeft(t, pos, i + 1), d), end, here, n)
        BY <2>1, <2>5, RemoveKeeps
    <2> QED BY <2>4, <2>6 DEF Left
<1>7. StillRemoving(h[len], u, Left(len), end, here, n)
    <2> DEFINE T == {i \in 0 .. len : StillRemoving(h[i], u, Left(i), end, here, n)}
    <2>1. 0 \in T
        BY <1>5 DEF Left
    <2>2. \A i \in 0 .. len - 1 : i \in T => i + 1 \in T
        BY <1>6
    <2> HIDE DEF T
    <2>3. 0 .. len \subseteq T
        BY <2>1, <2>2, Removing!UpTo
    <2>4. len \in T
        BY <2>3
    <2> QED BY <2>4 DEF T
<1> QED BY <1>1, <1>5, <1>7 DEF Left

\* A text without line breaks.
LEMMA EmptyIndex ==
    ASSUME NEW t, Len(t) = 0, NEW C, t \in Seq(C)
    PROVE  /\ AreLines(EmptyLines) /\ IndexOf(EmptyLines.starts, LineBreaks(t), Len(t))
           /\ Partitions(EmptyLines.starts) = 1
<1> DEFINE p == EmptyPartitioning
<1>1. /\ p.body = <<0, 0>> /\ p.step = 0 /\ p.delta = 0
      /\ p = [body |-> p.body, step |-> p.step, delta |-> p.delta]
      /\ Len(p.body) = 2 /\ Partitions(p) = 1
    BY DEF EmptyPartitioning, Partitions
<1>2. WellFormed(p)
    <2> DEFINE b == <<0, 0>>
    <2>1. b \in Seq(Int) /\ Len(b) = 2
        OBVIOUS
    <2>2. EmptyPartitioning = [body |-> b, step |-> 0, delta |-> 0]
        BY DEF EmptyPartitioning
    <2> HIDE DEF b
    <2>3. WellFormed([body |-> b, step |-> 0, delta |-> 0])
        BY <2>1 DEF WellFormed, Partitions
    <2> QED BY <2>2, <2>3
<1>3. PositionFromPartition(p, 0) = 0 /\ PositionFromPartition(p, 1) = 0
    BY DEF EmptyPartitioning, PositionFromPartition
<1>4. LineBreaks(t) = {}
    <2>1. LineBreaks(t) \subseteq 1 .. Len(t)
        BY BreaksBounded
    <2> QED BY <2>1
<1> HIDE DEF p
<1>5. Lists(p, 1, 1 - 1, {})
    BY DEF Lists
<1>6. IndexOf(p, LineBreaks(t), Len(t))
    BY <1>1, <1>2, <1>3, <1>4, <1>5 DEF IndexOf
<1>7. EmptyLines = [starts |-> p, marker |-> -1]
    BY DEF EmptyLines, NoMarker, p
<1> QED BY <1>1, <1>6, <1>7 DEF AreLines

LEMMA LinesHaveIndex ==
    ASSUME NEW l, NEW S, NEW end, IndexOf(l.starts, S, end), NEW pos \in Nat
    PROVE  LineFromPosition(l, pos) \in Nat /\ Partitions(l.starts) \in Nat \ {0}
<1>1. WellFormed(l.starts) /\ IsLineAt(l.starts, LineFromPosition(l, pos), pos)
    BY LineFound DEF LineFromPosition, IndexOf
<1> QED BY <1>1, PlaceIsNumber DEF IsLineAt

\* The index is the one of the text without what was deleted, whatever pairs of "\r"
\* and "\n" that splits or joins (CellBuffer::BasicDeleteChars); and there are no more
\* lines than before.
THEOREM DeleteCharsKeepsIndex ==
    ASSUME NEW C, NEW t \in Seq(C), NEW pos \in Nat, NEW len \in Nat \ {0}, pos + len <= Len(t),
           NEW l, AreLines(l), IndexOf(l.starts, LineBreaks(t), Len(t)),
           NEW w, w = Deleted(t, pos, len)
    PROVE  LET m == BasicDeleteChars(l, t, pos, len)
           IN  /\ AreLines(m)
               /\ IndexOf(m.starts, LineBreaks(w), Len(w))
               /\ Partitions(m.starts) <= Partitions(l.starts)
<1> DEFINE u == SubSeq(t, 1, pos)
           v == SubSeq(t, pos + len + 1, Len(t))
           here == RemovedFrom(l, t, pos)
           done == LinesRemoved(BeforeRemoving(l, t, pos, len), t, pos, len, here)
           k == here - 1
           d == -len
           B == Shifted(BreaksLeft(t, pos, len), d)
           F == LineBreaks(u)
           n == Partitions(l.starts)
           p == done.starts
           m == BasicDeleteChars(l, t, pos, len)
<1>1. Len(t) \in Nat /\ pos \in 0 .. Len(t) /\ pos \in Int /\ len \in Nat /\ len > 0 /\ d \in Int
    BY LenProperties
<1>2. IsDeleted(w, t, pos, len, u, v) /\ u \in Seq(C) /\ v \in Seq(C) /\ w \in Seq(C)
    BY DeletedIs, Zenon
<1>3. LineFromPosition(l, pos) \in Nat /\ n \in Nat \ {0} /\ n \in Int
    <2> HIDE DEF n
    <2>1. LineFromPosition(l, pos) \in Nat /\ Partitions(l.starts) \in Nat \ {0}
        BY LinesHaveIndex, Zenon
    <2> QED BY <2>1 DEF n
<1>4. CASE pos = 0 /\ len = Len(t)
    <2>1. m = EmptyLines
        BY <1>4 DEF BasicDeleteChars
    <2>2. Len(w) = 0
        BY <1>1, <1>2, <1>4 DEF IsDeleted
    <2> HIDE DEF m, n
    <2>3. /\ AreLines(EmptyLines) /\ IndexOf(EmptyLines.starts, LineBreaks(w), Len(w))
          /\ Partitions(EmptyLines.starts) = 1
        BY <2>2, <1>2, EmptyIndex
    <2> QED BY <2>1, <2>3, <1>3 DEF m, n
<1>5. CASE ~(pos = 0 /\ len = Len(t))
    <2>1. m = IF CharAt(t, pos - 1) = CR /\ CharAt(t, pos + len) = LF
              THEN SetLineStart(RemoveLine(done, k), k, pos + 1)
              ELSE done
        <3> DEFINE line == LineFromPosition(l, pos) + 1
        <3>1. (IF SplitsPair(t, pos) THEN line + 1 ELSE line) = here
            BY <1>3 DEF RemovedFrom
        <3>2. (IF SplitsPair(t, pos) THEN SetLineStart(GrowLine(l, line - 1, d), line, pos)
               ELSE GrowLine(l, line - 1, d)) = BeforeRemoving(l, t, pos, len)
            BY DEF BeforeRemoving
        <3> HIDE DEF line, here
        <3> QED BY <3>1, <3>2, <1>5 DEF BasicDeleteChars, line
    <2>2. StillRemoving(done, u, B, Len(t) - len, here, n)
        <3> DEFINE first == BeforeRemoving(l, t, pos, len)
                   end == Len(t) - len
        <3>1. StillRemoving(first, u, Shifted(BreaksLeft(t, pos, 0), d), end, here, n)
            BY <1>1, RemovingStarts, Zenon
        <3> HIDE DEF first, end, u, here, n, d
        <3> QED BY <3>1, <1>1, <1>3, RemovingEnds DEF first, end
    <2>3. AreLines(done) /\ Splits(p, here, F, B, Len(w)) /\ Partitions(p) <= n
        <3> HIDE DEF done, u, v, B, here, n
        <3> QED BY <2>2, <1>2 DEF StillRemoving, IsDeleted, F
    <2>4. /\ LineBreaks(w) = (F \ (IF Pair(u, v) THEN {pos} ELSE {})) \cup B
          /\ B = Shifted(LineBreaks(v), pos) /\ Len(u) = pos
          /\ Pair(u, v) <=> CharAt(t, pos - 1) = CR /\ CharAt(t, pos + len) = LF
        <3> HIDE DEF u, v
        <3> QED BY <1>2 DEF IsDeleted, F, B, Pair
    <2>5. F \subseteq 1 .. pos /\ LineBreaks(v) \subseteq 1 .. Len(v) /\ Len(v) \in Nat
        <3> HIDE DEF u, v
        <3> QED BY <2>4, <1>2, BreaksBounded, LenProperties DEF F
    <2>6. F \subseteq Int /\ B \subseteq Int /\ (\A e \in F : e <= pos) /\ \A f \in B : pos + 1 <= f
        <3> HIDE DEF F, v, B
        <3>1. \A e \in LineBreaks(v) : e + pos \in Int /\ pos + 1 <= e + pos
            BY <2>5, <1>1
        <3>2. \A f \in B : f \in Int /\ pos + 1 <= f
            BY <3>1, <2>4 DEF Shifted
        <3> QED BY <3>2, <2>5, <1>1
    <2> HIDE DEF u, v, here, done, B, F, n, m, d
    <2>7. \A e \in F, f \in B : e < f
        BY <2>6, <1>1
    <2>8. CASE ~Pair(u, v)
        <3>1. m = done /\ LineBreaks(w) = F \cup B
            BY <2>1, <2>4, <2>8
        <3>2. IndexOf(p, F \cup B, Len(w))
            BY <2>3, <2>6, <2>7, SplitsJoin
        <3> QED BY <3>1, <3>2, <2>3 DEF m, n
    <2>9. CASE Pair(u, v)
        <3> DEFINE q == RemovePartition(p, k)
                   G == F \ {pos}
                   r == SetPartitionStartPosition(q, k, pos + 1)
                   less == RemoveLine(done, k)
        <3>1. m = SetLineStart(less, k, pos + 1) /\ LineBreaks(w) = G \cup B
            BY <2>1, <2>4, <2>9
        <3>2. pos \in F
            <4>1. CharAt(u, pos - 1) = CR
                BY <2>4, <2>9 DEF Pair
            <4>2. pos - 1 \in 0 .. Len(u) - 1 /\ pos \in 1 .. Len(u) /\ (pos - 1) + 1 = pos
                <5>1. pos - 1 \in 0 .. Len(u) - 1
                    BY <4>1 DEF CharAt, CR
                <5> QED BY <5>1, <2>4, <1>1
            <4>3. u[pos] = CR /\ CharAt(u, pos) = "none" /\ "none" # LF
                BY <4>1, <4>2, <2>4, <1>1 DEF CharAt, LF
            <4>4. pos \in LineBreaks(u)
                BY <4>2, <4>3, <1>2, BreakIs
            <4> QED BY <4>4 DEF F
        <3>3. pos + 1 \in B
            <4>1. CharAt(v, 0) = LF
                BY <2>9 DEF Pair
            <4>2. 0 \in 0 .. Len(v) - 1 /\ 1 \in 1 .. Len(v)
                <5>1. 0 \in 0 .. Len(v) - 1
                    BY <4>1 DEF CharAt, LF
                <5> QED BY <5>1, <2>5
            <4>3. v[1] = LF
                BY <4>1, <4>2 DEF CharAt
            <4>4. 1 \in LineBreaks(v)
                BY <4>2, <4>3, <1>2, BreakIs
            <4>5. 1 + pos = pos + 1
                BY <1>1
            <4> QED BY <4>4, <4>5, <2>4 DEF Shifted
        <3>4. here > 1 /\ PositionFromPartition(p, k) = pos
            <4> HIDE DEF p
            <4>1. here > 1 /\ PositionFromPartition(p, here - 1) = pos
                BY <2>3, <2>6, <3>2, LastBreak
            <4> QED BY <4>1
        <3>5. Splits(q, k, G, B, Len(w))
            <4> DEFINE end == Len(w)
            <4> HIDE DEF p, end
            <4>1. Splits(p, here, F, B, end) /\ pos = PositionFromPartition(p, here - 1)
                BY <2>3, <3>4 DEF end
            <4>2. Splits(RemovePartition(p, here - 1), here - 1, F \ {pos}, B, end)
                BY <4>1, <3>4, SplitsRemoveLast
            <4> QED BY <4>2 DEF end
        <3> HIDE DEF q, r, G, less, k
        <3>6. k \in 1 .. Partitions(q) - 1 /\ PositionFromPartition(q, k) = pos + 1
            <4> DEFINE b == pos + 1
            <4>1. b \in B /\ B \subseteq Int /\ \A f \in B : b <= f
                BY <2>6, <3>3
            <4> HIDE DEF b
            <4>2. k \in 1 .. Partitions(q) - 1 /\ PositionFromPartition(q, k) = b
                BY <4>1, <3>5, FirstBreak
            <4> QED BY <4>2 DEF b
        <3>7. IndexOf(q, G \cup B, Len(w))
            <4>1. G \subseteq Int /\ \A e \in G, f \in B : e < f
                BY <2>6, <2>7 DEF G
            <4> QED BY <4>1, <2>6, <3>5, SplitsJoin
        <3>8. /\ WellFormed(p) /\ Partitions(p) > 1 /\ Partitions(q) = Partitions(p) - 1
              /\ k \in 1 .. Partitions(p) - 1 /\ Partitions(p) \in Nat
              /\ k \in 0 .. Partitions(q) /\ q.step <= k + 1
            <4>1. /\ WellFormed(p) /\ WellFormed(q) /\ here \in 1 .. Partitions(p) /\ q.step <= k
                BY <2>3, <3>5 DEF Splits
            <4>2. /\ Partitions(p) \in Nat \ {0} /\ Partitions(p) = Len(p.body) - 1
                  /\ Partitions(q) \in Nat \ {0} /\ Partitions(q) = Len(q.body) - 1 /\ q.step \in Int
                BY <4>1, PlaceIsNumber
            <4>3. k = here - 1 /\ k \in 0 .. Partitions(p) /\ Partitions(p) > 1
                BY <4>1, <4>2, <3>4 DEF k
            <4>4. Len(q.body) = Len(p.body) - 1
                BY <4>1, <4>3, RemovePartitionShifts DEF q
            <4> HIDE DEF p
            <4>5. Len(p.body) \in Int
                BY <4>1, Form
            <4>6. Partitions(q) = Partitions(p) - 1 /\ k \in 1 .. Partitions(p) - 1
                  /\ k \in 0 .. Partitions(q) /\ q.step <= k + 1
                BY <4>1, <4>2, <4>3, <4>4, <4>5, <3>6
            <4> QED BY <4>1, <4>2, <4>3, <4>6
        <3>9. IndexOf(r, G \cup B, Len(w)) /\ Partitions(r) = Partitions(q)
            <4> DEFINE b == pos + 1
                       S == G \cup B
                       end == Len(w)
            <4>1. b \in Int /\ IndexOf(q, S, end) /\ PositionFromPartition(q, k) = b
                BY <1>1, <3>6, <3>7
            <4> HIDE DEF b, S, end
            <4>2. LET s == SetPartitionStartPosition(q, k, b)
                  IN  IndexOf(s, S, end) /\ Partitions(s) = Partitions(q)
                BY <4>1, <3>8, IndexSet
            <4> QED BY <4>2 DEF b, S, end, r
        <3>10. AreLines(less) /\ less.starts = q
            <4>1. /\ WellFormed(done.starts) /\ k \in 1 .. Partitions(done.starts) - 1
                  /\ Partitions(RemovePartition(done.starts, k)) = Partitions(done.starts) - 1
                BY <3>8 DEF q
            <4> QED BY <4>1, <2>3, MarkerPulled DEF less, q
        <3>11. m = [less EXCEPT !.starts = r]
            BY <3>1, <3>10 DEF SetLineStart, r
        <3>12. AreLines(m) /\ m.starts = r
            BY <3>9, <3>10, <3>11, MarkerStays
        <3>13. Partitions(r) <= n
            BY <2>3, <3>8, <3>9, <1>3
        <3> QED BY <3>1, <3>9, <3>12, <3>13 DEF m, n
    <2> QED BY <2>8, <2>9
<1> QED BY <1>4, <1>5

Chars == {CR, LF, "a"}

IsDeco(d, n) ==
    /\ d = [length |-> d.length, list |-> d.list, current |-> d.current, indicator |-> d.indicator]
    /\ d.length = n
    /\ DOMAIN d.list \subseteq Indicators
    /\ d.indicator \in Indicators

FoldLine == [visible : BOOLEAN, expanded : BOOLEAN, height : Nat]

IsFolds(f, n) == f \in Seq(FoldLine) /\ Len(f) = n

LinesInv ==
    /\ use \in Uses
    /\ steps \in 0 .. MaxSteps[use]
    /\ text \in Seq(Chars) /\ Len(text) <= MaxLen[use]
    /\ AreLines(lines) /\ IndexOf(lines.starts, LineBreaks(text), Len(text))
    /\ IsDeco(deco, Len(text))
    /\ IsFolds(folds, Lines(lines))

LEMMA LinesInvFollows ==
    ASSUME LinesInv
    PROVE  LinesFollowText
<1>1. WellFormed(lines.starts) /\ Partitions(lines.starts) \in Nat
    BY PlaceIsNumber DEF LinesInv, IndexOf
<1>2. AreLineStarts(Starts(lines.starts), text)
    BY <1>1, IndexIsLineStarts DEF LinesInv
<1>3. lines.marker \in {NoMarker} \cup 0 .. Lines(lines) - 1
    BY <1>1 DEF LinesInv, AreLines, NoMarker, Lines
<1> QED BY <1>2, <1>3 DEF LinesInv, LinesFollowText, TypeOK, IsDeco, IsFolds, Chars

(***************************************************************************)
(* The decorations are as long as the text.                                *)
(***************************************************************************)

LEMMA DecoInserts ==
    ASSUME NEW d, NEW n \in Int, IsDeco(d, n), NEW pos, NEW len \in Int
    PROVE  IsDeco(DecorationsInsert(d, pos, len), n + len)
<1> DEFINE list == [i \in DOMAIN d.list |->
                       IF pos = d.length THEN FillRange(InsertSpace(d.list[i], pos, len), pos, 0, len)
                       ELSE InsertSpace(d.list[i], pos, len)]
<1>1. DOMAIN list = DOMAIN d.list
    OBVIOUS
<1>2. DecorationsInsert(d, pos, len) = [d EXCEPT !.length = d.length + len, !.list = list]
    BY DEF DecorationsInsert
<1> HIDE DEF list
<1> QED BY <1>1, <1>2 DEF IsDeco

LEMMA DecoLoses ==
    ASSUME NEW d, NEW n, IsDeco(d, n), NEW gone
    PROVE  IsDeco(Delete(d, gone), n)
<1> DEFINE list == [i \in DOMAIN d.list \ gone |-> d.list[i]]
           current == IF gone \cap DOMAIN d.list # {} THEN Null ELSE d.current
<1>1. DOMAIN list \subseteq DOMAIN d.list
    OBVIOUS
<1>2. Delete(d, gone) = [d EXCEPT !.list = list, !.current = current]
    BY DEF Delete
<1> HIDE DEF list, current
<1> QED BY <1>1, <1>2 DEF IsDeco

LEMMA DecoDeletes ==
    ASSUME NEW d, NEW n \in Int, IsDeco(d, n), NEW pos, NEW len \in Int
    PROVE  IsDeco(DecorationsDelete(d, pos, len), n - len)
<1> DEFINE list == [i \in DOMAIN d.list |-> DeleteRange(d.list[i], pos, len)]
           cut == [d EXCEPT !.length = d.length - len, !.list = list]
           gone == {i \in DOMAIN cut.list : cut.length = 0 \/ IsEmptyDecoration(cut.list[i])}
<1>1. DOMAIN list = DOMAIN d.list
    OBVIOUS
<1>2. DecorationsDelete(d, pos, len) = Delete(cut, gone)
    BY DEF DecorationsDelete
<1>3. cut = [d EXCEPT !.length = d.length - len, !.list = list]
    OBVIOUS
<1> HIDE DEF list, cut, gone
<1>4. IsDeco(cut, n - len)
    BY <1>1, <1>3 DEF IsDeco
<1> QED BY <1>2, <1>4, DecoLoses

LEMMA DecoSelects ==
    ASSUME NEW d, NEW n, IsDeco(d, n), NEW i \in Indicators
    PROVE  IsDeco(SetCurrentIndicator(d, i), n)
<1> DEFINE current == IF i \in DOMAIN d.list THEN i ELSE Null
<1>1. SetCurrentIndicator(d, i) = [d EXCEPT !.indicator = i, !.current = current]
    BY DEF SetCurrentIndicator
<1> HIDE DEF current
<1> QED BY <1>1 DEF IsDeco

LEMMA DecoCurrent ==
    ASSUME NEW d, NEW n, IsDeco(d, n)
    PROVE  IsDeco(WithCurrent(d), n)
<1> DEFINE e == SetCurrentIndicator(d, d.indicator)
           list == [i \in DOMAIN e.list \cup {d.indicator} |->
                       IF i \in DOMAIN e.list THEN e.list[i]
                       ELSE InsertSpace(NewRunStyles, 0, d.length)]
<1>1. IsDeco(e, n) /\ d.indicator \in Indicators
    BY DecoSelects DEF IsDeco
<1>2. WithCurrent(d) =
          IF d.current # Null THEN d ELSE [e EXCEPT !.list = list, !.current = d.indicator]
    BY DEF WithCurrent
<1>3. DOMAIN list = DOMAIN e.list \cup {d.indicator}
    OBVIOUS
<1> HIDE DEF e, list
<1> QED BY <1>1, <1>2, <1>3 DEF IsDeco

LEMMA DecoFills ==
    ASSUME NEW d, NEW n, IsDeco(d, n), NEW pos, NEW value, NEW len
    PROVE  IsDeco(DecorationFillRange(d, pos, value, len), n)
<1> DEFINE e == WithCurrent(d)
           filled == [e EXCEPT !.list[d.indicator] = FillRange(@, pos, value, len)]
<1>1. IsDeco(e, n)
    BY DecoCurrent
<1>2. DecorationFillRange(d, pos, value, len) =
          IF IsEmptyDecoration(filled.list[d.indicator]) THEN Delete(filled, {d.indicator}) ELSE filled
    BY DEF DecorationFillRange
<1> HIDE DEF e
<1>3. IsDeco(filled, n)
    BY <1>1 DEF IsDeco
<1> HIDE DEF filled
<1> QED BY <1>2, <1>3, DecoLoses

(***************************************************************************)
(* The history of the folds has an element for each line.                  *)
(***************************************************************************)

LEMMA UnfoldedIs == Unfolded \in FoldLine
BY DEF Unfolded, FoldLine

\* Lines come in at a line, or go from there.
LEMMA FoldedIs ==
    ASSUME NEW f, NEW n \in Nat, NEW m \in Nat, IsFolds(f, n), NEW before, NEW after,
           Lines(before) = n, Lines(after) = m, NEW pos, NEW at \in Nat, at = LineOfChange(after, pos),
           at <= n, at <= m
    PROVE  IsFolds(Folded(f, before, after, pos), m)
<1> DEFINE added == m - n
           new == [k \in 1 .. added |-> Unfolded]
           a == SubSeq(f, 1, at)
           gone == Max({0, -added})
           b == SubSeq(f, at + 1 + gone, Len(f))
<1>1. Folded(f, before, after, pos) = a \o new \o b
    BY DEF Folded
<1>2. a \in Seq(FoldLine) /\ Len(a) = at
    BY DEF IsFolds
<1>3. gone \in Nat /\ gone = IF added > 0 THEN 0 ELSE n - m
    <2>1. CASE added > 0
        <3>1. Max({0, -added}) = 0
            BY <2>1 DEF Max
        <3> QED BY <2>1, <3>1
    <2>2. CASE ~(added > 0)
        <3>1. Max({0, -added}) = n - m
            BY <2>2 DEF Max
        <3> QED BY <2>2, <3>1
    <2> QED BY <2>1, <2>2
<1>4. new \in Seq(FoldLine) /\ Len(new) = IF added > 0 THEN added ELSE 0
    <2>1. CASE added > 0
        <3> DEFINE k == added
        <3>1. k \in Nat
            BY <2>1
        <3> HIDE DEF k
        <3>2. [i \in 1 .. k |-> Unfolded] \in Seq(FoldLine) /\ Len([i \in 1 .. k |-> Unfolded]) = k
            BY <3>1, UnfoldedIs
        <3> QED BY <3>2, <2>1 DEF k
    <2>2. CASE ~(added > 0)
        <3>1. 1 .. added = {}
            BY <2>2
        <3>2. new = [k \in {} |-> Unfolded]
            BY <3>1
        <3>3. new = << >>
            BY <3>2
        <3> HIDE DEF new
        <3>4. new \in Seq(FoldLine) /\ Len(new) = 0
            BY <3>3
        <3> QED BY <3>4, <2>2
    <2> QED BY <2>1, <2>2
<1> HIDE DEF gone, new
<1>5. b \in Seq(FoldLine) /\ Len(b) = n - at - gone
    <2> DEFINE k == at + gone
    <2>1. k \in Nat /\ k <= n
        BY <1>3
    <2> HIDE DEF k
    <2>2. SubSeq(f, k + 1, n) \in Seq(FoldLine) /\ Len(SubSeq(f, k + 1, n)) = n - k
        BY <2>1, CutIs DEF IsFolds
    <2>3. at + 1 + gone = k + 1 /\ n - at - gone = n - k /\ Len(f) = n
        BY <1>3 DEF k, IsFolds
    <2> QED BY <2>2, <2>3
<1> HIDE DEF a, b
<1>6. a \o new \in Seq(FoldLine) /\ Len(a \o new) = at + Len(new) /\ Len(new) \in Nat
    <2>1. Len(new) \in Nat
        BY <1>4
    <2> QED BY <2>1, <1>2, <1>4, JoinIs
<1>7. (a \o new) \o b \in Seq(FoldLine) /\ Len((a \o new) \o b) = (at + Len(new)) + Len(b)
    <2> DEFINE c == a \o new
    <2>1. c \in Seq(FoldLine) /\ Len(c) = at + Len(new)
        BY <1>6
    <2> HIDE DEF c
    <2>2. b \in Seq(FoldLine)
        BY <1>5
    <2>3. c \o b \in Seq(FoldLine) /\ Len(c \o b) = Len(c) + Len(b)
        BY <2>1, <2>2, JoinIs
    <2> QED BY <2>1, <2>3 DEF c
<1>8. (at + Len(new)) + Len(b) = m
    <2> DEFINE j == Len(new)
               k == Len(b)
    <2>1. /\ j = IF added > 0 THEN added ELSE 0
          /\ k = n - at - (IF added > 0 THEN 0 ELSE n - m)
        BY <1>3, <1>4, <1>5
    <2> HIDE DEF j, k
    <2>2. (at + j) + k = m
        BY <2>1
    <2> QED BY <2>2 DEF j, k
<1> QED BY <1>1, <1>7, <1>8 DEF IsFolds

\* The line where a change shows is one of the new lines, or after the last.
LEMMA ChangeIsInside ==
    ASSUME NEW l, NEW S, NEW end, IndexOf(l.starts, S, end), NEW pos \in Nat
    PROVE  LineOfChange(l, pos) \in 0 .. Partitions(l.starts)
<1> DEFINE line == LineFromPosition(l, pos)
<1>1. line \in 0 .. Partitions(l.starts) - 1
    BY LineFound DEF LineFromPosition, IsLineAt
<1>2. Partitions(l.starts) \in Nat
    BY PlaceIsNumber DEF IndexOf
<1>3. LineOfChange(l, pos) \in {line, line + 1}
    BY DEF LineOfChange
<1> HIDE DEF line
<1> QED BY <1>1, <1>2, <1>3

\* An insertion adds lines after that of its position.
LEMMA ChangeIsBefore ==
    ASSUME NEW l, NEW S, NEW end, IndexOf(l.starts, S, end), NEW pos \in Nat,
           NEW n \in Nat, NEW line \in 0 .. n - 1, Beyond(l.starts, n, line, pos)
    PROVE  LineOfChange(l, pos) <= n
<1> DEFINE k == LineFromPosition(l, pos)
           p == l.starts
           z == Partitions(p)
           at == PositionFromPartition(p, k)
<1>1. /\ k \in 0 .. z - 1 /\ at <= pos
      /\ \A j \in 0 .. k : PositionFromPartition(p, j) <= pos
    <2>1. IsLineAt(p, k, pos)
        BY LineFound DEF LineFromPosition
    <2>2. z \in Nat
        BY PlaceIsNumber DEF IndexOf
    <2> HIDE DEF k, z
    <2>3. k \in 0 .. k
        BY <2>1, <2>2 DEF IsLineAt, z
    <2> QED BY <2>1, <2>3 DEF IsLineAt, z
<1>2. /\ z \in Nat /\ \A j \in 0 .. z : PositionFromPartition(p, j) \in Int
      /\ Lists(p, 1, z - 1, S)
    BY PlaceIsNumber DEF IndexOf
<1>3. LineOfChange(l, pos) = IF pos > at THEN k + 1 ELSE k
    BY DEF LineOfChange
<1>4. \A j \in line + 1 .. z : PositionFromPartition(p, j) >= pos
    BY DEF Beyond
<1> HIDE DEF k, z
<1>5. k \in 0 .. z /\ at \in Int
    BY <1>1, <1>2
<1> HIDE DEF at
<1>6. CASE pos > at
    <2>1. ~(k \in line + 1 .. z)
        BY <1>4, <1>5, <1>6 DEF at
    <2> QED BY <2>1, <1>1, <1>2, <1>3, <1>6
<1>7. CASE ~(pos > at)
    <2>1. SUFFICES ASSUME k > line + 1 PROVE FALSE
        BY <1>1, <1>2, <1>3, <1>7
    <2>2. k - 1 \in line + 1 .. z /\ k - 1 \in 1 .. z - 1 /\ k \in 1 .. z - 1 /\ k - 1 < k
        BY <2>1, <1>1, <1>2
    <2>3. PositionFromPartition(p, k - 1) >= pos
        BY <2>2, <1>4
    <2>4. PositionFromPartition(p, k - 1) < at
        BY <2>2, <1>2 DEF Lists, at
    <2>5. PositionFromPartition(p, k - 1) \in Int
        BY <2>2, <1>2
    <2> QED BY <2>3, <2>4, <2>5, <1>1, <1>5
<1> QED BY <1>6, <1>7

LEMMA ViewParameters ==
    /\ \A u \in Uses : Strings[u] \subseteq Seq(Chars) \ {<<>>}
    /\ 0 \in Indicators
BY ViewAssumption DEF Chars

LEMMA InsertionKeeps ==
    ASSUME LinesInv, NEW pos \in 0 .. Len(text), NEW s \in Strings[use],
           Len(text) + Len(s) <= MaxLen[use], InsertString(pos, s),
           steps' \in 0 .. MaxSteps[use]
    PROVE  LinesInv'
<1> DEFINE after == BasicInsertString(lines, text, pos, s)
           w == Inserted(text, pos, s)
           n == Lines(lines)
           m == Lines(after)
           at == LineOfChange(after, pos)
           line == LineFromPosition(lines, pos)
<1>1. /\ text \in Seq(Chars) /\ AreLines(lines) /\ use \in Uses /\ IsDeco(deco, Len(text))
      /\ IndexOf(lines.starts, LineBreaks(text), Len(text)) /\ IsFolds(folds, n)
    BY DEF LinesInv
<1>2. s \in Seq(Chars) /\ Len(s) > 0 /\ Len(s) \in Int
    <2>1. s \in Seq(Chars) /\ s # <<>>
        BY <1>1, ViewParameters
    <2> QED BY <2>1, EmptySeq, LenProperties
<1>3. Len(text) \in Nat /\ pos \in Nat
    BY <1>1, LenProperties
<1>4. /\ AreLines(after) /\ IndexOf(after.starts, LineBreaks(w), Len(w))
      /\ Beyond(after.starts, n, line, pos)
    <2> HIDE DEF w, line
    <2>1. w = Inserted(text, pos, s)
        BY DEF w
    <2>2. LET r == BasicInsertString(lines, text, pos, s)
          IN  /\ AreLines(r)
              /\ IndexOf(r.starts, LineBreaks(w), Len(w))
              /\ Beyond(r.starts, Partitions(lines.starts), LineFromPosition(lines, pos), pos)
        BY <2>1, <1>1, <1>2, InsertStringKeepsIndex
    <2> QED BY <2>2 DEF line, Lines
<1>5. w \in Seq(Chars) /\ Len(w) = Len(text) + Len(s)
    BY <1>1, <1>2, InsertedIs DEF IsInserted
<1>6. n \in Nat /\ m \in Nat /\ line \in 0 .. n - 1
    <2>1. WellFormed(lines.starts) /\ WellFormed(after.starts)
        BY <1>1, <1>4 DEF IndexOf
    <2>2. IsLineAt(lines.starts, line, pos)
        BY <1>1, <1>3, LineFound DEF LineFromPosition
    <2> HIDE DEF after, line
    <2> QED BY <2>1, <2>2, PlaceIsNumber DEF Lines, IsLineAt
<1>7. at \in Nat /\ at <= n /\ at <= m
    <2> HIDE DEF after, line, n
    <2>1. at \in 0 .. m
        BY <1>3, <1>4, ChangeIsInside DEF Lines
    <2>2. at <= n
        BY <1>3, <1>4, <1>6, ChangeIsBefore
    <2> HIDE DEF at, m
    <2> QED BY <2>1, <2>2, <1>6
<1>8. IsFolds(Folded(folds, lines, after, pos), m)
    <2> HIDE DEF after, line
    <2>1. Lines(lines) = n /\ Lines(after) = m /\ at = LineOfChange(after, pos)
        OBVIOUS
    <2> HIDE DEF n, m, at
    <2> QED BY <2>1, <1>1, <1>6, <1>7, FoldedIs
<1>9. IsDeco(DecorationsInsert(deco, pos, Len(s)), Len(w))
    <2> DEFINE z == Len(text)
               k == Len(s)
    <2>1. IsDeco(deco, z) /\ z \in Int /\ k \in Int /\ Len(w) = z + k
        BY <1>1, <1>2, <1>3, <1>5
    <2> HIDE DEF z, k, w
    <2>2. IsDeco(DecorationsInsert(deco, pos, k), z + k)
        BY <2>1, DecoInserts
    <2> QED BY <2>1, <2>2 DEF k
<1>10. /\ use' = use /\ text' = w /\ lines' = after
       /\ deco' = DecorationsInsert(deco, pos, Len(s))
       /\ folds' = Folded(folds, lines, after, pos)
    BY DEF InsertString
<1> HIDE DEF after, w, n, m, at, line
<1>11. LinesInv'
    BY <1>1, <1>4, <1>5, <1>8, <1>9, <1>10 DEF LinesInv, m, Lines
<1> QED BY <1>11

LEMMA DeletionKeeps ==
    ASSUME LinesInv, NEW pos \in 0 .. Len(text) - 1, NEW len \in 1 .. Len(text) - pos,
           DeleteChars(pos, len), steps' \in 0 .. MaxSteps[use]
    PROVE  LinesInv'
<1> DEFINE after == BasicDeleteChars(lines, text, pos, len)
           w == Deleted(text, pos, len)
           n == Lines(lines)
           m == Lines(after)
           at == LineOfChange(after, pos)
<1>1. /\ text \in Seq(Chars) /\ AreLines(lines) /\ use \in Uses /\ IsDeco(deco, Len(text))
      /\ IndexOf(lines.starts, LineBreaks(text), Len(text)) /\ IsFolds(folds, n)
      /\ Len(text) <= MaxLen[use]
    BY DEF LinesInv
<1>2. Len(text) \in Nat /\ pos \in Nat /\ len \in Nat \ {0} /\ pos + len <= Len(text)
    BY <1>1, LenProperties
<1>3. /\ AreLines(after) /\ IndexOf(after.starts, LineBreaks(w), Len(w))
      /\ m <= n
    <2> HIDE DEF w
    <2>1. w = Deleted(text, pos, len)
        BY DEF w
    <2>2. LET r == BasicDeleteChars(lines, text, pos, len)
          IN  /\ AreLines(r)
              /\ IndexOf(r.starts, LineBreaks(w), Len(w))
              /\ Partitions(r.starts) <= Partitions(lines.starts)
        BY <2>1, <1>1, <1>2, DeleteCharsKeepsIndex
    <2> QED BY <2>2 DEF Lines
<1>4. w \in Seq(Chars) /\ Len(w) = Len(text) - len
    <2>1. /\ IsDeleted(w, text, pos, len, SubSeq(text, 1, pos), SubSeq(text, pos + len + 1, Len(text)))
          /\ w \in Seq(Chars)
        BY <1>1, <1>2, DeletedIs, Zenon
    <2> QED BY <2>1 DEF IsDeleted
<1>5. n \in Nat /\ m \in Nat
    <2>1. WellFormed(lines.starts) /\ WellFormed(after.starts)
        BY <1>1, <1>3 DEF IndexOf
    <2> HIDE DEF after
    <2> QED BY <2>1, PlaceIsNumber DEF Lines
<1>6. at \in Nat /\ at <= n /\ at <= m
    <2> HIDE DEF after, n
    <2>1. at \in 0 .. m
        BY <1>2, <1>3, ChangeIsInside DEF Lines
    <2> HIDE DEF at, m
    <2> QED BY <2>1, <1>3, <1>5
<1>7. IsFolds(Folded(folds, lines, after, pos), m)
    <2> HIDE DEF after
    <2>1. Lines(lines) = n /\ Lines(after) = m /\ at = LineOfChange(after, pos)
        OBVIOUS
    <2> HIDE DEF n, m, at
    <2> QED BY <2>1, <1>1, <1>5, <1>6, FoldedIs
<1>8. IsDeco(DecorationsDelete(deco, pos, len), Len(w))
    BY <1>1, <1>2, <1>4, DecoDeletes
<1>9. /\ use' = use /\ text' = w /\ lines' = after
      /\ deco' = DecorationsDelete(deco, pos, len)
      /\ folds' = Folded(folds, lines, after, pos)
    BY DEF DeleteChars
<1>10. Len(w) <= MaxLen[use]
    <2>1. MaxLen[use] \in Nat
        BY <1>1, ViewAssumption
    <2> QED BY <2>1, <1>1, <1>2, <1>4
<1> HIDE DEF after, w, n, m, at
<1>11. LinesInv'
    BY <1>1, <1>3, <1>4, <1>7, <1>8, <1>9, <1>10 DEF LinesInv, m, Lines
<1> QED BY <1>11

LEMMA StartsEmpty ==
    IndexOf(EmptyPartitioning, LineBreaks(<<>>), Len(<<>>)) /\ AreLines(EmptyLines)
    /\ Lines(EmptyLines) = 1 /\ IsFolds(<<Unfolded>>, 1)
<1>1. <<>> \in Seq(Chars) /\ Len(<<>>) = 0
    OBVIOUS
<1>2. /\ AreLines(EmptyLines) /\ IndexOf(EmptyLines.starts, LineBreaks(<<>>), Len(<<>>))
      /\ Partitions(EmptyLines.starts) = 1
    BY <1>1, EmptyIndex
<1>3. EmptyLines.starts = EmptyPartitioning
    BY DEF EmptyLines
<1>4. IsFolds(<<Unfolded>>, 1)
    BY UnfoldedIs DEF IsFolds
<1> QED BY <1>2, <1>3, <1>4 DEF Lines

\* The other steps leave the text and its lines alone, but for the marker.
LEMMA OthersKeep ==
    ASSUME LinesInv, NEW f, IsFolds(f, Lines(lines)), NEW d, IsDeco(d, Len(text)),
           NEW l, AreLines(l), l.starts = lines.starts,
           UNCHANGED <<use, text>>, lines' = l, deco' = d, folds' = f,
           steps' \in 0 .. MaxSteps[use]
    PROVE  LinesInv'
BY DEF LinesInv, Lines

LEMMA LinesInit == Init => LinesInv
<1> SUFFICES ASSUME Init PROVE LinesInv
    OBVIOUS
<1>1. use \in Uses /\ steps = 0 /\ text = <<>> /\ lines = EmptyLines /\ deco = NoDecorations
      /\ folds = <<Unfolded>>
    BY DEF Init
<1>2. MaxSteps[use] \in Nat /\ MaxLen[use] \in Nat
    BY <1>1, ViewAssumption
<1>3. IsDeco(NoDecorations, 0)
    BY ViewParameters DEF NoDecorations, IsDeco
<1>4. <<>> \in Seq(Chars) /\ Len(<<>>) = 0
    OBVIOUS
<1>5. EmptyLines.starts = EmptyPartitioning
    BY DEF EmptyLines
<1> QED BY <1>1, <1>2, <1>3, <1>4, <1>5, StartsEmpty DEF LinesInv

LEMMA LinesStep ==
    ASSUME LinesInv, [Next]_vars
    PROVE  LinesInv'
<1>1. CASE UNCHANGED vars
    BY <1>1 DEF LinesInv, vars
<1>2. CASE Next
    <2>1. /\ text \in Seq(Chars) /\ AreLines(lines) /\ use \in Uses /\ IsDeco(deco, Len(text))
          /\ IndexOf(lines.starts, LineBreaks(text), Len(text)) /\ IsFolds(folds, Lines(lines))
          /\ Len(text) <= MaxLen[use] /\ steps \in 0 .. MaxSteps[use]
        BY DEF LinesInv
    <2>2. steps' \in 0 .. MaxSteps[use]
        <3>1. steps < MaxSteps[use] /\ steps' = steps + 1 /\ MaxSteps[use] \in Nat
            BY <1>2, <2>1, ViewAssumption DEF Next
        <3> QED BY <3>1, <2>1
    <2>3. Lines(lines) \in Nat \ {0} /\ DOMAIN folds = 1 .. Lines(lines)
          /\ \A k \in 1 .. Lines(lines) : folds[k] \in FoldLine
        <3>1. WellFormed(lines.starts)
            BY <2>1 DEF IndexOf
        <3>2. Lines(lines) \in Nat \ {0}
            BY <3>1, PlaceIsNumber DEF Lines
        <3> QED BY <3>2, <2>1, LenProperties, ElementOfSeq DEF IsFolds
    <2>4. CASE Type
        <3>1. PICK pos \in 0 .. Len(text), s \in Strings[use] :
                  Len(text) + Len(s) <= MaxLen[use] /\ InsertString(pos, s)
            BY <2>4 DEF Type
        <3> QED BY <3>1, <2>2, InsertionKeeps
    <2>5. CASE Erase
        <3>1. PICK pos \in 0 .. Len(text) - 1 : \E len \in 1 .. Len(text) - pos : DeleteChars(pos, len)
            BY <2>5 DEF Erase
        <3>2. PICK len \in 1 .. Len(text) - pos : DeleteChars(pos, len)
            BY <3>1
        <3> QED BY <3>2, <2>2, DeletionKeeps
    <2>6. CASE ClearAll
        <3>1. /\ use' = use /\ text' = <<>> /\ folds' = <<Unfolded>>
              /\ lines' = IF text = <<>> THEN lines ELSE EmptyLines
              /\ deco' = IF text = <<>> THEN deco ELSE DecorationsDelete(deco, 0, Len(text))
            BY <2>6 DEF ClearAll
        <3>2. IsDeco(deco', 0)
            <4>1. Len(text) \in Int /\ Len(text) - Len(text) = 0
                BY <2>1, LenProperties
            <4> DEFINE n == Len(text)
            <4>2. text # <<>> => IsDeco(DecorationsDelete(deco, 0, n), n - n)
                <5> HIDE DEF n
                <5>1. n \in Int /\ IsDeco(deco, n)
                    BY <4>1, <2>1 DEF n
                <5> QED BY <5>1, DecoDeletes
            <4>3. text = <<>> => IsDeco(deco, 0)
                BY <2>1
            <4> QED BY <4>1, <4>2, <4>3, <3>1
        <3>3. AreLines(lines') /\ IndexOf(lines'.starts, LineBreaks(<<>>), Len(<<>>)) /\ Lines(lines') = 1
            <4>1. CASE text # <<>>
                <5>1. EmptyLines.starts = EmptyPartitioning
                    BY DEF EmptyLines
                <5> QED BY <4>1, <5>1, <3>1, StartsEmpty
            <4>2. CASE text = <<>>
                <5>1. /\ lines' = lines /\ AreLines(lines)
                      /\ IndexOf(lines.starts, LineBreaks(<<>>), Len(<<>>))
                    BY <4>2, <3>1, <2>1
                <5>2. LineBreaks(<<>>) = {}
                    BY DEF LineBreaks
                <5>3. Lists(lines.starts, 1, Partitions(lines.starts) - 1, {})
                    BY <5>1, <5>2 DEF IndexOf
                <5>4. Partitions(lines.starts) = 1
                    <6>1. Partitions(lines.starts) \in Nat \ {0}
                        BY <2>3 DEF Lines
                    <6> DEFINE z == Partitions(lines.starts)
                    <6>2. z > 1 => 1 \in 1 .. z - 1
                        BY <6>1
                    <6>3. z = 1 \/ z > 1
                        BY <6>1
                    <6> HIDE DEF z
                    <6>4. ~(1 \in 1 .. z - 1)
                        BY <5>3 DEF Lists, z
                    <6> QED BY <6>2, <6>3, <6>4 DEF z
                <5> QED BY <5>1, <5>4 DEF Lines
            <4> QED BY <4>1, <4>2
        <3>4. <<>> \in Seq(Chars) /\ Len(<<>>) = 0 /\ MaxLen[use] \in Nat /\ IsFolds(<<Unfolded>>, 1)
            BY <2>1, ViewAssumption, StartsEmpty
        <3> QED BY <2>1, <2>2, <3>1, <3>2, <3>3, <3>4 DEF LinesInv
    <2>7. CASE AddMarker
        <3>1. /\ UNCHANGED <<use, text, deco, folds>>
              /\ \E line \in 0 .. Lines(lines) - 1 : lines' = [lines EXCEPT !.marker = line]
            BY <2>7 DEF AddMarker
        <3>2. PICK line \in 0 .. Lines(lines) - 1 : lines' = [lines EXCEPT !.marker = line]
            BY <3>1
        <3>3. AreLines(lines') /\ lines'.starts = lines.starts
            BY <3>2, <2>1, <2>3 DEF AreLines, Lines
        <3> QED BY <3>1, <3>3, <2>1, <2>2, OthersKeep
    <2>8. CASE SelectIndicator
        <3>1. UNCHANGED <<use, text, lines, folds>>
              /\ \E i \in Indicators : deco' = SetCurrentIndicator(deco, i)
            BY <2>8 DEF SelectIndicator
        <3>2. IsDeco(deco', Len(text))
            BY <3>1, <2>1, DecoSelects
        <3> QED BY <3>1, <3>2, <2>1, <2>2, OthersKeep
    <2>9. CASE IndicatorRange
        <3>1. UNCHANGED <<use, text, lines, folds>>
            BY <2>9 DEF IndicatorRange
        <3>2. PICK pos \in 0 .. Len(text) - 1 : \E len \in 1 .. Len(text) - pos, value \in {0, 1, 2} :
                  deco' = DecorationFillRange(deco, pos, value, len)
            BY <2>9 DEF IndicatorRange
        <3>3. PICK len \in 1 .. Len(text) - pos, value \in {0, 1, 2} :
                  deco' = DecorationFillRange(deco, pos, value, len)
            BY <3>2
        <3>4. IsDeco(deco', Len(text))
            BY <3>3, <2>1, DecoFills
        <3> QED BY <3>1, <3>4, <2>1, <2>2, OthersKeep
    <2>10. ASSUME NEW shown \in BOOLEAN, ShowLines(shown)
           PROVE  LinesInv'
        <3>1. UNCHANGED <<use, text, lines, deco>>
            BY <2>10 DEF ShowLines
        <3>2. PICK first \in Int, last \in Int :
                  folds' = [k \in DOMAIN folds |->
                      IF k - 1 \in first .. last THEN [folds[k] EXCEPT !.visible = shown] ELSE folds[k]]
            <4>1. (IF shown THEN 0 ELSE 1) \in Int
                OBVIOUS
            <4> QED BY <2>10, <4>1 DEF ShowLines
        <3>3. IsFolds(folds', Lines(lines))
            <4>1. \A k \in 1 .. Lines(lines) : [folds[k] EXCEPT !.visible = shown] \in FoldLine
                BY <2>3 DEF FoldLine
            <4>2. folds' \in [1 .. Lines(lines) -> FoldLine]
                BY <3>2, <4>1, <2>3
            <4> QED BY <4>2, <2>3 DEF IsFolds
        <3> QED BY <3>1, <3>3, <2>1, <2>2, OthersKeep
    <2>11. CASE SetFoldExpanded
        <3>1. UNCHANGED <<use, text, lines, deco>>
            BY <2>11 DEF SetFoldExpanded
        <3>2. PICK line \in 0 .. Lines(lines) - 1, expanded \in BOOLEAN :
                  folds' = [folds EXCEPT ![line + 1].expanded = expanded]
            BY <2>11 DEF SetFoldExpanded
        <3>3. IsFolds(folds', Lines(lines))
            <4>1. line + 1 \in 1 .. Lines(lines)
                BY <2>3
            <4>2. [folds[line + 1] EXCEPT !.expanded = expanded] \in FoldLine
                BY <4>1, <2>3 DEF FoldLine
            <4>3. folds' \in [1 .. Lines(lines) -> FoldLine]
                BY <3>2, <4>1, <4>2, <2>3
            <4> QED BY <4>3, <2>3 DEF IsFolds
        <3> QED BY <3>1, <3>3, <2>1, <2>2, OthersKeep
    <2>12. CASE SetLineHeight
        <3>1. UNCHANGED <<use, text, lines, deco>>
            BY <2>12 DEF SetLineHeight
        <3>2. PICK line \in 0 .. Lines(lines) - 1, height \in 1 .. MaxHeight :
                  folds' = [folds EXCEPT ![line + 1].height = height]
            BY <2>12 DEF SetLineHeight
        <3>3. IsFolds(folds', Lines(lines))
            <4>1. line + 1 \in 1 .. Lines(lines) /\ height \in Nat
                BY <2>3, ViewAssumption
            <4>2. [folds[line + 1] EXCEPT !.height = height] \in FoldLine
                BY <4>1, <2>3 DEF FoldLine
            <4>3. folds' \in [1 .. Lines(lines) -> FoldLine]
                BY <3>2, <4>1, <4>2, <2>3
            <4> QED BY <4>3, <2>3 DEF IsFolds
        <3> QED BY <3>1, <3>3, <2>1, <2>2, OthersKeep
    <2>13. CASE ShowAll
        <3>1. UNCHANGED <<use, text, lines, deco>> /\ folds' = [k \in DOMAIN folds |-> Unfolded]
            BY <2>13 DEF ShowAll
        <3>2. IsFolds(folds', Lines(lines))
            <4>1. folds' \in [1 .. Lines(lines) -> FoldLine]
                BY <3>1, <2>3, UnfoldedIs
            <4> QED BY <4>1, <2>3 DEF IsFolds
        <3> QED BY <3>1, <3>2, <2>1, <2>2, OthersKeep
    <2>14. Step
        BY <1>2 DEF Next
    <2> QED BY <2>4, <2>5, <2>6, <2>7, <2>8, <2>9, <2>10, <2>11, <2>12, <2>13, <2>14 DEF Step
<1> QED BY <1>1, <1>2

\* The line index of every reachable state lists the lines of the text
\* (LineVector::InsertText and the two InsertLine calls of BasicInsertString,
\* RemoveLine and SetLineStart of BasicDeleteChars).
THEOREM LinesAlwaysFollowText == Spec => []LinesFollowText
<1>1. Init => LinesInv
    BY LinesInit
<1>2. LinesInv /\ [Next]_vars => LinesInv'
    BY LinesStep
<1>3. LinesInv => LinesFollowText
    BY LinesInvFollows
<1> QED BY <1>1, <1>2, <1>3, PTL DEF Spec

(***************************************************************************)
(* Counting line breaks.                                                   *)
(***************************************************************************)

NotAfter(S, x) == {e \in S : e <= x}
Between(S, a, b) == {e \in S : a < e /\ e <= b}

Counts(S, k) == IsFiniteSet(S) /\ Cardinality(S) = k

\* Of the partitions from 1 to b, those up to k start at x or before.
ReachesTo(p, b, k, x) ==
    /\ k \in 0 .. b
    /\ \A j \in 1 .. k : PositionFromPartition(p, j) <= x
    /\ \A j \in k + 1 .. b : ~(PositionFromPartition(p, j) <= x)

\* As many breaks are not after x as partitions start there.
LEMMA ListsCount ==
    ASSUME NEW p, NEW b \in Int, NEW S, S \subseteq Int, Lists(p, 1, b, S),
           NEW k, NEW x, ReachesTo(p, b, k, x)
    PROVE  Counts(NotAfter(S, x), k)
<1> DEFINE T == NotAfter(S, x)
           f == [j \in 1 .. k |-> PositionFromPartition(p, j)]
<1>0. /\ k \in 0 .. b
      /\ \A j \in 1 .. k : PositionFromPartition(p, j) <= x
      /\ \A j \in k + 1 .. b : ~(PositionFromPartition(p, j) <= x)
    BY DEF ReachesTo
<1>1. \A j \in 1 .. k : j \in 1 .. b
    BY <1>0
<1>2. \A j \in 1 .. k : f[j] \in T
    BY <1>0, <1>1 DEF Lists, NotAfter
<1>3. \A e \in T : \E j \in 1 .. k : f[j] = e
    <2> SUFFICES ASSUME NEW e \in T PROVE \E j \in 1 .. k : f[j] = e
        OBVIOUS
    <2>1. e \in S /\ e <= x
        BY DEF NotAfter
    <2>2. PICK j \in 1 .. b : PositionFromPartition(p, j) = e
        BY <2>1 DEF Lists
    <2>3. j \in 1 .. k
        <3>1. ~(j \in k + 1 .. b)
            BY <2>1, <2>2, <1>0
        <3> QED BY <3>1, <1>0
    <2> QED BY <2>2, <2>3
<1>4. \A i, j \in 1 .. k : f[i] = f[j] => i = j
    <2> SUFFICES ASSUME NEW i \in 1 .. k, NEW j \in 1 .. k, i # j PROVE f[i] # f[j]
        OBVIOUS
    <2>0. /\ PositionFromPartition(p, i) \in Int /\ PositionFromPartition(p, j) \in Int
        BY <1>1 DEF Lists
    <2>1. CASE i < j
        <3>1. PositionFromPartition(p, i) < PositionFromPartition(p, j)
            BY <2>1, <1>1 DEF Lists
        <3> QED BY <3>1, <2>0
    <2>2. CASE j < i
        <3>1. PositionFromPartition(p, j) < PositionFromPartition(p, i)
            BY <2>2, <1>1 DEF Lists
        <3> QED BY <3>1, <2>0
    <2> QED BY <2>1, <2>2
<1>5. f \in Bijection(1 .. k, T)
    <2>1. f \in [1 .. k -> T]
        BY <1>2
    <2> HIDE DEF f, T
    <2> QED BY <2>1, <1>3, <1>4 DEF Bijection, Injection, Surjection, IsInjective
<1>6. IsFiniteSet(1 .. k) /\ Cardinality(1 .. k) = k
    <2>0. k \in Int
        BY <1>0
    <2>1. IsFiniteSet(1 .. k) /\ Cardinality(1 .. k) = IF 1 > k THEN 0 ELSE k - 1 + 1
        <3> HIDE DEF f, T
        <3> QED BY <2>0, FS_Interval
    <2>2. 1 > k => k = 0
        BY <1>0
    <2>3. ~(1 > k) => k - 1 + 1 = k
        BY <1>0
    <2> QED BY <2>1, <2>2, <2>3
<1> HIDE DEF f, T
<1>7. ExistsBijection(1 .. k, T)
    BY <1>5 DEF ExistsBijection
<1>8. IsFiniteSet(T) /\ Cardinality(T) = Cardinality(1 .. k)
    BY <1>6, <1>7, FS_Bijection
<1> QED BY <1>6, <1>8 DEF T, Counts

LEMMA CountsMoved ==
    ASSUME NEW S, S \subseteq Int, NEW k, Counts(S, k), NEW d \in Int
    PROVE  Counts(Shifted(S, d), k)
<1> DEFINE f == [e \in S |-> e + d]
           T == Shifted(S, d)
<1>1. f \in [S -> T] /\ \A x \in T : \E e \in S : f[e] = x
    BY DEF Shifted
<1>2. \A x, y \in S : f[x] = f[y] => x = y
    OBVIOUS
<1> HIDE DEF f, T
<1>3. f \in Bijection(S, T)
    BY <1>1, <1>2 DEF Bijection, Injection, Surjection, IsInjective
<1>4. ExistsBijection(S, T) /\ IsFiniteSet(S) /\ Cardinality(S) = k
    BY <1>3 DEF ExistsBijection, Counts
<1>5. IsFiniteSet(T) /\ Cardinality(T) = Cardinality(S)
    BY <1>4, FS_Bijection
<1> QED BY <1>4, <1>5 DEF T, Counts

LEMMA CountsIs ==
    ASSUME NEW S, IsFiniteSet(S)
    PROVE  \E k \in Nat : Counts(S, k)
BY FS_CardinalityType DEF Counts

LEMMA CountsNat ==
    ASSUME NEW S, NEW k, Counts(S, k)
    PROVE  k \in Nat /\ \A j : Counts(S, j) => j = k
BY FS_CardinalityType DEF Counts

LEMMA CountsNone == Counts({}, 0)
BY FS_EmptySet DEF Counts

LEMMA CountsPart ==
    ASSUME NEW S, NEW k, Counts(S, k), NEW T, T \subseteq S
    PROVE  \E j \in Nat : Counts(T, j) /\ j <= k
<1>1. IsFiniteSet(T) /\ Cardinality(T) <= Cardinality(S)
    BY FS_Subset DEF Counts
<1> QED BY <1>1, FS_CardinalityType DEF Counts

LEMMA CountsBoth ==
    ASSUME NEW S, NEW k, Counts(S, k), NEW T, NEW j, Counts(T, j), S \cap T = {}
    PROVE  Counts(S \cup T, k + j)
<1>1. /\ IsFiniteSet(S \cup T)
      /\ Cardinality(S \cup T) = Cardinality(S) + Cardinality(T) - Cardinality(S \cap T)
    BY FS_Union DEF Counts
<1>2. Cardinality(S \cap T) = 0
    BY FS_EmptySet
<1>3. k \in Nat /\ j \in Nat
    BY CountsNat
<1>4. Cardinality(S \cup T) = k + j - 0
    BY <1>1, <1>2 DEF Counts
<1>5. k + j - 0 = k + j
    BY <1>3
<1> QED BY <1>1, <1>4, <1>5 DEF Counts

LEMMA CountsLess ==
    ASSUME NEW S, NEW k, Counts(S, k), NEW e \in S
    PROVE  Counts(S \ {e}, k - 1) /\ k \in Nat \ {0}
<1>1. IsFiniteSet(S \ {e}) /\ Cardinality(S \ {e}) = Cardinality(S) - 1
    BY FS_RemoveElement DEF Counts
<1>2. Cardinality(S \ {e}) \in Nat /\ Cardinality(S) \in Nat
    BY <1>1, FS_CardinalityType DEF Counts
<1> QED BY <1>1, <1>2 DEF Counts

\* Those not after b are those not after a and those between.
LEMMA CountsBetween ==
    ASSUME NEW S, S \subseteq Int, NEW a \in Int, NEW b \in Int, a <= b,
           NEW k, Counts(NotAfter(S, a), k), NEW j, Counts(NotAfter(S, b), j)
    PROVE  Counts(Between(S, a, b), j - k) /\ k <= j
<1> DEFINE A == NotAfter(S, a)
           B == Between(S, a, b)
<1>1. A \cap B = {} /\ NotAfter(S, b) = A \cup B
    <2>1. \A e \in S : /\ e <= b <=> e <= a \/ (a < e /\ e <= b)
                       /\ ~(e <= a /\ a < e)
        <3>1. \A e \in Int : /\ e <= b <=> e <= a \/ (a < e /\ e <= b)
                             /\ ~(e <= a /\ a < e)
            OBVIOUS
        <3> QED BY <3>1
    <2> QED BY <2>1, Zenon DEF NotAfter, Between
<1> HIDE DEF A, B
<1>2. PICK i \in Nat : Counts(B, i)
    BY <1>1, CountsPart
<1>3. Counts(A \cup B, k + i)
    BY <1>1, <1>2, CountsBoth DEF A
<1>4. j = k + i /\ k \in Nat
    BY <1>1, <1>3, CountsNat DEF A
<1>5. j - k = i /\ k <= j
    BY <1>2, <1>4
<1> QED BY <1>2, <1>5 DEF B

LEMMA BreaksCount ==
    ASSUME NEW C, NEW t \in Seq(C)
    PROVE  LineBreaks(t) \subseteq Int /\ IsFiniteSet(LineBreaks(t))
<1>1. LineBreaks(t) \subseteq 1 .. Len(t) /\ Len(t) \in Nat
    BY BreaksBounded, LenProperties
<1>2. IsFiniteSet(1 .. Len(t))
    BY <1>1, FS_Interval
<1> QED BY <1>1, <1>2, FS_Subset

\* The line of a position is the number of breaks not after it.
LEMMA LineIsCount ==
    ASSUME NEW p, NEW C, NEW t \in Seq(C), IndexOf(p, LineBreaks(t), Len(t)),
           NEW line, NEW x \in Int, IsLineAt(p, line, x)
    PROVE  Counts(NotAfter(LineBreaks(t), x), line) /\ line \in Nat
<1> DEFINE n == Partitions(p)
           S == LineBreaks(t)
<1>1. n \in Nat \ {0} /\ Lists(p, 1, n - 1, S) /\ \A j \in 0 .. n : PositionFromPartition(p, j) \in Int
    BY PlaceIsNumber DEF IndexOf
<1>2. /\ line \in 0 .. n - 1
      /\ \A j \in 0 .. line : PositionFromPartition(p, j) <= x
      /\ \A j \in line + 1 .. n - 1 : PositionFromPartition(p, j) > x
    BY DEF IsLineAt
<1>3. S \subseteq Int
    BY BreaksCount
<1> HIDE DEF n, S
<1>4. /\ line \in 0 .. n - 1 /\ n - 1 \in Int /\ line \in Nat
      /\ \A j \in 1 .. line : PositionFromPartition(p, j) <= x
      /\ \A j \in line + 1 .. n - 1 : ~(PositionFromPartition(p, j) <= x)
    <2>1. \A j \in line + 1 .. n - 1 : j \in 0 .. n
        BY <1>1, <1>2
    <2>2. \A j \in line + 1 .. n - 1 : ~(PositionFromPartition(p, j) <= x)
        BY <2>1, <1>1, <1>2
    <2> QED BY <2>2, <1>1, <1>2
<1>5. Counts(NotAfter(S, x), line)
    <2>1. ReachesTo(p, n - 1, line, x)
        BY <1>1, <1>4 DEF ReachesTo
    <2> QED BY <2>1, <1>1, <1>3, <1>4, ListsCount
<1> QED BY <1>4, <1>5 DEF S

\* A line whose start is given is the one of that position.
LEMMA StartIsLine ==
    ASSUME NEW p, NEW S, NEW end, IndexOf(p, S, end), NEW k \in 0 .. Partitions(p) - 1,
           S \subseteq Nat \ {0}
    PROVE  IsLineAt(p, k, PositionFromPartition(p, k)) /\ PositionFromPartition(p, k) \in Nat
<1> DEFINE n == Partitions(p)
           at == PositionFromPartition(p, k)
<1>1. /\ n \in Nat \ {0} /\ Lists(p, 1, n - 1, S) /\ PositionFromPartition(p, 0) = 0
      /\ \A j \in 0 .. n : PositionFromPartition(p, j) \in Int
    BY PlaceIsNumber DEF IndexOf
<1>2. k \in 0 .. n - 1
    OBVIOUS
<1> HIDE DEF n
<1>3. at \in Nat
    <2>1. CASE k = 0
        BY <2>1, <1>1
    <2>2. CASE k # 0
        <3>1. k \in 1 .. n - 1
            BY <2>2, <1>1, <1>2
        <3> QED BY <3>1, <1>1 DEF Lists
    <2> QED BY <2>1, <2>2
<1>4. ASSUME NEW j \in 0 .. k PROVE PositionFromPartition(p, j) <= at
    <2>1. CASE j = k
        BY <2>1, <1>3
    <2>2. CASE j # k /\ j = 0
        BY <2>2, <1>1, <1>3
    <2>3. CASE j # k /\ j # 0
        <3>1. j \in 1 .. n - 1 /\ k \in 1 .. n - 1 /\ j < k /\ j \in 0 .. n
            BY <2>3, <1>1, <1>2
        <3>2. PositionFromPartition(p, j) < at
            BY <3>1, <1>1 DEF Lists
        <3> QED BY <3>1, <3>2, <1>1, <1>3
    <2> QED BY <2>1, <2>2, <2>3
<1>5. ASSUME NEW j \in k + 1 .. n - 1 PROVE PositionFromPartition(p, j) > at
    <2>1. j \in 1 .. n - 1 /\ k < j /\ j \in 0 .. n
        BY <1>1, <1>2
    <2>2. CASE k = 0
        <3>1. PositionFromPartition(p, j) \in Nat \ {0} /\ at = 0
            BY <2>1, <2>2, <1>1 DEF Lists
        <3> HIDE DEF at
        <3> QED BY <3>1
    <2>3. CASE k # 0
        <3>1. k \in 1 .. n - 1
            BY <2>3, <1>1, <1>2
        <3> QED BY <2>1, <3>1, <1>1, <1>3 DEF Lists
    <2> QED BY <2>2, <2>3
<1> HIDE DEF at
<1> QED BY <1>2, <1>3, <1>4, <1>5 DEF IsLineAt, n, at

LEMMA LineOfIs ==
    ASSUME NEW t, NEW x, NEW k, Counts(NotAfter(LineBreaks(t), x), k)
    PROVE  LineOf(t, x) = k
<1>1. NotAfter(LineBreaks(t), x) = {e \in LineBreaks(t) : e <= x}
    BY DEF NotAfter
<1> QED BY <1>1 DEF LineOf, Counts

\* The line with a marker has the number of line ends not after its start.
LEMMA MarkedLine ==
    ASSUME NEW p, NEW C, NEW t \in Seq(C), IndexOf(p, LineBreaks(t), Len(t)),
           NEW m \in 0 .. Partitions(p) - 1, NEW at, at = PositionFromPartition(p, m)
    PROVE  /\ at \in Nat /\ m \in Nat /\ Counts(NotAfter(LineBreaks(t), at), m)
           /\ at = 0 \/ at \in LineBreaks(t)
<1> DEFINE S == LineBreaks(t)
<1>1. S \subseteq 1 .. Len(t) /\ Len(t) \in Nat
    BY BreaksBounded, LenProperties
<1>2. S \subseteq Nat \ {0}
    BY <1>1
<1> HIDE DEF S
<1>3. IsLineAt(p, m, at) /\ at \in Nat
    <2>1. IndexOf(p, S, Len(t))
        BY DEF S
    <2> QED BY <2>1, <1>2, StartIsLine
<1>4. at \in Int
    BY <1>3
<1>5. Counts(NotAfter(S, at), m) /\ m \in Nat
    BY <1>3, <1>4, LineIsCount DEF S
<1>6. at = 0 \/ at \in S
    <2>1. Partitions(p) \in Nat /\ PositionFromPartition(p, 0) = 0 /\ Lists(p, 1, Partitions(p) - 1, S)
        BY PlaceIsNumber DEF IndexOf, S
    <2>2. m = 0 \/ m \in 1 .. Partitions(p) - 1
        BY <2>1
    <2> QED BY <2>1, <2>2 DEF Lists
<1> QED BY <1>3, <1>5, <1>6 DEF S

\* The line of pos, and where the marked line, which starts at `at', is from there.
LineFrom(p, t, m, at, pos, line) ==
    /\ line \in Nat /\ Counts(NotAfter(LineBreaks(t), pos), line)
    /\ at <= pos <=> m <= line
    /\ PositionFromPartition(p, line) <= pos /\ PositionFromPartition(p, line) \in Nat
    /\ PositionFromPartition(p, line) = 0 \/ PositionFromPartition(p, line) \in LineBreaks(t)
    /\ at < pos <=> m <= line /\ (PositionFromPartition(p, line) = pos => m < line)

LEMMA LineAtIs ==
    ASSUME NEW p, NEW C, NEW t \in Seq(C), IndexOf(p, LineBreaks(t), Len(t)),
           NEW m \in 0 .. Partitions(p) - 1, NEW at, at = PositionFromPartition(p, m),
           NEW pos \in Nat, NEW line, line = PartitionFromPosition(p, pos)
    PROVE  LineFrom(p, t, m, at, pos, line)
<1>1. IsLineAt(p, line, pos)
    BY LineFound
<1>2. Counts(NotAfter(LineBreaks(t), pos), line) /\ line \in Nat
    <2>1. pos \in Int
        OBVIOUS
    <2> QED BY <2>1, <1>1, LineIsCount
<1>3. at \in Nat /\ m \in Nat
    BY MarkedLine
<1>4. line \in 0 .. Partitions(p) - 1 /\ Partitions(p) \in Nat
    BY <1>1, PlaceIsNumber DEF IsLineAt, IndexOf
<1>5. /\ PositionFromPartition(p, line) \in Nat
      /\ PositionFromPartition(p, line) = 0 \/ PositionFromPartition(p, line) \in LineBreaks(t)
    BY <1>4, MarkedLine
<1>6. at <= pos <=> m <= line
    <2>1. m <= line => m \in 0 .. line
        BY <1>3
    <2>2. ~(m <= line) => m \in line + 1 .. Partitions(p) - 1
        BY <1>3, <1>4
    <2> QED BY <2>1, <2>2, <1>1, <1>3 DEF IsLineAt
<1>7. PositionFromPartition(p, line) <= pos
    <2>1. line \in 0 .. line
        BY <1>2
    <2> QED BY <2>1, <1>1 DEF IsLineAt
<1>8. m < line => at < PositionFromPartition(p, line)
    <2> SUFFICES ASSUME m < line PROVE at < PositionFromPartition(p, line)
        OBVIOUS
    <2>1. line \in 1 .. Partitions(p) - 1
        BY <1>3, <1>4
    <2>2. CASE m = 0
        <3>1. PositionFromPartition(p, line) \in LineBreaks(t)
            BY <2>1 DEF IndexOf, Lists
        <3>2. LineBreaks(t) \subseteq 1 .. Len(t) /\ at = 0
            BY <2>2, BreaksBounded DEF IndexOf
        <3> QED BY <3>1, <3>2
    <2>3. CASE m # 0
        <3>1. m \in 1 .. Partitions(p) - 1
            BY <2>3, <1>3, <1>4
        <3> QED BY <2>1, <3>1 DEF IndexOf, Lists
    <2> QED BY <2>2, <2>3
<1>9. at < pos <=> m <= line /\ (PositionFromPartition(p, line) = pos => m < line)
    <2>1. m = line => at = PositionFromPartition(p, line)
        OBVIOUS
    <2> DEFINE b == PositionFromPartition(p, line)
    <2>2. b \in Nat /\ b <= pos /\ (m < line => at < b) /\ (m = line => at = b)
        BY <2>1, <1>5, <1>7, <1>8
    <2> HIDE DEF b
    <2>3. at < pos <=> m <= line /\ (b = pos => m < line)
        BY <2>2, <1>2, <1>3, <1>6
    <2> QED BY <2>3 DEF b
<1> QED BY <1>2, <1>5, <1>6, <1>7, <1>9 DEF LineFrom

(***************************************************************************)
(* The marker, when text is inserted.                                      *)
(***************************************************************************)

\* Line m starts before an insertion in line number `line', or at the start of it.
Above(m, line, lineStart) == m <= line /\ (lineStart => m < line)

\* A marker that was at m has been pushed by as many lines as were found.
Pushed(acc, m, line, lineStart) ==
    /\ acc = [lines |-> acc.lines, next |-> acc.next, prev |-> acc.prev]
    /\ acc.lines = [starts |-> acc.lines.starts, marker |-> acc.lines.marker]
    /\ acc.next \in Int /\ line < acc.next
    /\ acc.lines.marker =
           IF Above(m, line, lineStart) THEN m ELSE m + (acc.next - line - 1)

LEMMA PushKeeps ==
    ASSUME NEW m \in Nat, NEW line \in Nat, NEW lineStart \in BOOLEAN, NEW acc,
           Pushed(acc, m, line, lineStart), NEW ch, NEW pos
    PROVE  Pushed(ScanInserted(acc, ch, pos, lineStart), m, line, lineStart)
<1> DEFINE next == ScanInserted(acc, ch, pos, lineStart)
<1>1. /\ acc = [lines |-> acc.lines, next |-> acc.next, prev |-> acc.prev]
      /\ acc.lines = [starts |-> acc.lines.starts, marker |-> acc.lines.marker]
      /\ acc.next \in Int /\ line < acc.next
      /\ acc.lines.marker =
             IF Above(m, line, lineStart) THEN m ELSE m + (acc.next - line - 1)
    BY DEF Pushed
<1>2. CASE ch = LF /\ acc.prev = CR
    <2> DEFINE l == SetLineStart(acc.lines, acc.next - 1, pos)
    <2>1. next = [acc EXCEPT !.lines = l, !.prev = ch]
        BY <1>2 DEF ScanInserted
    <2>2. next = [lines |-> l, next |-> acc.next, prev |-> ch]
        BY <2>1, <1>1
    <2>3. /\ l = [starts |-> l.starts, marker |-> l.marker]
          /\ l.marker = acc.lines.marker
        <3>1. l = [acc.lines EXCEPT !.starts =
                       SetPartitionStartPosition(acc.lines.starts, acc.next - 1, pos)]
            BY DEF SetLineStart
        <3> HIDE DEF l
        <3> QED BY <3>1, <1>1
    <2> HIDE DEF l, next
    <2>4. Pushed(next, m, line, lineStart)
        BY <2>2, <2>3, <1>1 DEF Pushed
    <2> QED BY <2>4 DEF next
<1>3. CASE ~(ch = LF /\ acc.prev = CR) /\ ch \in {CR, LF}
    <2> DEFINE l == InsertLine(acc.lines, acc.next, pos, lineStart)
               k == acc.next
               old == acc.lines.marker
    <2>1. next = [lines |-> l, next |-> k + 1, prev |-> ch]
        BY <1>3 DEF ScanInserted
    <2>2. /\ l = [starts |-> l.starts, marker |-> l.marker]
          /\ l.marker = IF old >= (IF lineStart THEN k - 1 ELSE k) THEN old + 1 ELSE old
        <3>1. k > 0
            BY <1>1
        <3> QED BY <3>1 DEF InsertLine
    <2>3. /\ k \in Int /\ line < k
          /\ old = IF Above(m, line, lineStart) THEN m ELSE m + (k - line - 1)
        BY <1>1
    <2> HIDE DEF l, k, old
    <2>4. l.marker = IF Above(m, line, lineStart) THEN m ELSE m + ((k + 1) - line - 1)
        <3>1. CASE Above(m, line, lineStart)
            <4>1. old = m /\ m <= line /\ (lineStart => m < line)
                BY <2>3, <3>1 DEF Above
            <4>2. ~(old >= (IF lineStart THEN k - 1 ELSE k))
                BY <4>1, <2>3
            <4> QED BY <4>1, <4>2, <3>1, <2>2
        <3>2. CASE ~Above(m, line, lineStart)
            <4>1. old = m + (k - line - 1) /\ (m >= line + 1 \/ (lineStart /\ m >= line))
                BY <2>3, <3>2 DEF Above
            <4>2. old >= (IF lineStart THEN k - 1 ELSE k) /\ old + 1 = m + ((k + 1) - line - 1)
                BY <4>1, <2>3
            <4> QED BY <4>2, <3>2, <2>2
        <3> QED BY <3>1, <3>2
    <2>5. k + 1 \in Int /\ line < k + 1
        BY <2>3
    <2> HIDE DEF next
    <2>6. Pushed(next, m, line, lineStart)
        BY <2>1, <2>2, <2>4, <2>5 DEF Pushed
    <2> QED BY <2>6 DEF next
<1>4. CASE ch \notin {CR, LF}
    <2>1. next = [lines |-> acc.lines, next |-> acc.next, prev |-> ch]
        BY <1>1, <1>4 DEF ScanInserted
    <2> HIDE DEF next
    <2>2. Pushed(next, m, line, lineStart)
        BY <2>1, <1>1 DEF Pushed
    <2> QED BY <2>2 DEF next
<1> QED BY <1>2, <1>3, <1>4

LEMMA PushStarts ==
    ASSUME NEW l, AreLines(l), NEW m \in Nat, l.marker = m, NEW t, NEW pos, NEW len,
           NEW line \in Nat, line = LineFromPosition(l, pos),
           SplitsPair(t, pos) => ~StartsLine(l, pos)
    PROVE  Pushed(ScanStart(l, t, pos, len), m, line, StartsLine(l, pos))
<1> DEFINE grown == GrowLine(l, line, len)
           start == ScanStart(l, t, pos, len)
           lineStart == StartsLine(l, pos)
<1>1. /\ grown = [starts |-> grown.starts, marker |-> grown.marker]
      /\ grown.marker = m
    BY DEF GrowLine, AreLines
<1> HIDE DEF grown
<1>2. CASE SplitsPair(t, pos)
    <2> DEFINE more == InsertLine(grown, line + 1, pos, FALSE)
    <2>1. start = [lines |-> more, next |-> line + 2, prev |-> CharAt(t, pos - 1)]
        BY <1>2 DEF ScanStart, grown
    <2>2. /\ more = [starts |-> more.starts, marker |-> more.marker]
          /\ more.marker = IF m >= line + 1 THEN m + 1 ELSE m
        BY <1>1 DEF InsertLine
    <2>3. Above(m, line, lineStart) <=> m <= line
        BY <1>2 DEF Above
    <2> HIDE DEF start, more
    <2>4. line + 2 \in Int /\ line < line + 2
          /\ more.marker = IF m <= line THEN m ELSE m + ((line + 2) - line - 1)
        BY <2>2
    <2>5. Pushed(start, m, line, lineStart)
        BY <2>1, <2>2, <2>3, <2>4 DEF Pushed
    <2> QED BY <2>5 DEF start
<1>3. CASE ~SplitsPair(t, pos)
    <2>1. start = [lines |-> grown, next |-> line + 1, prev |-> CharAt(t, pos - 1)]
        BY <1>3 DEF ScanStart, grown
    <2> HIDE DEF start
    <2>2. line + 1 \in Int /\ line < line + 1 /\ m = m + ((line + 1) - line - 1)
        OBVIOUS
    <2>3. Pushed(start, m, line, lineStart)
        BY <2>1, <2>2, <1>1 DEF Pushed
    <2> QED BY <2>3 DEF start
<1> QED BY <1>2, <1>3

LEMMA PushEnds ==
    ASSUME NEW l, AreLines(l), NEW m \in Nat, l.marker = m, NEW t, NEW pos, NEW C, NEW s \in Seq(C),
           NEW line \in Nat, line = LineFromPosition(l, pos),
           SplitsPair(t, pos) => ~StartsLine(l, pos)
    PROVE  Pushed(LinesScanned(l, t, pos, s), m, line, StartsLine(l, pos))
<1> DEFINE n == Len(s)
           c == [s |-> s, pos |-> pos, lineStart |-> StartsLine(l, pos)]
           start == ScanStart(l, t, pos, n)
           seq == [i \in DOMAIN s |-> i]
           lineStart == StartsLine(l, pos)
<1>1. n \in Nat /\ DOMAIN s = 1 .. n
    BY LenProperties
<1>2. Pushed(start, m, line, lineStart)
    BY PushStarts
<1>3. LinesScanned(l, t, pos, s) = Scanning!Left(c, start, seq)
    BY ScannedIsFold
<1>4. c.lineStart = lineStart /\ lineStart \in BOOLEAN
    BY DEF StartsLine
<1>5. DOMAIN seq = 1 .. n
    BY <1>1
<1> HIDE DEF n, c, start, seq, lineStart
<1>6. PICK h : Scanning!PassesLeft(h, c, start, seq, n)
    BY <1>1, <1>5, Scanning!FoldLeftPasses
<1>7. /\ h[0] = start /\ h[n] = Scanning!Left(c, start, seq)
      /\ \A i \in 1 .. n : h[i] = ScanOp(c, h[i - 1], seq[i])
    BY <1>6 DEF Scanning!PassesLeft
<1> DEFINE T == {i \in 0 .. n : Pushed(h[i], m, line, lineStart)}
<1>8. 0 \in T
    BY <1>1, <1>2, <1>7
<1>9. ASSUME NEW i \in 0 .. n - 1, i \in T
      PROVE  i + 1 \in T
    <2> DEFINE acc == h[i]
    <2>1. i + 1 \in 1 .. n /\ (i + 1) - 1 = i /\ i + 1 \in 0 .. n
        BY <1>1
    <2>2. h[i + 1] = ScanOp(c, h[(i + 1) - 1], seq[i + 1])
        BY <2>1, <1>7
    <2>3. h[i + 1] = ScanInserted(acc, c.s[seq[i + 1]], c.pos + seq[i + 1], lineStart)
        BY <2>1, <2>2, <1>4 DEF ScanOp
    <2>4. Pushed(acc, m, line, lineStart)
        BY <1>9
    <2> DEFINE ch == c.s[seq[i + 1]]
               at == c.pos + seq[i + 1]
    <2>5. h[i + 1] = ScanInserted(acc, ch, at, lineStart)
        BY <2>3
    <2> HIDE DEF acc, ch, at
    <2>6. Pushed(ScanInserted(acc, ch, at, lineStart), m, line, lineStart)
        BY <2>4, <1>4, PushKeeps
    <2> QED BY <2>1, <2>5, <2>6
<1> HIDE DEF T
<1>10. n \in T
    <2>1. 0 .. n \subseteq T
        BY <1>1, <1>8, <1>9, Scanning!UpTo
    <2> QED BY <2>1, <1>1
<1> QED BY <1>3, <1>7, <1>10 DEF T, lineStart

\* No line starts between the two characters of a pair.
LEMMA SplitIsNoStart ==
    ASSUME NEW C, NEW t \in Seq(C), NEW pos \in 0 .. Len(t), SplitsPair(t, pos)
    PROVE  pos # 0 /\ pos \notin LineBreaks(t)
<1>1. CharAt(t, pos - 1) = CR /\ CharAt(t, pos) = LF /\ CR # LF /\ Len(t) \in Nat
    BY LenProperties DEF SplitsPair, CR, LF
<1>2. pos - 1 \in 0 .. Len(t) - 1
    BY <1>1 DEF CharAt, CR
<1>3. pos # 0 /\ (pos - 1) + 1 = pos /\ pos \in 1 .. Len(t)
    BY <1>1, <1>2
<1>4. t[pos] = CR
    BY <1>1, <1>2, <1>3 DEF CharAt
<1>5. pos \notin LineBreaks(t)
    BY <1>1, <1>3, <1>4, BreakIs
<1> QED BY <1>3, <1>5

\* The lines before the next one are as many as their starts.
LEMMA SplitsCount ==
    ASSUME NEW p, NEW k, NEW F, NEW B, NEW end, Splits(p, k, F, B, end),
           NEW x \in Int, F \subseteq Int, \A e \in F : e <= x
    PROVE  Counts(F, k - 1) /\ k \in Nat \ {0}
<1>1. k \in Nat \ {0} /\ Lists(p, 1, k - 1, F)
    BY PlaceIsNumber DEF Splits
<1>2. NotAfter(F, x) = F
    BY DEF NotAfter
<1> DEFINE j == k - 1
<1>3. j \in Int /\ j \in 0 .. j
    BY <1>1
<1> HIDE DEF j
<1>4. Lists(p, 1, j, F)
    BY <1>1 DEF j
<1>5. ReachesTo(p, j, j, x)
    <2>1. \A i \in j + 1 .. j : FALSE
        BY <1>3
    <2> QED BY <2>1, <1>3, <1>4 DEF ReachesTo, Lists
<1>6. Counts(NotAfter(F, x), j)
    BY <1>3, <1>4, <1>5, ListsCount
<1> QED BY <1>1, <1>2, <1>6 DEF j

\* What comes in at pos does not change the lines that start before.
LEMMA BreaksBefore ==
    ASSUME NEW C, NEW t \in Seq(C), NEW w \in Seq(C), NEW pos \in 0 .. Len(t), pos \in 0 .. Len(w),
           SubSeq(w, 1, pos) = SubSeq(t, 1, pos), NEW at \in Int, at < pos
    PROVE  NotAfter(LineBreaks(w), at) = NotAfter(LineBreaks(t), at)
<1> DEFINE u == SubSeq(t, 1, pos)
<1>1. CutBreaks(t, pos, u, SubSeq(t, pos + 1, Len(t)))
    BY BreaksCut, Zenon
<1>2. CutBreaks(w, pos, u, SubSeq(w, pos + 1, Len(w)))
    <2>1. u = SubSeq(w, 1, pos)
        OBVIOUS
    <2> QED BY <2>1, BreaksCut, Zenon
<1> HIDE DEF u
<1>3. LineBreaks(t) \subseteq 1 .. Len(t) /\ LineBreaks(w) \subseteq 1 .. Len(w)
    BY BreaksBounded
<1>4. /\ \A e \in LineBreaks(t) : e \in Int
      /\ \A e \in LineBreaks(w) : e \in Int
    BY <1>3
<1>5. ASSUME NEW e \in Int, e <= at
      PROVE  e <= pos /\ e # pos
    BY <1>5
<1>6. \A e \in Int : e <= at => (e \in LineBreaks(t) <=> e \in LineBreaks(u))
    BY <1>1, <1>5 DEF CutBreaks
<1>7. \A e \in Int : e <= at => (e \in LineBreaks(w) <=> e \in LineBreaks(u))
    BY <1>2, <1>5 DEF CutBreaks
<1> QED BY <1>4, <1>6, <1>7 DEF NotAfter

\* What an insertion leaves behind, for the marker: k is the number of the next line,
\* u and v are the text up to the end of the insertion and after it.
MarkerScanned(done, t, pos, n, w, k, u, v, m, line, lineStart) ==
    /\ Pushed(done, m, line, lineStart) /\ done.next = k
    /\ Counts(LineBreaks(u), k - 1) /\ k \in Nat \ {0}
    /\ LineBreaks(u) \subseteq 1 .. pos + n
    /\ LineBreaks(w) = (LineBreaks(u) \ (IF Pair(u, v) THEN {pos + n} ELSE {}))
                           \cup Shifted(LineBreaks(v), pos + n)
    /\ \A e \in Shifted(LineBreaks(v), pos + n) : e \in Int /\ e > pos + n
    /\ Shifted(LineBreaks(v), pos + n) = Shifted({e \in LineBreaks(t) : e > pos}, n)
    /\ Pair(u, v) => pos + n \in LineBreaks(u)

ScanMarks(done, l, t, pos, s, w, u, v, m, line) ==
    /\ MarkerScanned(done, t, pos, Len(s), w, done.next, u, v, m, line, StartsLine(l, pos))
    /\ Pair(u, v) <=> CharAt(t, pos) = LF /\ Last(s) = CR

LEMMA MarkerScan ==
    ASSUME NEW C, NEW t \in Seq(C), NEW pos \in 0 .. Len(t), NEW s \in Seq(C), Len(s) > 0,
           NEW l, AreLines(l), IndexOf(l.starts, LineBreaks(t), Len(t)),
           NEW m \in Nat, l.marker = m,
           NEW w, w = Inserted(t, pos, s), NEW u, u = SubSeq(w, 1, pos + Len(s)),
           NEW v, v = SubSeq(t, pos + 1, Len(t)),
           NEW done, done = LinesScanned(l, t, pos, s),
           NEW line, line = LineFromPosition(l, pos)
    PROVE  ScanMarks(done, l, t, pos, s, w, u, v, m, line)
<1> DEFINE n == Len(s)
           k == done.next
           F == LineBreaks(u)
           B == Shifted(LineBreaks(v), pos + n)
<1>1. n \in Nat /\ n > 0 /\ Len(t) \in Nat /\ pos \in Nat /\ pos + n \in Nat
    BY LenProperties
<1>2. ScanEnded(done, l, t, pos, s, line, u, v, w) /\ u \in Seq(C) /\ v \in Seq(C)
    <2>1. ScanEnded(LinesScanned(l, t, pos, s), l, t, pos, s, line, u, v, w)
          /\ u \in Seq(C) /\ v \in Seq(C)
        BY ScanEnds, Zenon
    <2> QED BY <2>1
<1>3. /\ Reached(done, u, B, Len(t) + n, Partitions(l.starts), line, pos)
      /\ CharAt(u, Len(u) - 1) = Last(s) /\ CharAt(v, 0) = CharAt(t, pos)
      /\ w = u \o v /\ Len(u) = pos + n
    BY <1>2 DEF ScanEnded
<1>4. LineBreaks(w) = BreaksOfBoth(u, v)
    BY <1>2, <1>3, BreaksJoin
<1>5. F \subseteq 1 .. pos + n /\ LineBreaks(v) \subseteq 1 .. Len(v) /\ Len(v) \in Nat
    BY <1>2, <1>3, BreaksBounded, LenProperties
<1>6. \A e \in B : e \in Int /\ e > pos + n
    <2> HIDE DEF n
    <2>1. \A e \in LineBreaks(v) : e + (pos + n) \in Int /\ e + (pos + n) > pos + n
        BY <1>1, <1>5
    <2> QED BY <2>1 DEF Shifted
<1>7. Pair(u, v) <=> CharAt(t, pos) = LF /\ Last(s) = CR
    BY <1>3 DEF Pair
<1>8. Pair(u, v) => pos + n \in F
    <2> DEFINE last == pos + n
    <2> SUFFICES ASSUME Pair(u, v) PROVE last \in F
        OBVIOUS
    <2>1. last - 1 \in 0 .. Len(u) - 1 /\ last \in 1 .. Len(u) /\ (last - 1) + 1 = last
        BY <1>1, <1>3
    <2>2. u[last] = CR /\ CharAt(u, last) = "none" /\ "none" # LF
        BY <2>1, <1>3 DEF CharAt, LF, Pair
    <2> HIDE DEF last
    <2> QED BY <2>1, <2>2, <1>2, BreakIs
<1>9. line \in Nat
    BY <1>1, LinesHaveIndex, Zenon
<1>10. IndexOf(l.starts, LineBreaks(t), Len(t)) /\ pos \in Nat
    BY <1>1
<1>11. Pushed(done, m, line, StartsLine(l, pos))
    <2>1. SplitsPair(t, pos) => ~StartsLine(l, pos)
        <3> SUFFICES ASSUME SplitsPair(t, pos) PROVE ~StartsLine(l, pos)
            OBVIOUS
        <3>1. pos # 0 /\ pos \notin LineBreaks(t)
            BY SplitIsNoStart
        <3>2. m \in 0 .. Partitions(l.starts) - 1
            BY DEF AreLines
        <3>3. \/ PositionFromPartition(l.starts, line) = 0
              \/ PositionFromPartition(l.starts, line) \in LineBreaks(t)
            <4> DEFINE p == l.starts
                       at == PositionFromPartition(p, m)
            <4>1. IndexOf(p, LineBreaks(t), Len(t)) /\ m \in 0 .. Partitions(p) - 1
                  /\ line = PartitionFromPosition(p, pos) /\ at = PositionFromPartition(p, m)
                BY <3>2, <1>10 DEF LineFromPosition
            <4> HIDE DEF p, at
            <4>2. \/ PositionFromPartition(p, line) = 0
                  \/ PositionFromPartition(p, line) \in LineBreaks(t)
                BY <4>1, <1>10, LineAtIs DEF LineFrom
            <4> QED BY <4>2 DEF p
        <3> QED BY <3>1, <3>3 DEF StartsLine
    <2> QED BY <2>1, <1>9, PushEnds
<1>12. Counts(F, k - 1) /\ k \in Nat \ {0}
    <2>1. Splits(done.lines.starts, k, F, B, Len(t) + n)
        BY <1>3 DEF Reached
    <2>2. F \subseteq Int /\ pos + n \in Int /\ \A e \in F : e <= pos + n
        BY <1>1, <1>5
    <2> DEFINE x == pos + n
               p == done.lines.starts
               end == Len(t) + n
    <2>3. Splits(p, k, F, B, end) /\ x \in Int /\ \A e \in F : e <= x
        BY <2>1, <2>2
    <2> HIDE DEF k, F, B, x, p, end
    <2> QED BY <2>2, <2>3, SplitsCount
<1>13. B = Shifted({e \in LineBreaks(t) : e > pos}, n)
    <2>1. CutBreaks(t, pos, SubSeq(t, 1, pos), v)
        BY BreaksCut, Zenon
    <2>2. {e \in LineBreaks(t) : e > pos} = Shifted(LineBreaks(v), pos)
        BY <2>1 DEF CutBreaks
    <2>3. \A e \in LineBreaks(v) : e + (pos + n) = (e + pos) + n
        <3> HIDE DEF n
        <3> QED BY <1>1, <1>5
    <2> QED BY <2>2, <2>3 DEF Shifted
<1>14. LineBreaks(w) = (F \ (IF Pair(u, v) THEN {pos + n} ELSE {})) \cup B
    BY <1>3, <1>4 DEF BreaksOfBoth
<1>15. k = done.next
    OBVIOUS
<1> HIDE DEF n, k, F, B
<1> QED BY <1>5, <1>6, <1>7, <1>8, <1>11, <1>12, <1>13, <1>14, <1>15 DEF ScanMarks, MarkerScanned, n, F, B

MarkerKept(done, w, m, at, k, u, v) ==
    /\ done.lines.marker = m /\ Counts(NotAfter(LineBreaks(w), at), m)
    /\ Pair(u, v) => ~(m >= k - 1)

MarkerWent(done, w, x, k, u, v) ==
    /\ done.lines.marker >= k - 1
    /\ Counts(NotAfter(LineBreaks(w), x), done.lines.marker - (IF Pair(u, v) THEN 1 ELSE 0))

\* A marked line that starts before the insertion keeps its number.
LEMMA MarkerAbove ==
    ASSUME NEW done, NEW C, NEW t \in Seq(C), NEW w \in Seq(C), NEW n \in Nat, NEW k, NEW u, NEW v,
           NEW m \in Nat, NEW line, NEW lineStart, NEW pos \in 0 .. Len(t), pos \in 0 .. Len(w),
           MarkerScanned(done, t, pos, n, w, k, u, v, m, line, lineStart),
           Above(m, line, lineStart), SubSeq(w, 1, pos) = SubSeq(t, 1, pos),
           NEW at \in Nat, at < pos, Counts(NotAfter(LineBreaks(t), at), m)
    PROVE  MarkerKept(done, w, m, at, k, u, v)
<1> DEFINE F == LineBreaks(u)
           B == Shifted(LineBreaks(v), pos + n)
           last == pos + n
<1>0. pos \in Nat /\ last \in Int /\ ~(last <= at) /\ at < last /\ at \in Int
    <2>1. Len(t) \in Nat
        BY LenProperties
    <2> QED BY <2>1
<1>1. done.lines.marker = m
    BY DEF MarkerScanned, Pushed
<1>2. NotAfter(LineBreaks(w), at) = NotAfter(LineBreaks(t), at)
    BY <1>0, BreaksBefore
<1>3. Counts(NotAfter(LineBreaks(w), at), m)
    BY <1>2
<1>4. /\ LineBreaks(w) = (F \ (IF Pair(u, v) THEN {last} ELSE {})) \cup B
      /\ \A e \in B : e \in Int /\ e > last
      /\ Counts(F, k - 1) /\ (Pair(u, v) => last \in F) /\ k \in Nat
    BY DEF MarkerScanned
<1> HIDE DEF F, B, last
<1>5. ASSUME Pair(u, v)
      PROVE  ~(m >= k - 1)
    <2>1. last \in F
        BY <1>4, <1>5
    <2> DEFINE i == k - 1
    <2>2. Counts(F, i) /\ i \in Int
        BY <1>4
    <2> HIDE DEF i
    <2>3. Counts(F \ {last}, i - 1)
        BY <2>1, <2>2, CountsLess
    <2>4. NotAfter(LineBreaks(w), at) \subseteq F \ {last}
        <3>1. \A e \in B : ~(e <= at)
            BY <1>0, <1>4
        <3> QED BY <3>1, <1>4, <1>5 DEF NotAfter
    <2>5. PICK j \in Nat : Counts(NotAfter(LineBreaks(w), at), j) /\ j <= i - 1
        BY <2>3, <2>4, CountsPart
    <2>6. j = m
        BY <2>5, <1>3, CountsNat
    <2> QED BY <2>2, <2>5, <2>6 DEF i
<1> QED BY <1>1, <1>3, <1>5 DEF MarkerKept

\* One that does not is pushed along with the text that it starts with.
LEMMA MarkerBelow ==
    ASSUME NEW done, NEW C, NEW t \in Seq(C), NEW n \in Nat, NEW w, NEW k, NEW u, NEW v,
           NEW m \in Nat, NEW line \in Nat, NEW lineStart \in BOOLEAN, NEW pos \in Nat,
           MarkerScanned(done, t, pos, n, w, k, u, v, m, line, lineStart),
           ~Above(m, line, lineStart), NEW at \in Nat, at >= pos,
           Counts(NotAfter(LineBreaks(t), at), m), Counts(NotAfter(LineBreaks(t), pos), line)
    PROVE  MarkerWent(done, w, at + n, k, u, v)
<1> DEFINE F == LineBreaks(u)
           B == Shifted(LineBreaks(v), pos + n)
           last == pos + n
           S == LineBreaks(t)
           more == Between(S, pos, at)
           x == at + n
<1>0. last \in Int /\ last <= x /\ x \in Int /\ at \in Int /\ pos \in Int /\ n \in Int
    OBVIOUS
<1>1. done.lines.marker = m + (k - line - 1) /\ k \in Nat \ {0}
    BY DEF MarkerScanned, Pushed
<1>2. /\ LineBreaks(w) = (F \ (IF Pair(u, v) THEN {last} ELSE {})) \cup B
      /\ \A e \in B : e \in Int /\ e > last
      /\ Counts(F, k - 1) /\ (Pair(u, v) => last \in F)
      /\ F \subseteq 1 .. last /\ B = Shifted({e \in S : e > pos}, n)
    BY DEF MarkerScanned
<1>3. S \subseteq Int
    BY BreaksCount
<1>4. line <= m /\ Counts(more, m - line)
    <2> HIDE DEF S
    <2>1. Counts(NotAfter(S, pos), line) /\ Counts(NotAfter(S, at), m)
        BY DEF S
    <2> QED BY <2>1, <1>0, <1>3, CountsBetween
<1>5. NotAfter(B, x) = Shifted(more, n)
    <2>1. \A e \in S : e + n <= x <=> e <= at
        BY <1>3
    <2> HIDE DEF S, x
    <2> QED BY <2>1, <1>2 DEF NotAfter, Shifted, Between
<1>6. Counts(NotAfter(B, x), m - line)
    <2>1. more \subseteq Int
        BY <1>3 DEF Between
    <2> DEFINE j == m - line
    <2> HIDE DEF more, j, S, B
    <2>2. Counts(Shifted(more, n), j)
        BY <2>1, <1>0, <1>4, CountsMoved DEF j
    <2> QED BY <2>2, <1>5 DEF j
<1>7. \A e \in F : e <= x
    BY <1>0, <1>2
<1>8. \A G : G \subseteq F => NotAfter(G \cup B, x) = G \cup NotAfter(B, x) /\ G \cap NotAfter(B, x) = {}
    <2>1. \A e \in F : e <= last
        BY <1>0, <1>2
    <2>2. \A e \in B : ~(e <= last)
        BY <1>0, <1>2
    <2> HIDE DEF F, B, last, x
    <2> QED BY <2>1, <2>2, <1>7 DEF NotAfter
<1> HIDE DEF F, B, last, S, more, x
<1>9. m - line \in Nat /\ done.lines.marker \in Nat /\ done.lines.marker >= k - 1
      /\ (k - 1) + (m - line) = done.lines.marker
      /\ ((k - 1) - 1) + (m - line) = done.lines.marker - 1
    BY <1>1, <1>4
<1> DEFINE i == k - 1
           j == m - line
           marker == done.lines.marker
<1>10. /\ Counts(F, i) /\ Counts(NotAfter(B, x), j) /\ i + j = marker /\ (i - 1) + j = marker - 1
       /\ marker >= i /\ marker \in Nat
    BY <1>2, <1>6, <1>9
<1> HIDE DEF i, j, marker
<1>11. CASE ~Pair(u, v)
    <2>1. LineBreaks(w) = F \cup B
        BY <1>2, <1>11
    <2>2. Counts(F \cup NotAfter(B, x), i + j)
        BY <1>8, <1>10, CountsBoth
    <2>3. Counts(NotAfter(LineBreaks(w), x), marker)
        BY <2>1, <2>2, <1>8, <1>10
    <2> QED BY <2>3, <1>10, <1>11 DEF x, marker, i, MarkerWent
<1>12. CASE Pair(u, v)
    <2> DEFINE G == F \ {last}
    <2>1. LineBreaks(w) = G \cup B /\ last \in F /\ G \subseteq F
        BY <1>2, <1>12
    <2>2. Counts(G, i - 1)
        BY <2>1, <1>10, CountsLess
    <2> HIDE DEF G
    <2>3. Counts(G \cup NotAfter(B, x), (i - 1) + j)
        BY <2>1, <2>2, <1>8, <1>10, CountsBoth
    <2>4. Counts(NotAfter(LineBreaks(w), x), marker - 1)
        BY <2>1, <2>3, <1>8, <1>10
    <2> QED BY <2>4, <1>10, <1>12 DEF x, marker, i, MarkerWent
<1> QED BY <1>11, <1>12

\* A marker stays with the text that its line starts with when more text is inserted,
\* before it, in its line or behind it, also where that splits or makes a pair
\* (CellBuffer::BasicInsertString, LineVector::InsertLine).
THEOREM InsertStringMovesMarker ==
    ASSUME NEW C, NEW t \in Seq(C), NEW pos \in 0 .. Len(t), NEW s \in Seq(C), Len(s) > 0,
           NEW l, AreLines(l), IndexOf(l.starts, LineBreaks(t), Len(t)),
           NEW m \in Nat, l.marker = m, NEW at, at = PositionFromPartition(l.starts, m)
    PROVE  BasicInsertString(l, t, pos, s).marker =
               LineOf(Inserted(t, pos, s), IF at >= pos THEN at + Len(s) ELSE at)
<1> DEFINE n == Len(s)
           w == Inserted(t, pos, s)
           u == SubSeq(w, 1, pos + n)
           v == SubSeq(t, pos + 1, Len(t))
           done == LinesScanned(l, t, pos, s)
           k == done.next
           p == l.starts
           line == LineFromPosition(l, pos)
           lineStart == StartsLine(l, pos)
           new == BasicInsertString(l, t, pos, s)
           marker == done.lines.marker
<1>1. n \in Nat /\ Len(t) \in Nat /\ pos \in Nat /\ pos <= Len(t)
    BY LenProperties
<1>2. m \in 0 .. Partitions(p) - 1
    BY DEF AreLines
<1>3. at \in Nat /\ Counts(NotAfter(LineBreaks(t), at), m)
    <2> HIDE DEF p
    <2>1. IndexOf(p, LineBreaks(t), Len(t)) /\ at = PositionFromPartition(p, m)
        BY DEF p
    <2> QED BY <2>1, <1>2, MarkedLine
<1>4. /\ line \in Nat /\ Counts(NotAfter(LineBreaks(t), pos), line)
      /\ at < pos <=> m <= line /\ (PositionFromPartition(p, line) = pos => m < line)
    <2>1. IndexOf(p, LineBreaks(t), Len(t)) /\ at = PositionFromPartition(p, m)
          /\ line = PartitionFromPosition(p, pos)
        BY DEF LineFromPosition
    <2> HIDE DEF p, line
    <2>2. LineFrom(p, t, m, at, pos, line)
        BY <2>1, <1>1, <1>2, LineAtIs
    <2> QED BY <2>2 DEF LineFrom
<1>5. Above(m, line, lineStart) <=> at < pos
    BY <1>4 DEF Above, StartsLine
<1>6. /\ MarkerScanned(done, t, pos, n, w, k, u, v, m, line, lineStart)
      /\ Pair(u, v) <=> CharAt(t, pos) = LF /\ Last(s) = CR
    <2>1. ScanMarks(done, l, t, pos, s, w, u, v, m, line)
        BY MarkerScan, Zenon
    <2> QED BY <2>1 DEF ScanMarks
<1>7. w \in Seq(C) /\ Len(w) = Len(t) + n /\ SubSeq(w, 1, pos) = SubSeq(t, 1, pos)
    <2>1. w \in Seq(C) /\ IsInserted(w, t, pos, s)
        BY InsertedIs
    <2> HIDE DEF w
    <2> QED BY <2>1 DEF IsInserted
<1>8. pos \in 0 .. Len(w)
    BY <1>1, <1>7
<1>9. /\ new = IF CharAt(t, pos) = LF /\ Last(s) = CR THEN RemoveLine(done.lines, k - 1) ELSE done.lines
    BY DEF BasicInsertString
<1>10. new.marker = IF Pair(u, v) /\ marker >= k - 1 THEN marker - 1 ELSE marker
    <2>1. RemoveLine(done.lines, k - 1).marker = IF marker >= k - 1 THEN marker - 1 ELSE marker
        BY DEF RemoveLine
    <2> HIDE DEF done, u, v, k, new, marker
    <2> QED BY <2>1, <1>6, <1>9 DEF marker
<1>11. lineStart \in BOOLEAN
    BY DEF StartsLine
<1>12. CASE at < pos
    <2>1. /\ marker = m /\ Counts(NotAfter(LineBreaks(w), at), m)
          /\ Pair(u, v) => ~(m >= k - 1)
        <3> HIDE DEF w, u, v, k, line, lineStart, n
        <3>1. /\ MarkerScanned(done, t, pos, n, w, k, u, v, m, line, lineStart)
              /\ Above(m, line, lineStart) /\ SubSeq(w, 1, pos) = SubSeq(t, 1, pos)
              /\ n \in Nat /\ w \in Seq(C) /\ pos \in 0 .. Len(w)
              /\ at \in Nat /\ Counts(NotAfter(LineBreaks(t), at), m)
            BY <1>1, <1>3, <1>5, <1>6, <1>7, <1>8, <1>12
        <3> HIDE DEF done
        <3>2. MarkerKept(done, w, m, at, k, u, v)
            BY <3>1, <1>12, MarkerAbove, Zenon
        <3> QED BY <3>2 DEF MarkerKept
    <2>2. new.marker = m
        BY <2>1, <1>10
    <2>3. LineOf(w, at) = m
        <3> HIDE DEF w
        <3> QED BY <2>1, LineOfIs
    <2>4. ~(at >= pos)
        BY <1>1, <1>3, <1>12
    <2> QED BY <2>2, <2>3, <2>4
<1>13. CASE ~(at < pos)
    <2>0. at >= pos
        BY <1>1, <1>3, <1>13
    <2>1. /\ marker >= k - 1
          /\ Counts(NotAfter(LineBreaks(w), at + n), marker - (IF Pair(u, v) THEN 1 ELSE 0))
        <3> HIDE DEF w, u, v, k, line, lineStart, n
        <3>1. /\ MarkerScanned(done, t, pos, n, w, k, u, v, m, line, lineStart)
              /\ ~Above(m, line, lineStart) /\ n \in Nat /\ line \in Nat /\ pos \in Nat
              /\ at \in Nat /\ Counts(NotAfter(LineBreaks(t), at), m)
              /\ Counts(NotAfter(LineBreaks(t), pos), line)
            BY <1>1, <1>3, <1>4, <1>5, <1>6, <1>13
        <3> HIDE DEF done
        <3>2. MarkerWent(done, w, at + n, k, u, v)
            BY <2>0, <3>1, <1>11, MarkerBelow, Zenon
        <3> QED BY <3>2 DEF MarkerWent
    <2>2. marker \in Int
        BY <1>4, <1>6 DEF MarkerScanned, Pushed
    <2>3. new.marker = marker - (IF Pair(u, v) THEN 1 ELSE 0)
        <3> HIDE DEF marker, u, v, new, k
        <3> QED BY <2>1, <2>2, <1>10
    <2>4. LineOf(w, at + n) = new.marker
        <3> HIDE DEF w, u, v, new, marker, n
        <3> QED BY <2>1, <2>3, LineOfIs
    <2> QED BY <2>0, <2>4
<1> QED BY <1>12, <1>13

(***************************************************************************)
(* The marker, when text is deleted.                                       *)
(***************************************************************************)

\* The marker is as many lines past `base' as starts that are left lie before it; base
\* is the last line that stays, or its own when it starts before what goes.
Pulled(acc, base, t, pos, i, at) ==
    /\ acc = [starts |-> acc.starts, marker |-> acc.marker]
    /\ \E j \in Nat : /\ Counts(NotAfter(BreaksLeft(t, pos, i), at), j)
                      /\ acc.marker = base + j

LEMMA PullKeeps ==
    ASSUME NEW C, NEW t \in Seq(C), NEW pos \in Nat, NEW i \in Nat, pos + i < Len(t),
           NEW base \in Nat, NEW here \in Nat, base < here, NEW at \in Int,
           at > pos => base = here - 1,
           NEW acc, Pulled(acc, base, t, pos, i, at)
    PROVE  Pulled(IF EndsLineThatGoes(t, pos, pos + i) THEN RemoveLine(acc, here) ELSE acc,
                  base, t, pos, i + 1, at)
<1> DEFINE A == BreaksLeft(t, pos, i)
           D == BreaksLeft(t, pos, i + 1)
           e == pos + i + 1
           next == RemoveLine(acc, here)
<1>1. /\ D = A \ {e} /\ (EndsLineThatGoes(t, pos, pos + i) <=> e \in A)
      /\ A \subseteq Int /\ \A x \in A : e <= x
    BY LeftIsLess
<1>2. e \in Int /\ e > pos
    OBVIOUS
<1>3. PICK j \in Nat : Counts(NotAfter(A, at), j) /\ acc.marker = base + j
    BY DEF Pulled
<1>4. acc = [starts |-> acc.starts, marker |-> acc.marker]
    BY DEF Pulled
<1> HIDE DEF A, D, e, next
<1>5. CASE e \notin A
    <2>1. D = A
        BY <1>1, <1>5
    <2> QED BY <2>1, <1>1, <1>5 DEF Pulled, A, D
<1>6. CASE e \in A
    <2>1. next = [starts |-> next.starts, marker |-> next.marker]
          /\ next.marker = IF acc.marker >= here THEN acc.marker - 1 ELSE acc.marker
        BY DEF next, RemoveLine
    <2>2. CASE e <= at
        <3>1. e \in NotAfter(A, at) /\ NotAfter(D, at) = NotAfter(A, at) \ {e}
            BY <2>2, <1>1, <1>6 DEF NotAfter
        <3>2. Counts(NotAfter(D, at), j - 1) /\ j \in Nat \ {0}
            <4> DEFINE T == NotAfter(A, at)
            <4>1. Counts(T, j) /\ e \in T
                BY <3>1, <1>3
            <4> HIDE DEF T
            <4>2. Counts(T \ {e}, j - 1) /\ j \in Nat \ {0}
                BY <4>1, CountsLess
            <4> QED BY <3>1, <4>2 DEF T
        <3>3. base = here - 1
            BY <2>2, <1>2
        <3>4. j - 1 \in Nat /\ next.marker = base + (j - 1)
            BY <2>1, <3>2, <3>3, <1>3
        <3>5. Pulled(next, base, t, pos, i + 1, at)
            BY <2>1, <3>2, <3>4 DEF Pulled, D
        <3> QED BY <3>5, <1>1, <1>6 DEF next
    <2>3. CASE ~(e <= at)
        <3>1. NotAfter(A, at) = {} /\ NotAfter(D, at) = {}
            <4>1. \A x \in A : ~(x <= at)
                BY <2>3, <1>1, <1>2
            <4> QED BY <4>1, <1>1 DEF NotAfter
        <3>2. Counts(NotAfter(D, at), 0) /\ j = 0
            BY <3>1, <1>3, CountsNone, CountsNat
        <3>3. next.marker = base + 0
            BY <2>1, <3>2, <1>3
        <3>4. Pulled(next, base, t, pos, i + 1, at)
            BY <2>1, <3>2, <3>3 DEF Pulled, D
        <3> QED BY <3>4, <1>1, <1>6 DEF next
    <2> QED BY <2>2, <2>3
<1> QED BY <1>5, <1>6

LEMMA PullEnds ==
    ASSUME NEW C, NEW t \in Seq(C), NEW pos \in Nat, NEW len \in Nat, pos + len <= Len(t),
           NEW base \in Nat, NEW here \in Nat, base < here, NEW at \in Int,
           at > pos => base = here - 1,
           NEW first, Pulled(first, base, t, pos, 0, at)
    PROVE  Pulled(LinesRemoved(first, t, pos, len, here), base, t, pos, len, at)
<1> DEFINE c == [t |-> t, pos |-> pos, here |-> here]
           seq == [k \in 1 .. len |-> pos + k - 1]
<1>1. LinesRemoved(first, t, pos, len, here) = Removing!Left(c, first, seq)
    BY RemovedIsFold
<1>2. DOMAIN seq = 1 .. len /\ \A i \in 1 .. len : seq[i] = pos + i - 1
    OBVIOUS
<1>3. c.t = t /\ c.pos = pos /\ c.here = here
    OBVIOUS
<1> HIDE DEF c, seq
<1>4. PICK h : Removing!PassesLeft(h, c, first, seq, len)
    BY <1>2, Removing!FoldLeftPasses
<1>5. /\ h[0] = first /\ h[len] = Removing!Left(c, first, seq)
      /\ \A i \in 1 .. len : h[i] = RemoveOp(c, h[i - 1], seq[i])
    BY <1>4 DEF Removing!PassesLeft
<1> DEFINE T == {i \in 0 .. len : Pulled(h[i], base, t, pos, i, at)}
<1>6. 0 \in T
    BY <1>5
<1>7. ASSUME NEW i \in 0 .. len - 1, i \in T
      PROVE  i + 1 \in T
    <2> DEFINE acc == h[i]
    <2>1. /\ i + 1 \in 1 .. len /\ (i + 1) - 1 = i /\ pos + (i + 1) - 1 = pos + i
          /\ i \in Nat /\ pos + i < Len(t) /\ i + 1 \in 0 .. len
        <3>1. Len(t) \in Nat
            BY LenProperties
        <3> QED BY <3>1
    <2>2. h[i + 1] = RemoveOp(c, h[(i + 1) - 1], seq[i + 1])
        BY <2>1, <1>5
    <2>3. seq[i + 1] = pos + i
        BY <2>1, <1>2
    <2>4. h[i + 1] = IF EndsLineThatGoes(t, pos, pos + i) THEN RemoveLine(acc, here) ELSE acc
        BY <2>1, <2>2, <2>3, <1>3 DEF RemoveOp
    <2>5. Pulled(acc, base, t, pos, i, at)
        BY <1>7
    <2> HIDE DEF acc
    <2>6. Pulled(IF EndsLineThatGoes(t, pos, pos + i) THEN RemoveLine(acc, here) ELSE acc,
                 base, t, pos, i + 1, at)
        BY <2>1, <2>5, PullKeeps
    <2> QED BY <2>1, <2>4, <2>6
<1> HIDE DEF T
<1>8. len \in T
    <2>1. 0 .. len \subseteq T
        BY <1>6, <1>7, Removing!UpTo
    <2> QED BY <2>1
<1> QED BY <1>1, <1>5, <1>8 DEF T

\* The last line that stays before a marked line m, which starts at `at'.
PullBase(m, here, at, pos) == IF at <= pos THEN m ELSE here - 1

LEMMA PullStarts ==
    ASSUME NEW C, NEW t \in Seq(C), NEW pos \in 0 .. Len(t), NEW len,
           NEW l, AreLines(l), IndexOf(l.starts, LineBreaks(t), Len(t)),
           NEW m \in Nat, l.marker = m, NEW at, at = PositionFromPartition(l.starts, m),
           NEW here, here = RemovedFrom(l, t, pos)
    PROVE  /\ Pulled(BeforeRemoving(l, t, pos, len), PullBase(m, here, at, pos), t, pos, 0, at)
           /\ PullBase(m, here, at, pos) \in Nat /\ PullBase(m, here, at, pos) < here /\ here \in Nat
<1> DEFINE p == l.starts
           line == LineFromPosition(l, pos)
           S == LineBreaks(t)
           A == BreaksLeft(t, pos, 0)
           base == PullBase(m, here, at, pos)
           first == BeforeRemoving(l, t, pos, len)
<1>1. Len(t) \in Nat /\ pos \in Nat /\ m \in 0 .. Partitions(p) - 1
    BY LenProperties DEF AreLines
<1>2. LineFrom(p, t, m, at, pos, line) /\ at \in Nat /\ Counts(NotAfter(S, at), m)
    <2>1. IndexOf(p, LineBreaks(t), Len(t)) /\ at = PositionFromPartition(p, m)
          /\ line = PartitionFromPosition(p, pos)
        BY DEF LineFromPosition
    <2> HIDE DEF p, line
    <2>2. LineFrom(p, t, m, at, pos, line)
        BY <2>1, <1>1, LineAtIs
    <2>3. at \in Nat /\ Counts(NotAfter(S, at), m)
        BY <2>1, <1>1, MarkedLine
    <2> QED BY <2>2, <2>3
<1>3. line \in Nat /\ Counts(NotAfter(S, pos), line) /\ (at <= pos <=> m <= line)
    BY <1>2 DEF LineFrom
<1>4. here = IF SplitsPair(t, pos) THEN line + 2 ELSE line + 1
    BY DEF RemovedFrom
<1>5. first = [starts |-> first.starts, marker |-> first.marker] /\ first.marker = m
    <2>1. l = [starts |-> l.starts, marker |-> l.marker]
        BY DEF AreLines
    <2> QED BY <2>1 DEF BeforeRemoving, GrowLine, SetLineStart
<1>6. S \subseteq Int
    BY BreaksCount
<1>7. \A e \in S : e > pos + 0 <=> e > pos
    BY <1>1, <1>6
<1> HIDE DEF p, line, first, S
<1>8. CASE at <= pos
    <2>1. base = m /\ m \in Nat /\ m < here /\ here \in Nat /\ m + 0 = m
        BY <1>3, <1>4, <1>8 DEF PullBase
    <2>2. NotAfter(A, at) = {}
        <3>1. \A e \in S : e > pos => ~(e <= at)
            BY <1>1, <1>2, <1>6, <1>8
        <3> QED BY <3>1, <1>7 DEF NotAfter, BreaksLeft, S
    <2>3. Counts(NotAfter(A, at), 0)
        BY <2>2, CountsNone
    <2>4. Pulled(first, base, t, pos, 0, at)
        BY <2>1, <2>3, <1>5 DEF Pulled
    <2> QED BY <2>1, <2>4 DEF first
<1>9. CASE ~(at <= pos)
    <2> DEFINE M == Between(S, pos, at)
               j == m - line
    <2>1. Counts(M, j) /\ line < m /\ pos \in Int /\ at \in Int /\ pos < at
        <3>1. pos \in Int /\ at \in Int /\ pos <= at /\ line < m /\ pos < at
            BY <1>1, <1>2, <1>3, <1>9
        <3>2. Counts(M, m - line)
            BY <3>1, <1>2, <1>3, <1>6, CountsBetween
        <3> QED BY <3>1, <3>2
    <2>2. base = here - 1 /\ here - 1 \in Nat /\ here - 1 < here /\ here \in Nat
        BY <1>3, <1>4, <1>9 DEF PullBase
    <2>3. CASE ~SplitsPair(t, pos)
        <3>1. NotAfter(A, at) = M
            BY <2>3, <1>7 DEF NotAfter, BreaksLeft, Between, S
        <3>2. j \in Nat /\ m = base + j
            BY <2>1, <2>2, <2>3, <1>3, <1>4
        <3>3. Counts(NotAfter(A, at), j) /\ first.marker = base + j
            BY <2>1, <3>1, <3>2, <1>5
        <3>4. Pulled(first, base, t, pos, 0, at)
            BY <3>2, <3>3, <1>5 DEF Pulled
        <3> QED BY <2>2, <3>4 DEF first
    <2>4. CASE SplitsPair(t, pos)
        <3> DEFINE e == pos + 1
        <3>1. e \in S
            <4>1. pos + 1 \in LineBreaks(t)
                BY <2>4, SplitEnds, Zenon
            <4> QED BY <4>1 DEF S
        <3>2. e \in M
            BY <2>1, <3>1 DEF Between
        <3>3. NotAfter(A, at) = M \ {e}
            BY <2>4, <1>7 DEF NotAfter, BreaksLeft, Between, S
        <3>4. Counts(M, j)
            BY <2>1
        <3> HIDE DEF M, e, j
        <3>5. Counts(M \ {e}, j - 1) /\ j \in Nat \ {0}
            BY <3>2, <3>4, CountsLess
        <3>6. j - 1 \in Nat /\ m = base + (j - 1)
            BY <3>5, <2>2, <2>4, <1>3, <1>4 DEF j
        <3>7. Pulled(first, base, t, pos, 0, at)
            BY <3>3, <3>5, <3>6, <1>5 DEF Pulled
        <3> QED BY <2>2, <3>7 DEF first
    <2> QED BY <2>3, <2>4
<1> QED BY <1>8, <1>9

\* What a deletion leaves, for the marker: u and v are the text before and after it.
Parted(t, pos, len, w, here, u, v) ==
    /\ Counts(LineBreaks(u), here - 1) /\ here \in Nat \ {0}
    /\ LineBreaks(u) \subseteq 1 .. pos
    /\ LineBreaks(w) = (LineBreaks(u) \ (IF Pair(u, v) THEN {pos} ELSE {}))
                           \cup Shifted(BreaksLeft(t, pos, len), -len)
    /\ \A e \in BreaksLeft(t, pos, len) : e \in Int /\ e > pos + len
    /\ Pair(u, v) => pos \in LineBreaks(u)
    /\ Pair(u, v) <=> CharAt(t, pos - 1) = CR /\ CharAt(t, pos + len) = LF
    /\ {e \in LineBreaks(t) : e <= pos} =
           LineBreaks(u) \ (IF SplitsPair(t, pos) THEN {pos} ELSE {})

LEMMA DeletionParts ==
    ASSUME NEW C, NEW t \in Seq(C), NEW pos \in Nat, NEW len \in Nat \ {0}, pos + len <= Len(t),
           NEW l, AreLines(l), IndexOf(l.starts, LineBreaks(t), Len(t)),
           NEW w, w = Deleted(t, pos, len), NEW here, here = RemovedFrom(l, t, pos),
           NEW u, u = SubSeq(t, 1, pos), NEW v, v = SubSeq(t, pos + len + 1, Len(t))
    PROVE  Parted(t, pos, len, w, here, u, v)
<1> DEFINE F == LineBreaks(u)
           A == BreaksLeft(t, pos, len)
           B == Shifted(A, -len)
           n == Partitions(l.starts)
           first == BeforeRemoving(l, t, pos, len)
           B0 == Shifted(BreaksLeft(t, pos, 0), -len)
           end == Len(t) - len
<1>1. Len(t) \in Nat /\ pos \in 0 .. Len(t) /\ pos \in Int /\ len \in Nat
    BY LenProperties
<1>2. IsDeleted(w, t, pos, len, u, v) /\ u \in Seq(C) /\ v \in Seq(C)
    <2>1. IsDeleted(w, t, pos, len, u, v) /\ u \in Seq(C) /\ v \in Seq(C) /\ w \in Seq(C)
        BY DeletedIs, Zenon
    <2> QED BY <2>1
<1>3. /\ Len(u) = pos /\ LineBreaks(w) = (F \ (IF Pair(u, v) THEN {pos} ELSE {})) \cup B
      /\ Pair(u, v) <=> CharAt(t, pos - 1) = CR /\ CharAt(t, pos + len) = LF
    BY <1>2 DEF IsDeleted, Pair
<1>4. F \subseteq 1 .. pos /\ LineBreaks(t) \subseteq 1 .. Len(t)
    BY <1>2, <1>3, BreaksBounded
<1>5. \A e \in A : e \in Int /\ e > pos + len
    BY <1>4 DEF BreaksLeft
<1>6. Pair(u, v) => pos \in F
    <2> SUFFICES ASSUME Pair(u, v) PROVE pos \in F
        OBVIOUS
    <2>1. CharAt(u, pos - 1) = CR
        BY <1>3 DEF Pair
    <2>2. pos - 1 \in 0 .. Len(u) - 1
        BY <2>1 DEF CharAt, CR
    <2>3. pos \in 1 .. Len(u) /\ (pos - 1) + 1 = pos
        BY <2>2, <1>1, <1>3
    <2>4. u[pos] = CR /\ CharAt(u, pos) = "none" /\ "none" # LF
        BY <2>1, <2>2, <2>3, <1>1, <1>3 DEF CharAt, LF
    <2> QED BY <2>3, <2>4, <1>2, BreakIs
<1>7. StillRemoving(first, u, B0, end, here, n)
    <2>1. StillRemoving(BeforeRemoving(l, t, pos, len), u,
                        Shifted(BreaksLeft(t, pos, 0), -len), Len(t) - len,
                        RemovedFrom(l, t, pos), Partitions(l.starts))
        BY <1>1, RemovingStarts, Zenon
    <2> QED BY <2>1
<1>8. Counts(F, here - 1) /\ here \in Nat \ {0}
    <2> DEFINE p == first.starts
    <2>1. Splits(p, here, F, B0, end)
        BY <1>7 DEF StillRemoving
    <2>2. F \subseteq Int /\ \A e \in F : e <= pos
        BY <1>1, <1>4
    <2> HIDE DEF F, p, B0, end
    <2> QED BY <2>1, <2>2, <1>1, SplitsCount
<1>9. {e \in LineBreaks(t) : e <= pos} = F \ (IF SplitsPair(t, pos) THEN {pos} ELSE {})
    <2>1. CutBreaks(t, pos, u, SubSeq(t, pos + 1, Len(t)))
        BY <1>1, BreaksCut, Zenon
    <2> QED BY <2>1 DEF CutBreaks
<1> QED BY <1>3, <1>4, <1>5, <1>6, <1>8, <1>9 DEF Parted

\* A marker after the lines that are removed.
Ended(marker, w, x, here, u, v) ==
    Counts(NotAfter(LineBreaks(w), x),
           IF Pair(u, v) /\ marker >= here - 1 THEN marker - 1 ELSE marker)

LEMMA EndAbove ==
    ASSUME NEW C, NEW t \in Seq(C), NEW pos \in 0 .. Len(t), NEW len \in Nat, NEW w, NEW here,
           NEW u, NEW v, Parted(t, pos, len, w, here, u, v),
           NEW m \in Nat, NEW at \in Nat, at <= pos, Counts(NotAfter(LineBreaks(t), at), m),
           at = 0 \/ at \in LineBreaks(t)
    PROVE  Ended(m, w, at, here, u, v)
<1> DEFINE F == LineBreaks(u)
           S == LineBreaks(t)
           B == Shifted(BreaksLeft(t, pos, len), -len)
           k == here - 1
<1>1. pos \in Nat /\ pos \in Int /\ at \in Int
    <2>1. Len(t) \in Nat
        BY LenProperties
    <2> QED BY <2>1
<1>2. /\ Counts(F, k) /\ k \in Nat /\ F \subseteq 1 .. pos
      /\ LineBreaks(w) = (F \ (IF Pair(u, v) THEN {pos} ELSE {})) \cup B
      /\ \A e \in BreaksLeft(t, pos, len) : e \in Int /\ e > pos + len
      /\ Pair(u, v) => pos \in F
      /\ {e \in S : e <= pos} = F \ (IF SplitsPair(t, pos) THEN {pos} ELSE {})
    BY DEF Parted
<1>3. \A e \in B : e \in Int /\ ~(e <= at)
    <2>1. \A e \in BreaksLeft(t, pos, len) : e + (-len) \in Int /\ ~(e + (-len) <= at)
        BY <1>1, <1>2
    <2> QED BY <2>1 DEF Shifted
<1>4. S \subseteq Int
    BY BreaksCount
<1>5. NotAfter(S, at) = NotAfter(F, at)
    <2>1. \A e \in S : e <= at => e <= pos
        BY <1>1, <1>4
    <2>2. ASSUME SplitsPair(t, pos)
          PROVE  ~(pos <= at)
        <3>1. pos # 0 /\ pos \notin S
            BY <2>2, SplitIsNoStart
        <3> QED BY <3>1, <1>1
    <2>3. NotAfter(S, at) = NotAfter({e \in S : e <= pos}, at)
        BY <2>1 DEF NotAfter
    <2>4. \A e \in {pos} : SplitsPair(t, pos) => ~(e <= at)
        BY <2>2
    <2> HIDE DEF S, F
    <2> QED BY <2>3, <2>4, <1>2 DEF NotAfter
<1>6. Counts(NotAfter(F, at), m)
    BY <1>5
<1> HIDE DEF F, S, B, k
<1>7. CASE ~Pair(u, v)
    <2>1. NotAfter(LineBreaks(w), at) = NotAfter(F, at)
        BY <1>2, <1>3, <1>7 DEF NotAfter
    <2> QED BY <2>1, <1>6, <1>7 DEF Ended
<1>8. CASE Pair(u, v)
    <2> DEFINE G == F \ {pos}
    <2>1. NotAfter(LineBreaks(w), at) = NotAfter(G, at)
        BY <1>2, <1>3, <1>8 DEF NotAfter
    <2>2. Counts(G, k - 1) /\ k \in Nat \ {0}
        BY <1>2, <1>8, CountsLess
    <2>3. CASE at = pos
        <3>1. \A e \in F : e <= at
            BY <2>3, <1>1, <1>2
        <3>2. NotAfter(F, at) = F /\ NotAfter(G, at) = G
            BY <3>1 DEF NotAfter
        <3>3. m = k
            BY <3>2, <1>2, <1>6, CountsNat
        <3>4. m >= k
            BY <3>3
        <3> QED BY <2>1, <2>2, <3>2, <3>3, <3>4, <1>8 DEF Ended, k
    <2>4. CASE at # pos
        <3>1. ~(pos <= at)
            BY <2>4, <1>1
        <3>2. NotAfter(G, at) = NotAfter(F, at) /\ NotAfter(F, at) \subseteq G
            BY <3>1 DEF NotAfter
        <3>3. PICK j \in Nat : Counts(NotAfter(F, at), j) /\ j <= k - 1
            BY <2>2, <3>2, CountsPart
        <3>4. j = m
            BY <3>3, <1>6, CountsNat
        <3>5. ~(m >= k)
            BY <2>2, <3>3, <3>4
        <3> QED BY <2>1, <3>2, <3>5, <1>6 DEF Ended, k
    <2> QED BY <2>3, <2>4
<1> QED BY <1>7, <1>8

LEMMA EndBelow ==
    ASSUME NEW t, NEW pos \in Nat, NEW len \in Nat, NEW w, NEW here,
           NEW u, NEW v, Parted(t, pos, len, w, here, u, v),
           NEW at \in Nat, at > pos, NEW j \in Nat,
           Counts(NotAfter(BreaksLeft(t, pos, len), at), j),
           NEW x \in Int, x = IF at - len > pos THEN at - len ELSE pos
    PROVE  Ended(here - 1 + j, w, x, here, u, v)
<1> DEFINE F == LineBreaks(u)
           A == BreaksLeft(t, pos, len)
           d == -len
           B == Shifted(A, d)
           k == here - 1
<1>1. /\ Counts(F, k) /\ k \in Nat /\ F \subseteq 1 .. pos
      /\ LineBreaks(w) = (F \ (IF Pair(u, v) THEN {pos} ELSE {})) \cup B
      /\ \A e \in A : e \in Int /\ e > pos + len
      /\ Pair(u, v) => pos \in F
    BY DEF Parted
<1>2. pos <= x /\ d \in Int
    OBVIOUS
<1>3. \A e \in A : (e + d <= x <=> e <= at) /\ e + d > pos
    BY <1>1
<1>4. NotAfter(B, x) = Shifted(NotAfter(A, at), d)
    <2> HIDE DEF A, d
    <2> QED BY <1>3 DEF NotAfter, Shifted
<1>5. Counts(NotAfter(B, x), j)
    <2> DEFINE T == NotAfter(A, at)
    <2>1. T \subseteq Int /\ Counts(T, j)
        BY <1>1 DEF NotAfter
    <2> HIDE DEF T, d, B
    <2> QED BY <2>1, <1>2, <1>4, CountsMoved DEF T
<1>6. \A G : G \subseteq F => NotAfter(G \cup B, x) = G \cup NotAfter(B, x) /\ G \cap NotAfter(B, x) = {}
    <2>1. \A e \in F : e <= pos /\ e <= x
        BY <1>1, <1>2
    <2>2. \A e \in B : ~(e <= pos)
        <3>1. \A e \in A : ~(e + d <= pos)
            BY <1>1
        <3> QED BY <3>1 DEF Shifted
    <2> HIDE DEF F, B
    <2> QED BY <2>1, <2>2 DEF NotAfter
<1> HIDE DEF F, A, B, d, k
<1>7. CASE ~Pair(u, v)
    <2>1. LineBreaks(w) = F \cup B
        BY <1>1, <1>7
    <2>2. Counts(F \cup NotAfter(B, x), k + j)
        BY <1>1, <1>5, <1>6, CountsBoth
    <2>3. Counts(NotAfter(LineBreaks(w), x), k + j)
        BY <2>1, <2>2, <1>6
    <2> QED BY <2>3, <1>7 DEF Ended, k
<1>8. CASE Pair(u, v)
    <2> DEFINE G == F \ {pos}
    <2>1. LineBreaks(w) = G \cup B /\ pos \in F /\ G \subseteq F
        BY <1>1, <1>8
    <2>2. Counts(G, k - 1)
        BY <2>1, <1>1, CountsLess
    <2> HIDE DEF G
    <2>3. Counts(G \cup NotAfter(B, x), (k - 1) + j)
        BY <2>1, <2>2, <1>5, <1>6, CountsBoth
    <2>4. (k - 1) + j = (k + j) - 1 /\ k + j >= k
        BY <1>1
    <2>5. Counts(NotAfter(LineBreaks(w), x), (k + j) - 1)
        BY <2>1, <2>3, <2>4, <1>6
    <2> QED BY <2>4, <2>5, <1>8 DEF Ended, k
<1> QED BY <1>7, <1>8

MarkerGoesAlong(l, t, pos, len, at) ==
    BasicDeleteChars(l, t, pos, len).marker =
        LineOf(Deleted(t, pos, len), IF at <= pos THEN at ELSE Max({pos, at - len}))

\* A marker stays with the text that its line started with when text is deleted; when
\* that start goes it belongs to the line that takes in what is left
\* (CellBuffer::BasicDeleteChars, LineVector::RemoveLine).
THEOREM DeleteCharsMovesMarker ==
    ASSUME NEW C, NEW t \in Seq(C), NEW pos \in Nat, NEW len \in Nat \ {0}, pos + len <= Len(t),
           len < Len(t),
           NEW l, AreLines(l), IndexOf(l.starts, LineBreaks(t), Len(t)),
           NEW m \in Nat, l.marker = m, NEW at, at = PositionFromPartition(l.starts, m)
    PROVE  MarkerGoesAlong(l, t, pos, len, at)
<1> DEFINE w == Deleted(t, pos, len)
           u == SubSeq(t, 1, pos)
           v == SubSeq(t, pos + len + 1, Len(t))
           here == RemovedFrom(l, t, pos)
           first == BeforeRemoving(l, t, pos, len)
           base == PullBase(m, here, at, pos)
           done == LinesRemoved(first, t, pos, len, here)
           k == here - 1
           new == BasicDeleteChars(l, t, pos, len)
<1>1. Len(t) \in Nat /\ pos \in 0 .. Len(t) /\ pos \in Int /\ len \in Nat /\ len > 0
    BY LenProperties
<1>2. /\ at \in Nat /\ Counts(NotAfter(LineBreaks(t), at), m)
      /\ at = 0 \/ at \in LineBreaks(t)
    <2> DEFINE p == l.starts
    <2>1. IndexOf(p, LineBreaks(t), Len(t)) /\ at = PositionFromPartition(p, m)
          /\ m \in 0 .. Partitions(p) - 1
        BY DEF AreLines
    <2> HIDE DEF p
    <2> QED BY <2>1, MarkedLine
<1>3. Parted(t, pos, len, w, here, u, v)
    BY DeletionParts, Zenon
<1>4. Pulled(first, base, t, pos, 0, at) /\ base \in Nat /\ base < here /\ here \in Nat
    BY <1>1, PullStarts, Zenon
<1>5. new.marker = IF Pair(u, v) /\ done.marker >= k THEN done.marker - 1 ELSE done.marker
    <2> DEFINE line == LineFromPosition(l, pos) + 1
    <2>0. LineFromPosition(l, pos) \in Nat
        BY LinesHaveIndex, Zenon
    <2>1. (IF SplitsPair(t, pos) THEN line + 1 ELSE line) = here
        BY <2>0 DEF RemovedFrom
    <2>2. (IF SplitsPair(t, pos) THEN SetLineStart(GrowLine(l, line - 1, -len), line, pos)
           ELSE GrowLine(l, line - 1, -len)) = first
        BY DEF BeforeRemoving
    <2>3. ~(pos = 0 /\ len = Len(t))
        BY <1>1
    <2> HIDE DEF line, here, first
    <2>4. new = IF CharAt(t, pos - 1) = CR /\ CharAt(t, pos + len) = LF
                THEN SetLineStart(RemoveLine(done, k), k, pos + 1)
                ELSE done
        BY <2>1, <2>2, <2>3 DEF BasicDeleteChars, line
    <2>5. RemoveLine(done, k).marker = IF done.marker >= k THEN done.marker - 1 ELSE done.marker
        BY DEF RemoveLine
    <2>6. SetLineStart(RemoveLine(done, k), k, pos + 1).marker = RemoveLine(done, k).marker
        BY DEF SetLineStart, RemoveLine
    <2>7. Pair(u, v) <=> CharAt(t, pos - 1) = CR /\ CharAt(t, pos + len) = LF
        BY <1>3 DEF Parted
    <2> HIDE DEF done, k, u, v, new
    <2> QED BY <2>4, <2>5, <2>6, <2>7
<1>6. Pulled(done, base, t, pos, len, at)
    <2> HIDE DEF first, base, here
    <2>1. at \in Int /\ (at > pos => base = here - 1)
        BY <1>1, <1>2 DEF PullBase, base
    <2> QED BY <2>1, <1>1, <1>4, PullEnds
<1>7. PICK j \in Nat : Counts(NotAfter(BreaksLeft(t, pos, len), at), j) /\ done.marker = base + j
    BY <1>6 DEF Pulled
<1>8. CASE at <= pos
    <2>1. NotAfter(BreaksLeft(t, pos, len), at) = {}
        <3>1. \A e \in BreaksLeft(t, pos, len) : ~(e <= at)
            BY <1>1, <1>2, <1>3, <1>8 DEF Parted
        <3> QED BY <3>1 DEF NotAfter
    <2>2. j = 0
        BY <2>1, <1>7, CountsNone, CountsNat
    <2>3. done.marker = m
        BY <2>2, <1>7, <1>8 DEF PullBase
    <2>4. Ended(m, w, at, here, u, v)
        <3> HIDE DEF w, here, u, v
        <3> QED BY <1>1, <1>2, <1>3, <1>8, EndAbove
    <2>5. LineOf(w, at) = new.marker
        <3> HIDE DEF w, here, u, v, new, done
        <3> DEFINE i == IF Pair(u, v) /\ m >= k THEN m - 1 ELSE m
        <3>1. Counts(NotAfter(LineBreaks(w), at), i)
            BY <2>4 DEF Ended
        <3>2. new.marker = i
            BY <2>3, <1>5
        <3> HIDE DEF i
        <3> QED BY <3>1, <3>2, LineOfIs
    <2> QED BY <2>5, <1>8 DEF MarkerGoesAlong
<1>9. CASE ~(at <= pos)
    <2> DEFINE x == IF at - len > pos THEN at - len ELSE pos
               marker == here - 1 + j
    <2>1. done.marker = marker
        BY <1>7, <1>9 DEF PullBase
    <2>2. x \in Int /\ at > pos
        BY <1>1, <1>2, <1>9
    <2>3. Ended(marker, w, x, here, u, v)
        <3> HIDE DEF w, here, u, v, x
        <3>1. x = IF at - len > pos THEN at - len ELSE pos
            BY DEF x
        <3> QED BY <2>2, <3>1, <1>1, <1>2, <1>3, <1>7, EndBelow
    <2>4. LineOf(w, x) = new.marker
        <3> HIDE DEF w, here, u, v, new, done, marker, x
        <3> DEFINE i == IF Pair(u, v) /\ marker >= k THEN marker - 1 ELSE marker
        <3>1. Counts(NotAfter(LineBreaks(w), x), i)
            BY <2>3 DEF Ended
        <3>2. new.marker = i
            BY <2>1, <1>5
        <3> HIDE DEF i
        <3> QED BY <3>1, <3>2, LineOfIs
    <2>5. Max({pos, at - len}) = x
        <3> DEFINE y == at - len
        <3>1. y \in Int /\ x \in {pos, y} /\ \A z \in {pos, y} : z <= x
            BY <1>1, <1>2
        <3> HIDE DEF y, x
        <3>2. Removing!Max({pos, y}) = x
            <4>1. {pos, y} \subseteq Int
                BY <3>1, <1>1
            <4> QED BY <3>1, <4>1, Removing!MaxIs
        <3>3. Max({pos, y}) = x
            BY <3>2 DEF Removing!Max, Max
        <3> QED BY <3>3 DEF y
    <2> HIDE DEF x
    <2> QED BY <2>4, <2>5, <1>9 DEF MarkerGoesAlong
<1> QED BY <1>8, <1>9

\* In every reachable state a marker will stay with the text its line began with,
\* whatever is inserted or deleted next, for texts of any length.
THEOREM MarkersAlwaysFollowText == Spec => []MarkerFollowsText
<1>1. LinesInv => MarkerFollowsText
    <2> SUFFICES ASSUME LinesInv PROVE MarkerFollowsText
        OBVIOUS
    <2> DEFINE m == lines.marker
               at == PositionFromPartition(lines.starts, m)
    <2>1. /\ use \in Uses /\ text \in Seq(Chars) /\ AreLines(lines)
          /\ IndexOf(lines.starts, LineBreaks(text), Len(text))
        BY DEF LinesInv
    <2>2. m # NoMarker => m \in Nat
        <3>1. Partitions(lines.starts) \in Nat
            BY <2>1, PlaceIsNumber DEF IndexOf
        <3> QED BY <2>1, <3>1 DEF AreLines, NoMarker
    <2>3. ASSUME m # NoMarker, NEW pos \in 0 .. Len(text), NEW s \in Strings[use]
          PROVE  BasicInsertString(lines, text, pos, s).marker =
                     LineOf(Inserted(text, pos, s), IF at >= pos THEN at + Len(s) ELSE at)
        <3>1. s \in Seq(Chars) /\ Len(s) > 0
            <4>1. s \in Seq(Chars) /\ s # <<>>
                BY <2>1, ViewAssumption DEF Chars
            <4>2. Len(s) \in Nat /\ Len(s) # 0
                BY <4>1, EmptySeq, LenProperties
            <4> QED BY <4>1, <4>2
        <3>2. m \in Nat /\ lines.marker = m /\ at = PositionFromPartition(lines.starts, m)
            BY <2>2, <2>3
        <3> HIDE DEF m, at
        <3> QED BY <3>1, <3>2, <2>1, InsertStringMovesMarker
    <2>4. ASSUME m # NoMarker, NEW pos \in 0 .. Len(text) - 1, NEW len \in 1 .. Len(text) - pos,
                 len < Len(text)
          PROVE  BasicDeleteChars(lines, text, pos, len).marker =
                     LineOf(Deleted(text, pos, len),
                            IF at <= pos THEN at ELSE Max({pos, at - len}))
        <3>1. pos \in Nat /\ len \in Nat \ {0} /\ pos + len <= Len(text)
            <4>1. Len(text) \in Nat
                BY <2>1, LenProperties
            <4> QED BY <4>1
        <3>2. m \in Nat /\ lines.marker = m /\ at = PositionFromPartition(lines.starts, m)
            BY <2>2, <2>4
        <3> HIDE DEF m, at
        <3>3. MarkerGoesAlong(lines, text, pos, len, at)
            BY <3>1, <3>2, <2>1, <2>4, DeleteCharsMovesMarker
        <3> QED BY <3>3 DEF MarkerGoesAlong
    <2> HIDE DEF at
    <2> QED BY <2>3, <2>4 DEF MarkerFollowsText, at
<1> QED BY <1>1, LinesInit, LinesStep, PTL DEF Spec

(***************************************************************************)
(* The lines before and behind a change, and the marker among them.        *)
(***************************************************************************)

\* Every place where a line starts has a line.
LEMMA PlaceHasLine ==
    ASSUME NEW p, NEW S, NEW end, IndexOf(p, S, end), NEW e, e = 0 \/ e \in S
    PROVE  \E j \in 0 .. Partitions(p) - 1 : PositionFromPartition(p, j) = e
<1> DEFINE n == Partitions(p)
<1>1. n \in Nat \ {0} /\ PositionFromPartition(p, 0) = 0 /\ Lists(p, 1, n - 1, S)
    BY PlaceIsNumber DEF IndexOf
<1> HIDE DEF n
<1>2. 0 \in 0 .. n - 1 /\ \A j \in 1 .. n - 1 : j \in 0 .. n - 1
    BY <1>1
<1>3. \E j \in 0 .. n - 1 : PositionFromPartition(p, j) = e
    BY <1>1, <1>2 DEF Lists
<1> QED BY <1>3 DEF n

\* The lines before the one of a change are those that start before it.
LEMMA ChangeParts ==
    ASSUME NEW l, NEW C, NEW t \in Seq(C), IndexOf(l.starts, LineBreaks(t), Len(t)),
           NEW pos \in Nat, NEW m \in 0 .. Partitions(l.starts) - 1
    PROVE  m < LineOfChange(l, pos) <=> PositionFromPartition(l.starts, m) < pos
<1> DEFINE p == l.starts
           line == PartitionFromPosition(p, pos)
           at == PositionFromPartition(p, m)
           start == PositionFromPartition(p, line)
<1>1. LineFrom(p, t, m, at, pos, line)
    <2> HIDE DEF p, line
    <2>1. IndexOf(p, LineBreaks(t), Len(t)) /\ m \in 0 .. Partitions(p) - 1
          /\ line = PartitionFromPosition(p, pos)
        BY DEF p, line
    <2> QED BY <2>1, LineAtIs
<1>2. /\ line \in Nat /\ start <= pos /\ start \in Nat
      /\ at < pos <=> m <= line /\ (start = pos => m < line)
    BY <1>1 DEF LineFrom
<1>3. LineOfChange(l, pos) = IF pos > start THEN line + 1 ELSE line
    BY DEF LineOfChange, LineFromPosition
<1> HIDE DEF line, start, at, p
<1>4. m \in Int
    OBVIOUS
<1>5. CASE pos > start
    <2>1. start # pos
        BY <1>2, <1>5
    <2> QED BY <2>1, <1>2, <1>3, <1>4, <1>5 DEF at, p
<1>6. CASE ~(pos > start)
    <2>1. start = pos
        BY <1>2, <1>6
    <2>2. m < line <=> m <= line /\ m < line
        BY <1>2, <1>4
    <2> QED BY <2>1, <2>2, <1>2, <1>3, <1>6 DEF at, p
<1> QED BY <1>5, <1>6

\* Where it is, is seen from what is before the change.
LEMMA ChangeIs ==
    ASSUME NEW l, NEW C, NEW t \in Seq(C), IndexOf(l.starts, LineBreaks(t), Len(t)),
           NEW pos \in Nat
    PROVE  /\ pos = 0 => LineOfChange(l, pos) = 0
           /\ \A j : pos # 0 /\ Counts(NotAfter(LineBreaks(t), pos - 1), j) =>
                  LineOfChange(l, pos) = j + 1
<1> DEFINE p == l.starts
           n == Partitions(p)
           at == LineOfChange(l, pos)
<1>1. n \in Nat \ {0} /\ PositionFromPartition(p, 0) = 0
    BY PlaceIsNumber DEF IndexOf
<1>2. at \in 0 .. n
    BY ChangeIsInside
<1>3. \A m \in 0 .. n - 1 : m < at <=> PositionFromPartition(p, m) < pos
    BY ChangeParts
<1>4. ASSUME pos = 0 PROVE at = 0
    <2> HIDE DEF n, at, p
    <2>1. 0 \in 0 .. n - 1 /\ ~(0 < at)
        BY <1>1, <1>3, <1>4
    <2> QED BY <2>1, <1>2
<1>5. ASSUME NEW j, pos # 0, Counts(NotAfter(LineBreaks(t), pos - 1), j)
      PROVE  at = j + 1
    <2> DEFINE x == pos - 1
               line == PartitionFromPosition(p, x)
    <2>1. x \in Nat /\ x \in Int /\ x < pos /\ \A y \in Int : y > x => ~(y < pos)
        BY <1>5
    <2>2. IsLineAt(p, line, x)
        BY <2>1, LineFound
    <2>3. Counts(NotAfter(LineBreaks(t), x), line) /\ line \in Nat
        <3> HIDE DEF x, line
        <3> QED BY <2>1, <2>2, LineIsCount
    <2>4. j = line
        BY <2>3, <1>5, CountsNat
    <2>5. /\ line \in 0 .. n - 1 /\ \A i \in 0 .. line : PositionFromPartition(p, i) <= x
          /\ \A i \in line + 1 .. n - 1 : PositionFromPartition(p, i) > x
          /\ \A i \in 0 .. n : PositionFromPartition(p, i) \in Int
        BY <2>2, PlaceIsNumber DEF IsLineAt, IndexOf
    <2> HIDE DEF x, line, n, at, p
    <2>6. line < at
        <3>1. line \in 0 .. line /\ line \in 0 .. n
            BY <2>5, <1>1
        <3>2. PositionFromPartition(p, line) < pos
            BY <3>1, <2>1, <2>5
        <3> QED BY <3>2, <2>5, <1>3
    <2>7. ~(line + 1 < at)
        <3> SUFFICES ASSUME line + 1 < at PROVE FALSE
            OBVIOUS
        <3>1. line + 1 \in line + 1 .. n - 1 /\ line + 1 \in 0 .. n - 1 /\ line + 1 \in 0 .. n
            BY <2>5, <1>1, <1>2
        <3>2. PositionFromPartition(p, line + 1) < pos
            BY <3>1, <1>3
        <3> QED BY <3>1, <3>2, <2>1, <2>5
    <2> QED BY <2>4, <2>5, <2>6, <2>7, <1>2
<1> QED BY <1>4, <1>5 DEF at

\* Up to pos, w is t; l and r are the indexes of the two.
SameBefore(l, r, t, w, pos) ==
    /\ pos \in 0 .. Len(t) /\ pos \in 0 .. Len(w) /\ SubSeq(w, 1, pos) = SubSeq(t, 1, pos)
    /\ IndexOf(l.starts, LineBreaks(t), Len(t)) /\ IndexOf(r.starts, LineBreaks(w), Len(w))

\* So it is the same before and after the change.
LEMMA SameChange ==
    ASSUME NEW C, NEW t \in Seq(C), NEW w \in Seq(C), NEW pos, NEW l, NEW r,
           SameBefore(l, r, t, w, pos)
    PROVE  LineOfChange(l, pos) = LineOfChange(r, pos)
<1>0. /\ pos \in 0 .. Len(t) /\ pos \in 0 .. Len(w) /\ SubSeq(w, 1, pos) = SubSeq(t, 1, pos)
      /\ IndexOf(l.starts, LineBreaks(t), Len(t)) /\ IndexOf(r.starts, LineBreaks(w), Len(w))
    BY DEF SameBefore
<1>1. pos \in Nat
    BY <1>0, LenProperties
<1>2. CASE pos = 0
    BY <1>0, <1>1, <1>2, ChangeIs
<1>3. CASE pos # 0
    <2> DEFINE x == pos - 1
    <2>1. x \in Int /\ x < pos
        BY <1>1
    <2> HIDE DEF x
    <2>2. NotAfter(LineBreaks(w), x) = NotAfter(LineBreaks(t), x)
        BY <2>1, <1>0, BreaksBefore
    <2>3. IsFiniteSet(LineBreaks(t)) /\ NotAfter(LineBreaks(t), x) \subseteq LineBreaks(t)
        BY BreaksCount DEF NotAfter
    <2>4. PICK j \in Nat : Counts(NotAfter(LineBreaks(t), x), j)
        BY <2>3, FS_Subset, CountsIs
    <2>5. LineOfChange(l, pos) = j + 1
        BY <2>4, <1>0, <1>1, <1>3, ChangeIs DEF x
    <2>6. LineOfChange(r, pos) = j + 1
        BY <2>2, <2>4, <1>0, <1>1, <1>3, ChangeIs DEF x
    <2> QED BY <2>5, <2>6
<1> QED BY <1>2, <1>3

\* There is a line more than line ends.
LEMMA LinesCount ==
    ASSUME NEW p, NEW C, NEW t \in Seq(C), IndexOf(p, LineBreaks(t), Len(t))
    PROVE  Counts(LineBreaks(t), Partitions(p) - 1) /\ Partitions(p) \in Nat
<1> DEFINE S == LineBreaks(t)
           b == Partitions(p) - 1
           x == Len(t)
<1>1. b \in Nat /\ Partitions(p) \in Nat /\ Lists(p, 1, b, S) /\ x \in Int
    BY PlaceIsNumber, LenProperties DEF IndexOf
<1>2. S \subseteq Int /\ \A e \in S : e <= x
    <2>1. S \subseteq 1 .. x
        BY BreaksBounded
    <2> HIDE DEF S, x
    <2> QED BY <2>1, <1>1
<1> HIDE DEF S, b, x
<1>3. NotAfter(S, x) = S
    BY <1>2 DEF NotAfter
<1>4. ReachesTo(p, b, b, x)
    <2>1. b \in 0 .. b /\ \A j \in b + 1 .. b : FALSE
        BY <1>1
    <2>2. \A j \in 1 .. b : PositionFromPartition(p, j) <= x
        BY <1>1, <1>2 DEF Lists
    <2> QED BY <2>1, <2>2 DEF ReachesTo
<1>5. b \in Int
    BY <1>1
<1>6. Counts(NotAfter(S, x), b)
    BY <1>1, <1>2, <1>4, <1>5, ListsCount
<1> QED BY <1>1, <1>3, <1>6 DEF S, b

Behind(S, x) == {e \in S : e > x}

LEMMA BehindCount ==
    ASSUME NEW S, S \subseteq Int, NEW x \in Int, NEW n, Counts(S, n),
           NEW k, Counts(NotAfter(S, x), k)
    PROVE  Counts(Behind(S, x), n - k)
<1> DEFINE A == NotAfter(S, x)
           B == Behind(S, x)
<1>1. A \cap B = {} /\ S = A \cup B
    <2>1. \A e \in S : e > x <=> ~(e <= x)
        OBVIOUS
    <2> QED BY <2>1, Zenon DEF NotAfter, Behind
<1>2. B \subseteq S
    BY DEF Behind
<1> HIDE DEF A, B
<1>3. PICK i \in Nat : Counts(B, i)
    BY <1>2, CountsPart
<1>4. Counts(S, k + i)
    <2>1. Counts(A, k)
        BY DEF A
    <2>2. Counts(A \cup B, k + i)
        BY <2>1, <1>1, <1>3, CountsBoth
    <2> QED BY <2>2, <1>1
<1>5. n = k + i /\ k \in Nat
    BY <1>4, CountsNat
<1>6. n - k = i
    BY <1>5
<1> QED BY <1>3, <1>6 DEF B

\* Behind q, w is what t is behind k.
SameBehind(t, w, k, q) ==
    /\ k \in 0 .. Len(t) /\ q \in 0 .. Len(w)
    /\ SubSeq(w, q + 1, Len(w)) = SubSeq(t, k + 1, Len(t))

\* The lines behind a change go along with it.
LEMMA BreaksBehind ==
    ASSUME NEW C, NEW t \in Seq(C), NEW w \in Seq(C), NEW k, NEW q, SameBehind(t, w, k, q),
           NEW x \in Int, x >= k
    PROVE  Behind(LineBreaks(w), x + (q - k)) = Shifted(Behind(LineBreaks(t), x), q - k)
<1> DEFINE v == SubSeq(t, k + 1, Len(t))
           S == LineBreaks(t)
           R == LineBreaks(w)
           V == LineBreaks(v)
<1>0. /\ k \in 0 .. Len(t) /\ q \in 0 .. Len(w) /\ k \in Int /\ q \in Int
      /\ v = SubSeq(w, q + 1, Len(w))
    BY LenProperties DEF SameBehind
<1>1. {e \in S : e > k} = Shifted(V, k)
    <2>1. CutBreaks(t, k, SubSeq(t, 1, k), v)
        BY <1>0, BreaksCut, Zenon
    <2> QED BY <2>1 DEF CutBreaks
<1>2. {e \in R : e > q} = Shifted(V, q)
    <2>1. CutBreaks(w, q, SubSeq(w, 1, q), v)
        BY <1>0, BreaksCut, Zenon
    <2> QED BY <2>1 DEF CutBreaks
<1>3. S \subseteq Int /\ R \subseteq Int /\ V \subseteq Int
    <2>1. v \in Seq(C)
        BY <1>0, CutInTwo
    <2> HIDE DEF v
    <2> QED BY <2>1, BreaksCount
<1> HIDE DEF S, R, V
<1>4. ASSUME NEW e \in Behind(R, x + (q - k))
      PROVE  e \in Shifted(Behind(S, x), q - k)
    <2>1. e \in R /\ e \in Int /\ e > q /\ e > x + (q - k)
        BY <1>0, <1>3 DEF Behind
    <2>2. PICK f \in V : e = f + q
        BY <2>1, <1>2 DEF Shifted
    <2>3. f \in Int /\ f + k > x /\ e = (f + k) + (q - k)
        BY <2>1, <2>2, <1>0, <1>3
    <2>4. f + k \in S
        BY <2>2, <1>1 DEF Shifted
    <2> QED BY <2>3, <2>4 DEF Behind, Shifted
<1>5. ASSUME NEW e \in Shifted(Behind(S, x), q - k)
      PROVE  e \in Behind(R, x + (q - k))
    <2>1. PICK g \in S : g > x /\ e = g + (q - k)
        BY DEF Behind, Shifted
    <2>2. g \in Int /\ g > k
        BY <2>1, <1>0, <1>3
    <2>3. PICK f \in V : g = f + k
        BY <2>1, <2>2, <1>1 DEF Shifted
    <2>4. f \in Int /\ e = f + q /\ e > x + (q - k)
        BY <2>1, <2>2, <2>3, <1>0, <1>3
    <2>5. e \in R
        BY <2>3, <2>4, <1>2 DEF Shifted
    <2> QED BY <2>4, <2>5 DEF Behind
<1> QED BY <1>4, <1>5 DEF S, R

\* A line before the change keeps its number.
LEMMA MarkStays ==
    ASSUME NEW C, NEW t \in Seq(C), NEW w \in Seq(C), NEW pos, NEW l, NEW r,
           SameBefore(l, r, t, w, pos), NEW k \in 0 .. Partitions(l.starts) - 1,
           NEW at, at = PositionFromPartition(l.starts, k),
           at < pos
    PROVE  LineOf(w, at) = k /\ k < LineOfChange(r, pos)
<1>0. /\ pos \in 0 .. Len(t) /\ pos \in 0 .. Len(w) /\ SubSeq(w, 1, pos) = SubSeq(t, 1, pos)
      /\ IndexOf(l.starts, LineBreaks(t), Len(t)) /\ IndexOf(r.starts, LineBreaks(w), Len(w))
    BY DEF SameBefore
<1>1. at \in Int /\ Counts(NotAfter(LineBreaks(t), at), k)
    <2> DEFINE p == l.starts
    <2>1. IndexOf(p, LineBreaks(t), Len(t)) /\ k \in 0 .. Partitions(p) - 1
          /\ at = PositionFromPartition(p, k)
        BY <1>0
    <2> HIDE DEF p
    <2>2. at \in Nat /\ Counts(NotAfter(LineBreaks(t), at), k)
        BY <2>1, MarkedLine
    <2> QED BY <2>2
<1>2. Counts(NotAfter(LineBreaks(w), at), k)
    <2>1. NotAfter(LineBreaks(w), at) = NotAfter(LineBreaks(t), at)
        BY <1>0, <1>1, BreaksBefore
    <2> QED BY <2>1, <1>1
<1>3. LineOf(w, at) = k
    BY <1>2, LineOfIs
<1>4. k < LineOfChange(l, pos)
    <2>1. pos \in Nat
        BY <1>0, LenProperties
    <2> QED BY <2>1, <1>0, ChangeParts
<1>5. LineOfChange(l, pos) = LineOfChange(r, pos)
    BY SameChange
<1> QED BY <1>3, <1>4, <1>5

\* What is behind `at' in t is behind x in w, and some line starts between pos and x.
ReadsOn(t, w, pos, at, x) ==
    /\ at >= pos /\ x \in Int
    /\ \E d \in Int : Behind(LineBreaks(w), x) = Shifted(Behind(LineBreaks(t), at), d)
    /\ \E e \in Int : (e = 0 \/ e \in LineBreaks(w)) /\ pos <= e /\ e <= x

\* A line behind the change gets the number that the lines which come or go leave it.
LEMMA MarkGoes ==
    ASSUME NEW C, NEW t \in Seq(C), NEW w \in Seq(C), NEW pos, NEW l, NEW r,
           SameBefore(l, r, t, w, pos), NEW k \in 0 .. Partitions(l.starts) - 1,
           NEW at, at = PositionFromPartition(l.starts, k),
           NEW x, ReadsOn(t, w, pos, at, x)
    PROVE  /\ LineOf(w, x) = k + (Partitions(r.starts) - Partitions(l.starts))
           /\ LineOfChange(r, pos) <= LineOf(w, x) /\ LineOfChange(r, pos) <= k
<1>0. /\ pos \in 0 .. Len(t) /\ pos \in 0 .. Len(w) /\ SubSeq(w, 1, pos) = SubSeq(t, 1, pos)
      /\ IndexOf(l.starts, LineBreaks(t), Len(t)) /\ IndexOf(r.starts, LineBreaks(w), Len(w))
    BY DEF SameBefore
<1>1. at >= pos /\ x \in Int
    BY DEF ReadsOn
<1>2. PICK d \in Int : Behind(LineBreaks(w), x) = Shifted(Behind(LineBreaks(t), at), d)
    BY DEF ReadsOn
<1>3. PICK e \in Int : (e = 0 \/ e \in LineBreaks(w)) /\ pos <= e /\ e <= x
    BY DEF ReadsOn
<1> DEFINE p == l.starts
           q == r.starts
           n == Partitions(p)
           o == Partitions(q)
           S == LineBreaks(t)
           R == LineBreaks(w)
           place == LineOfChange(r, pos)
<1>4. pos \in Nat /\ S \subseteq Int /\ R \subseteq Int
    BY <1>0, LenProperties, BreaksCount
<1>5. at \in Int /\ Counts(NotAfter(S, at), k) /\ k \in Nat
    <2>1. IndexOf(p, LineBreaks(t), Len(t)) /\ k \in 0 .. Partitions(p) - 1
          /\ at = PositionFromPartition(p, k)
        BY <1>0
    <2> HIDE DEF p
    <2>2. at \in Nat /\ Counts(NotAfter(LineBreaks(t), at), k) /\ k \in Nat
        BY <2>1, MarkedLine
    <2> QED BY <2>2
<1>6. Counts(S, n - 1) /\ n \in Nat /\ Counts(R, o - 1) /\ o \in Nat
    <2>1. IndexOf(p, LineBreaks(t), Len(t)) /\ IndexOf(q, LineBreaks(w), Len(w))
        BY <1>0
    <2> HIDE DEF p, q
    <2> QED BY <2>1, LinesCount
<1>7. PICK m \in Nat : Counts(NotAfter(R, x), m)
    <2>1. NotAfter(R, x) \subseteq R
        BY DEF NotAfter
    <2> HIDE DEF R, o
    <2> QED BY <2>1, <1>6, CountsPart
<1>8. LineOf(w, x) = m
    BY <1>7, LineOfIs
<1>9. m = k + (o - n)
    <2> DEFINE i == n - 1
               j == o - 1
    <2>0. Counts(S, i) /\ Counts(R, j) /\ i \in Int /\ j \in Int /\ j - i = o - n
        BY <1>6
    <2> HIDE DEF i, j, n, o, S, R
    <2>1. Counts(Behind(S, at), i - k)
        BY <2>0, <1>4, <1>5, BehindCount
    <2>2. Counts(Behind(R, x), j - m)
        BY <2>0, <1>1, <1>4, <1>7, BehindCount
    <2> DEFINE h == i - k
    <2>3. Counts(Shifted(Behind(S, at), d), h)
        <3>1. Behind(S, at) \subseteq Int /\ Counts(Behind(S, at), h)
            BY <2>1, <1>4 DEF Behind
        <3> HIDE DEF h
        <3> QED BY <3>1, CountsMoved
    <2>4. Counts(Behind(R, x), h)
        BY <2>3, <1>2 DEF S, R
    <2>5. j - m = h
        BY <2>2, <2>4, CountsNat
    <2> QED BY <2>0, <2>5, <1>5, <1>6, <1>7
<1>10. place = LineOfChange(l, pos)
    BY SameChange
<1>11. place \in Int
    <2>1. place \in 0 .. o
        BY <1>0, <1>4, ChangeIsInside
    <2> HIDE DEF place, o
    <2> QED BY <2>1, <1>6
<1>12. place <= k
    <2>1. k < LineOfChange(l, pos) <=> at < pos
        BY <1>0, <1>4, ChangeParts
    <2> HIDE DEF place
    <2> QED BY <2>1, <1>1, <1>4, <1>5, <1>10, <1>11
<1>13. place <= m
    <2> DEFINE line == PartitionFromPosition(q, x)
    <2>0. x \in Nat
        BY <1>1, <1>3, <1>4
    <2>1. PICK j \in 0 .. o - 1 : PositionFromPartition(q, j) = e
        <3>1. IndexOf(q, R, Len(w)) /\ (e = 0 \/ e \in R)
            BY <1>0, <1>3
        <3> HIDE DEF q, R
        <3> QED BY <3>1, PlaceHasLine
    <2>2. IsLineAt(q, line, x)
        BY <2>0, <1>0, LineFound
    <2>3. line = m
        <3>1. IndexOf(q, LineBreaks(w), Len(w))
            BY <1>0
        <3> HIDE DEF q, line
        <3>2. Counts(NotAfter(LineBreaks(w), x), line)
            BY <2>2, <3>1, <1>1, LineIsCount
        <3> QED BY <3>2, <1>7, CountsNat
    <2>4. ~(j \in line + 1 .. o - 1)
        <3>1. ~(e > x)
            BY <1>1, <1>3
        <3> QED BY <3>1, <2>1, <2>2 DEF IsLineAt
    <2>5. j < place <=> e < pos
        BY <2>1, <1>0, <1>4, ChangeParts
    <2> HIDE DEF place, line, o
    <2> QED BY <2>1, <2>3, <2>4, <2>5, <1>3, <1>4, <1>6, <1>7, <1>11
<1> QED BY <1>8, <1>9, <1>12, <1>13

\* What is before a cut, and what is behind it.
LEMMA JoinParts ==
    ASSUME NEW C, NEW u \in Seq(C), NEW v \in Seq(C), NEW w, w = u \o v, NEW k, k = Len(u)
    PROVE  /\ SubSeq(w, 1, k) = u /\ SubSeq(w, k + 1, Len(w)) = v
           /\ w \in Seq(C) /\ Len(w) = k + Len(v)
<1> DEFINE n == Len(v)
<1>1. /\ w \in Seq(C) /\ Len(w) = k + n /\ k \in Nat /\ n \in Nat
      /\ \A i \in 1 .. k : w[i] = u[i]
      /\ \A i \in k + 1 .. k + n : w[i] = v[i - k]
    BY JoinIs, LenProperties
<1>2. /\ SubSeq(w, 1, k) \in Seq(C) /\ Len(SubSeq(w, 1, k)) = k
      /\ \A i \in 1 .. k : SubSeq(w, 1, k)[i] = w[i]
      /\ SubSeq(w, k + 1, Len(w)) \in Seq(C) /\ Len(SubSeq(w, k + 1, Len(w))) = Len(w) - k
      /\ \A i \in 1 .. Len(w) - k : SubSeq(w, k + 1, Len(w))[i] = w[k + i]
    <2>1. k \in 0 .. Len(w)
        BY <1>1
    <2>2. w \in Seq(C)
        BY <1>1
    <2> QED BY <2>1, <2>2, CutInTwo, ZenonT(60)
<1> DEFINE a == SubSeq(w, 1, k)
           b == SubSeq(w, k + 1, Len(w))
<1>3. a = u
    <2>1. Len(a) = Len(u) /\ \A i \in 1 .. Len(a) : a[i] = u[i]
        BY <1>1, <1>2
    <2>2. a \in Seq(C)
        BY <1>2
    <2> HIDE DEF a
    <2> QED BY <2>1, <2>2, SeqEqual
<1>4. b = v
    <2>1. Len(w) - k = n
        BY <1>1
    <2>2. \A i \in 1 .. n : k + i \in k + 1 .. k + n /\ (k + i) - k = i
        BY <1>1
    <2>3. b \in Seq(C) /\ Len(b) = n /\ \A i \in 1 .. n : b[i] = w[k + i]
        BY <1>2, <2>1
    <2> HIDE DEF b
    <2>4. \A i \in 1 .. Len(b) : b[i] = v[i]
        BY <2>2, <2>3, <1>1
    <2> QED BY <2>3, <2>4, SeqEqual
<1> QED BY <1>1, <1>3, <1>4

\* The marker of line k is before the change, or goes along with the lines behind it.
MarkFollows(l, r, pos, k) ==
    LET at == LineOfChange(r, pos)
        added == Partitions(r.starts) - Partitions(l.starts)
    IN  \/ r.marker = k /\ k < at
        \/ r.marker = k + added /\ at <= r.marker /\ at <= k

LEMMA InsertionMark ==
    ASSUME NEW C, NEW t \in Seq(C), NEW pos \in 0 .. Len(t), NEW s \in Seq(C), Len(s) > 0,
           NEW l, AreLines(l), IndexOf(l.starts, LineBreaks(t), Len(t)),
           NEW k \in Nat, l.marker = k
    PROVE  MarkFollows(l, BasicInsertString(l, t, pos, s), pos, k)
<1> DEFINE r == BasicInsertString(l, t, pos, s)
           w == Inserted(t, pos, s)
           n == Len(s)
           S == LineBreaks(t)
           R == LineBreaks(w)
           at == PositionFromPartition(l.starts, k)
<1>1. /\ n \in Nat /\ n > 0 /\ Len(t) \in Nat /\ pos \in Nat /\ pos <= Len(t)
      /\ k \in 0 .. Partitions(l.starts) - 1
    BY LenProperties DEF AreLines
<1>2. /\ w \in Seq(C) /\ Len(w) = Len(t) + n /\ SubSeq(w, 1, pos) = SubSeq(t, 1, pos)
      /\ SubSeq(w, pos + n + 1, Len(w)) = SubSeq(t, pos + 1, Len(t))
      /\ \A i \in 1 .. n : w[pos + i] = s[i]
    <2>1. w \in Seq(C) /\ IsInserted(w, t, pos, s)
        BY InsertedIs
    <2> HIDE DEF w
    <2> QED BY <2>1 DEF IsInserted
<1>3. pos \in 0 .. Len(w) /\ pos + n \in 0 .. Len(w)
    BY <1>1, <1>2
<1>4. r.marker = LineOf(w, IF at >= pos THEN at + n ELSE at)
    BY InsertStringMovesMarker
<1>5. IndexOf(r.starts, LineBreaks(w), Len(w))
    <2> DEFINE z == w
    <2>1. z = Inserted(t, pos, s)
        OBVIOUS
    <2> HIDE DEF z
    <2>2. LET m == BasicInsertString(l, t, pos, s) IN IndexOf(m.starts, LineBreaks(z), Len(z))
        BY <2>1, InsertStringKeepsIndex
    <2> QED BY <2>2 DEF z
<1>6. at \in Nat /\ (at = 0 \/ at \in S)
    <2> DEFINE p == l.starts
    <2>1. IndexOf(p, LineBreaks(t), Len(t)) /\ k \in 0 .. Partitions(p) - 1
          /\ at = PositionFromPartition(p, k)
        BY <1>1
    <2> HIDE DEF p, at
    <2> QED BY <2>1, MarkedLine
<1>7. at = PositionFromPartition(l.starts, k)
    OBVIOUS
<1>10. SameBefore(l, r, t, w, pos)
    BY <1>2, <1>3, <1>5 DEF SameBefore
<1> SUFFICES MarkFollows(l, r, pos, k)
    OBVIOUS
<1> HIDE DEF r, w, at
<1>8. CASE at < pos
    <2>1. ~(at >= pos)
        BY <1>1, <1>6, <1>8
    <2>2. r.marker = LineOf(w, at)
        BY <2>1, <1>4
    <2>3. LineOf(w, at) = k /\ k < LineOfChange(r, pos)
        BY <1>1, <1>2, <1>7, <1>8, <1>10, MarkStays
    <2> QED BY <2>2, <2>3 DEF MarkFollows
<1>9. CASE ~(at < pos)
    <2> DEFINE x == at + n
               q == pos + n
    <2>1. at >= pos /\ x \in Int /\ at \in Int /\ q - pos = n /\ n \in Int /\ pos \in Int
          /\ x >= q /\ q \in Int /\ x \in Nat
        BY <1>1, <1>6, <1>9
    <2>2. r.marker = LineOf(w, x)
        BY <2>1, <1>4
    <2>3. \A y \in Int : y >= pos => Behind(R, y + n) = Shifted(Behind(S, y), n)
        <3>1. SameBehind(t, w, pos, q)
            BY <1>2, <1>3 DEF SameBehind
        <3> HIDE DEF q, n
        <3> SUFFICES ASSUME NEW y \in Int, y >= pos
                     PROVE  Behind(R, y + (q - pos)) = Shifted(Behind(S, y), q - pos)
            BY <2>1
        <3> QED BY <3>1, <1>2, BreaksBehind
    <2>4. Behind(R, x) = Shifted(Behind(S, at), n)
        BY <2>1, <2>3
    <2>5. \E e \in Int : (e = 0 \/ e \in R) /\ pos <= e /\ e <= x
        <3>1. CASE at # pos
            <4>1. at \in S /\ at > pos /\ pos >= pos
                BY <2>1, <1>1, <1>6, <3>1
            <4>2. x \in Shifted(Behind(S, pos), n)
                BY <4>1 DEF Shifted, Behind
            <4>3. x \in R
                BY <4>2, <2>1, <2>3 DEF Behind
            <4> QED BY <4>3, <2>1, <1>1
        <3>2. CASE at = pos /\ pos = 0
            BY <3>2, <2>1
        <3>3. CASE at = pos /\ pos # 0
            <4>1. pos \in S /\ pos \in 1 .. Len(t) /\ (t[pos] = LF \/ t[pos] = CR)
                BY <1>6, <3>3, BreakIs
            <4>2. w[pos] = t[pos]
                <5>1. pos \in 1 .. pos /\ pos \in 0 .. Len(t)
                    BY <4>1, <1>1
                <5>2. SubSeq(t, 1, pos)[pos] = t[pos]
                    BY <5>1, CutInTwo
                <5>3. SubSeq(w, 1, pos)[pos] = w[pos]
                    BY <5>1, <1>2, <1>3, CutInTwo
                <5> QED BY <5>2, <5>3, <1>2
            <4>3. pos \in 1 .. Len(w) /\ pos + 1 \in 1 .. Len(w)
                BY <4>1, <1>1, <1>2
            <4>4. CASE pos \in R
                BY <4>4, <2>1, <1>1
            <4>5. CASE pos \notin R
                <5>1. ~(w[pos] = LF \/ (w[pos] = CR /\ CharAt(w, pos) # LF))
                    BY <4>3, <4>5, <1>2, BreakIs
                <5>2. CharAt(w, pos) = LF
                    BY <4>1, <4>2, <5>1
                <5>3. pos \in 0 .. Len(w) - 1
                    BY <4>3, <1>1
                <5>4. w[pos + 1] = LF
                    BY <5>2, <5>3, <2>1, <1>2, CharIs
                <5>5. pos + 1 \in R
                    BY <4>3, <5>4, <1>2, BreakIs
                <5>6. pos + 1 \in Int /\ pos <= pos + 1 /\ pos + 1 <= x
                    BY <2>1, <1>1, <3>3
                <5> QED BY <5>5, <5>6
            <4> QED BY <4>4, <4>5
        <3> QED BY <3>1, <3>2, <3>3
    <2>6. ReadsOn(t, w, pos, at, x)
        BY <2>1, <2>4, <2>5 DEF ReadsOn
    <2> HIDE DEF x, q, n
    <2>7. /\ LineOf(w, x) = k + (Partitions(r.starts) - Partitions(l.starts))
          /\ LineOfChange(r, pos) <= LineOf(w, x) /\ LineOfChange(r, pos) <= k
        BY <2>6, <1>1, <1>2, <1>7, <1>10, MarkGoes
    <2> QED BY <2>2, <2>7 DEF MarkFollows
<1> QED BY <1>8, <1>9

LEMMA DeletionMark ==
    ASSUME NEW C, NEW t \in Seq(C), NEW pos \in Nat, NEW len \in Nat \ {0}, pos + len <= Len(t),
           NEW l, AreLines(l), IndexOf(l.starts, LineBreaks(t), Len(t)),
           NEW k \in Nat, l.marker = k,
           PositionFromPartition(l.starts, k) \notin pos .. pos + len
    PROVE  MarkFollows(l, BasicDeleteChars(l, t, pos, len), pos, k)
<1> DEFINE r == BasicDeleteChars(l, t, pos, len)
           w == Deleted(t, pos, len)
           S == LineBreaks(t)
           R == LineBreaks(w)
           at == PositionFromPartition(l.starts, k)
           u == SubSeq(t, 1, pos)
           v == SubSeq(t, pos + len + 1, Len(t))
<1>1. /\ Len(t) \in Nat /\ pos \in 0 .. Len(t) /\ k \in 0 .. Partitions(l.starts) - 1
      /\ pos \in Int /\ len \in Int /\ len > 0
    BY LenProperties DEF AreLines
<1>2. at \in Nat /\ (at = 0 \/ at \in S)
    <2> DEFINE p == l.starts
    <2>1. IndexOf(p, LineBreaks(t), Len(t)) /\ k \in 0 .. Partitions(p) - 1
          /\ at = PositionFromPartition(p, k)
        BY <1>1
    <2> HIDE DEF p, at
    <2> QED BY <2>1, MarkedLine
<1>3. at < pos \/ at > pos + len
    BY <1>1, <1>2
<1>4. len < Len(t)
    <2>1. at <= Len(t)
        <3>1. S \subseteq 1 .. Len(t)
            BY BreaksBounded
        <3> HIDE DEF at, S
        <3> QED BY <3>1, <1>1, <1>2
    <2> HIDE DEF at
    <2> QED BY <2>1, <1>1, <1>2, <1>3
<1>5. IsDeleted(w, t, pos, len, u, v) /\ u \in Seq(C) /\ v \in Seq(C) /\ w \in Seq(C)
    BY DeletedIs, Zenon
<1>6. /\ SubSeq(w, 1, pos) = u /\ SubSeq(w, pos + 1, Len(w)) = v /\ Len(w) = pos + Len(v)
    <2>1. w = u \o v /\ pos = Len(u)
        BY <1>5 DEF IsDeleted
    <2>2. w \in Seq(C) /\ u \in Seq(C) /\ v \in Seq(C)
        BY <1>5
    <2> HIDE DEF w, u, v
    <2> QED BY <2>1, <2>2, JoinParts
<1>7. pos \in 0 .. Len(w)
    <2>1. Len(v) \in Nat
        BY <1>5, LenProperties
    <2> HIDE DEF w, v
    <2> QED BY <2>1, <1>1, <1>6
<1>8. IndexOf(r.starts, LineBreaks(w), Len(w))
    <2> DEFINE z == w
    <2>1. z = Deleted(t, pos, len)
        OBVIOUS
    <2> HIDE DEF z
    <2>2. LET m == BasicDeleteChars(l, t, pos, len) IN IndexOf(m.starts, LineBreaks(z), Len(z))
        BY <2>1, DeleteCharsKeepsIndex
    <2> QED BY <2>2 DEF z
<1>9. r.marker = LineOf(w, IF at <= pos THEN at ELSE Max({pos, at - len}))
    <2>1. MarkerGoesAlong(l, t, pos, len, at)
        BY <1>4, DeleteCharsMovesMarker
    <2> QED BY <2>1 DEF MarkerGoesAlong
<1>10. at = PositionFromPartition(l.starts, k)
    OBVIOUS
<1>13. SameBefore(l, r, t, w, pos) /\ w \in Seq(C)
    BY <1>1, <1>5, <1>6, <1>7, <1>8 DEF SameBefore
<1> SUFFICES MarkFollows(l, r, pos, k)
    OBVIOUS
<1> HIDE DEF r, w, at
<1>11. CASE at < pos
    <2>1. at <= pos
        BY <1>1, <1>2, <1>11
    <2>2. r.marker = LineOf(w, at)
        BY <2>1, <1>9
    <2>3. LineOf(w, at) = k /\ k < LineOfChange(r, pos)
        BY <1>1, <1>10, <1>11, <1>13, MarkStays
    <2> QED BY <2>2, <2>3 DEF MarkFollows
<1>12. CASE at > pos + len
    <2> DEFINE x == at - len
               o == pos + len
               d == pos - o
    <2>1. ~(at <= pos) /\ x \in Int /\ at \in Int /\ at >= pos /\ x > pos /\ d \in Int /\ d = -len
          /\ at + d = x /\ o \in 0 .. Len(t) /\ at >= o /\ at # 0 /\ at > o /\ o \in Int
          /\ x + len = at /\ (at - 1) + d = x - 1 /\ at - 1 >= o /\ at - 1 \in Int
        BY <1>1, <1>2, <1>12
    <2>2. Max({pos, x}) = x
        <3>1. {pos, x} \subseteq Int /\ x \in {pos, x} /\ \A z \in {pos, x} : z <= x
            BY <2>1, <1>1
        <3> HIDE DEF x
        <3>2. Removing!Max({pos, x}) = x
            BY <3>1, <2>1, Removing!MaxIs
        <3> QED BY <3>2 DEF Removing!Max, Max
    <2>3. r.marker = LineOf(w, x)
        BY <2>1, <2>2, <1>9
    <2>4. \A y \in Int : y >= o => Behind(R, y + d) = Shifted(Behind(S, y), d)
        <3>1. v = SubSeq(t, o + 1, Len(t))
            OBVIOUS
        <3> HIDE DEF o, v
        <3>2. SameBehind(t, w, o, pos)
            BY <3>1, <2>1, <1>6, <1>7 DEF SameBehind
        <3> SUFFICES ASSUME NEW y \in Int, y >= o
                     PROVE  Behind(R, y + (pos - o)) = Shifted(Behind(S, y), pos - o)
            OBVIOUS
        <3> QED BY <3>2, <1>13, BreaksBehind
    <2>5. Behind(R, x) = Shifted(Behind(S, at), d)
        <3> HIDE DEF x, d, o
        <3> QED BY <2>1, <2>4
    <2>6. x \in R
        <3>1. at \in S /\ at > at - 1
            BY <2>1, <1>2
        <3>2. Behind(R, (at - 1) + d) = Shifted(Behind(S, at - 1), d)
            <4> HIDE DEF d, o
            <4> QED BY <2>1, <2>4
        <3> HIDE DEF d, x
        <3>3. at + d \in Shifted(Behind(S, at - 1), d)
            BY <3>1 DEF Shifted, Behind
        <3> QED BY <3>2, <3>3, <2>1 DEF Behind
    <2>7. ReadsOn(t, w, pos, at, x)
        <3>1. pos <= x /\ x <= x
            BY <2>1, <1>1
        <3> HIDE DEF x, d
        <3> QED BY <3>1, <2>1, <2>5, <2>6 DEF ReadsOn
    <2> HIDE DEF x, o, d
    <2>8. /\ LineOf(w, x) = k + (Partitions(r.starts) - Partitions(l.starts))
          /\ LineOfChange(r, pos) <= LineOf(w, x) /\ LineOfChange(r, pos) <= k
        BY <2>7, <1>1, <1>10, <1>13, MarkGoes
    <2> QED BY <2>3, <2>8 DEF MarkFollows
<1> QED BY <1>3, <1>11, <1>12

(***************************************************************************)
(* Runs.  What the operations of RunStyles do to the starts of the runs    *)
(* and to their values, by the numbers of the runs.                        *)
(***************************************************************************)

IsRuns(r) ==
    /\ r = [starts |-> r.starts, styles |-> r.styles]
    /\ WellFormed(r.starts)
    /\ r.styles \in Seq(Int) /\ Len(r.styles) = Runs(r) + 1

LEMMA RunsAre ==
    ASSUME NEW r, IsRuns(r)
    PROVE  /\ Runs(r) \in Nat \ {0} /\ Len(r.styles) = Runs(r) + 1 /\ r.styles \in Seq(Int)
           /\ \A j \in 0 .. Runs(r) : RunStart(r, j) \in Int /\ StyleOf(r, j) \in Int
           /\ Bounds(r.starts) = 0 .. Runs(r) /\ Partitions(r.starts) = Runs(r)
           /\ Len(r.starts.body) = Runs(r) + 1
<1>1. /\ \A j \in 0 .. Partitions(r.starts) : PositionFromPartition(r.starts, j) \in Int
      /\ Partitions(r.starts) \in Nat \ {0} /\ Bounds(r.starts) = 0 .. Partitions(r.starts)
      /\ Partitions(r.starts) = Len(r.starts.body) - 1
    BY PlaceIsNumber DEF IsRuns
<1>2. Len(r.starts.body) \in Int
    BY Form DEF IsRuns
<1>3. \A j \in 0 .. Runs(r) : StyleOf(r, j) \in Int
    BY <1>1 DEF IsRuns, StyleOf, Runs
<1> QED BY <1>1, <1>2, <1>3 DEF IsRuns, Runs, RunStart

\* q is r with a run more, of number k.
RunCame(r, q, k, pos, y) ==
    /\ IsRuns(q) /\ Runs(q) = Runs(r) + 1
    /\ \A j \in 0 .. Runs(q) :
           /\ RunStart(q, j) = IF j < k THEN RunStart(r, j)
                               ELSE IF j = k THEN pos ELSE RunStart(r, j - 1)
           /\ StyleOf(q, j) = IF j < k THEN StyleOf(r, j)
                              ELSE IF j = k THEN y ELSE StyleOf(r, j - 1)

\* q is r without m runs, from number k.
RunsWent(r, q, k, m) ==
    /\ IsRuns(q) /\ Runs(q) = Runs(r) - m
    /\ \A j \in 0 .. Runs(q) :
           /\ RunStart(q, j) = IF j < k THEN RunStart(r, j) ELSE RunStart(r, j + m)
           /\ StyleOf(q, j) = IF j < k THEN StyleOf(r, j) ELSE StyleOf(r, j + m)

\* q is r with run k longer, or shorter.
RunGrew(r, q, k, d) ==
    /\ IsRuns(q) /\ Runs(q) = Runs(r)
    /\ \A j \in 0 .. Runs(q) :
           /\ RunStart(q, j) = RunStart(r, j) + (IF j > k THEN d ELSE 0)
           /\ StyleOf(q, j) = StyleOf(r, j)

\* q is r with another value of run k.
RunTook(r, q, k, y) ==
    /\ IsRuns(q) /\ Runs(q) = Runs(r)
    /\ \A j \in 0 .. Runs(q) :
           /\ RunStart(q, j) = RunStart(r, j)
           /\ StyleOf(q, j) = IF j = k THEN y ELSE StyleOf(r, j)

LEMMA RunComes ==
    ASSUME NEW r, IsRuns(r), NEW k \in 0 .. Runs(r), NEW pos \in Int, NEW y \in Int
    PROVE  RunCame(r, [starts |-> InsertPartition(r.starts, k, pos),
                       styles |-> InsertAt(r.styles, k + 1, y)], k, pos, y)
<1> DEFINE p == r.starts
           s == InsertPartition(p, k, pos)
           b == r.styles
           c == InsertAt(b, k + 1, y)
           q == [starts |-> s, styles |-> c]
           n == Runs(r)
<1>1. /\ n \in Nat \ {0} /\ Len(b) = n + 1 /\ b \in Seq(Int) /\ Partitions(p) = n
      /\ WellFormed(p) /\ Len(p.body) = n + 1 /\ k \in 0 .. n
    BY RunsAre DEF IsRuns
<1>2. LET t == InsertPartition(p, k, pos)
      IN  /\ WellFormed(t) /\ Len(t.body) = Len(p.body) + 1
          /\ \A j \in Bounds(t) :
                 PositionFromPartition(t, j) =
                     IF j < k THEN PositionFromPartition(p, j)
                     ELSE IF j = k THEN pos
                     ELSE PositionFromPartition(p, j - 1)
    <2> HIDE DEF p, n
    <2>1. k \in 0 .. Partitions(p) /\ WellFormed(p)
        BY <1>1
    <2> QED BY <2>1, InsertPartitionShifts
<1>3. HasInserted(c, b, k + 1, y)
    <2> HIDE DEF b, n
    <2>1. k + 1 \in 1 .. Len(b) + 1
        BY <1>1
    <2> QED BY <2>1, <1>1, InsertAtShifts DEF c
<1>4. WellFormed(s) /\ Partitions(s) = n + 1 /\ Bounds(s) = 0 .. n + 1
    <2>1. WellFormed(s) /\ Len(s.body) = n + 2
        BY <1>1, <1>2
    <2> HIDE DEF s, n
    <2>2. Partitions(s) = Len(s.body) - 1 /\ Bounds(s) = 0 .. Partitions(s)
        BY <2>1, PlaceIsNumber
    <2>3. n \in Nat
        BY <1>1
    <2>4. Partitions(s) = n + 1
        BY <2>1, <2>2, <2>3
    <2> QED BY <2>1, <2>2, <2>4
<1>5. c \in Seq(Int) /\ Len(c) = n + 2
    <2> HIDE DEF b, c, n
    <2> QED BY <1>1, <1>3 DEF HasInserted
<1>6. Runs(q) = n + 1 /\ IsRuns(q)
    <2>1. q.starts = s /\ q.styles = c /\ q = [starts |-> q.starts, styles |-> q.styles]
        OBVIOUS
    <2> HIDE DEF q, s, c, n
    <2> QED BY <2>1, <1>1, <1>4, <1>5 DEF IsRuns, Runs
<1>7. ASSUME NEW j \in 0 .. n + 1
      PROVE  /\ RunStart(q, j) = IF j < k THEN RunStart(r, j)
                                 ELSE IF j = k THEN pos ELSE RunStart(r, j - 1)
             /\ StyleOf(q, j) = IF j < k THEN StyleOf(r, j)
                                ELSE IF j = k THEN y ELSE StyleOf(r, j - 1)
    <2>1. RunStart(q, j) = PositionFromPartition(s, j) /\ StyleOf(q, j) = c[j + 1]
        BY DEF RunStart, StyleOf
    <2>2. PositionFromPartition(s, j) =
              IF j < k THEN PositionFromPartition(p, j)
              ELSE IF j = k THEN pos ELSE PositionFromPartition(p, j - 1)
        BY <1>2, <1>4
    <2>3. c[j + 1] = IF j + 1 < k + 1 THEN b[j + 1] ELSE IF j + 1 = k + 1 THEN y ELSE b[(j + 1) - 1]
        <3> HIDE DEF b, c, n
        <3>1. j + 1 \in 1 .. Len(b) + 1
            BY <1>1
        <3> QED BY <3>1, <1>3 DEF HasInserted
    <2>4. j \in Int /\ k \in Int /\ (j + 1) - 1 = (j - 1) + 1
        BY <1>1
    <2> HIDE DEF s, c, q, n
    <2> QED BY <2>1, <2>2, <2>3, <2>4 DEF RunStart, StyleOf
<1> HIDE DEF q, n
<1> QED BY <1>6, <1>7 DEF RunCame, q, n

LEMMA RunGoes ==
    ASSUME NEW r, IsRuns(r), Runs(r) > 1, NEW k \in 0 .. Runs(r) - 1
    PROVE  RunsWent(r, RemoveRun(r, k), k, 1)
<1> DEFINE p == r.starts
           s == RemovePartition(p, k)
           b == r.styles
           c == RemoveAt(b, k + 1)
           q == [starts |-> s, styles |-> c]
           n == Runs(r)
<1>1. /\ n \in Nat \ {0} /\ Len(b) = n + 1 /\ b \in Seq(Int) /\ Partitions(p) = n
      /\ WellFormed(p) /\ Len(p.body) = n + 1 /\ k \in 0 .. n - 1 /\ n > 1
    BY RunsAre DEF IsRuns
<1>2. LET t == RemovePartition(p, k)
      IN  /\ WellFormed(t) /\ Len(t.body) = Len(p.body) - 1
          /\ \A j \in Bounds(t) :
                 PositionFromPartition(t, j) =
                     IF j < k THEN PositionFromPartition(p, j)
                     ELSE PositionFromPartition(p, j + 1)
    <2> HIDE DEF p, n
    <2>1. k \in 0 .. Partitions(p) /\ Partitions(p) > 1
        BY <1>1
    <2> QED BY <2>1, <1>1, RemovePartitionShifts, ZenonT(60)
<1>3. /\ c \in Seq(Int) /\ Len(c) = Len(b) - 1
      /\ \A j \in 1 .. Len(b) - 1 : c[j] = IF j < k + 1 THEN b[j] ELSE b[j + 1]
    <2> DEFINE i == k + 1
    <2>1. i \in 1 .. Len(b)
        BY <1>1
    <2> HIDE DEF b, n, i
    <2>2. /\ RemoveAt(b, i) \in Seq(Int) /\ Len(RemoveAt(b, i)) = Len(b) - 1
          /\ \A j \in 1 .. Len(b) - 1 : RemoveAt(b, i)[j] = IF j < i THEN b[j] ELSE b[j + 1]
        BY <2>1, <1>1, RemoveAtShifts
    <2> QED BY <2>2 DEF i
<1>4. WellFormed(s) /\ Partitions(s) = n - 1 /\ Bounds(s) = 0 .. n - 1
    <2>1. WellFormed(s) /\ Len(s.body) = n
        BY <1>1, <1>2
    <2> HIDE DEF s, n
    <2> QED BY <2>1, <1>1, PlaceIsNumber
<1>5. Len(c) = n
    <2> HIDE DEF b, c, n
    <2> QED BY <1>1, <1>3
<1>6. Runs(q) = n - 1 /\ IsRuns(q)
    <2>1. q.starts = s /\ q.styles = c /\ q = [starts |-> q.starts, styles |-> q.styles]
        OBVIOUS
    <2> HIDE DEF q, s, c, n
    <2> QED BY <2>1, <1>1, <1>3, <1>4, <1>5 DEF IsRuns, Runs
<1>7. ASSUME NEW j \in 0 .. n - 1
      PROVE  /\ RunStart(q, j) = IF j < k THEN RunStart(r, j) ELSE RunStart(r, j + 1)
             /\ StyleOf(q, j) = IF j < k THEN StyleOf(r, j) ELSE StyleOf(r, j + 1)
    <2>1. RunStart(q, j) = PositionFromPartition(s, j) /\ StyleOf(q, j) = c[j + 1]
        BY DEF RunStart, StyleOf
    <2>2. PositionFromPartition(s, j) =
              IF j < k THEN PositionFromPartition(p, j) ELSE PositionFromPartition(p, j + 1)
        BY <1>2, <1>4
    <2>3. c[j + 1] = IF j + 1 < k + 1 THEN b[j + 1] ELSE b[(j + 1) + 1]
        <3> HIDE DEF b, c, n
        <3>1. j + 1 \in 1 .. Len(b) - 1
            BY <1>1
        <3> QED BY <3>1, <1>3
    <2>4. j \in Int /\ k \in Int
        BY <1>1
    <2> HIDE DEF s, c, q, n
    <2> QED BY <2>1, <2>2, <2>3, <2>4 DEF RunStart, StyleOf
<1>8. RemoveRun(r, k) = q
    BY DEF RemoveRun
<1> HIDE DEF q, n
<1> QED BY <1>6, <1>7, <1>8 DEF RunsWent, n

LEMMA RunGrows ==
    ASSUME NEW r, IsRuns(r), NEW k \in 0 .. Runs(r), NEW d \in Int
    PROVE  RunGrew(r, [r EXCEPT !.starts = InsertText(@, k, d)], k, d)
<1> DEFINE p == r.starts
           s == InsertText(p, k, d)
           q == [r EXCEPT !.starts = s]
           n == Runs(r)
<1>1. /\ n \in Nat \ {0} /\ Partitions(p) = n /\ Bounds(p) = 0 .. n
      /\ WellFormed(p) /\ Len(p.body) = n + 1 /\ k \in 0 .. n
    BY RunsAre DEF IsRuns
<1>2. LET t == InsertText(p, k, d)
      IN  /\ WellFormed(t) /\ Len(t.body) = Len(p.body)
          /\ \A j \in Bounds(p) :
                 PositionFromPartition(t, j) = PositionFromPartition(p, j) + (IF j > k THEN d ELSE 0)
    <2> HIDE DEF p, n
    <2>1. k \in 0 .. Partitions(p)
        BY <1>1
    <2> QED BY <2>1, <1>1, InsertTextMovesLater, ZenonT(60)
<1>3. WellFormed(s) /\ Partitions(s) = n
    <2>1. WellFormed(s) /\ Len(s.body) = n + 1
        BY <1>1, <1>2
    <2> HIDE DEF s, n
    <2> QED BY <2>1, <1>1, PlaceIsNumber
<1>4. /\ q.starts = s /\ q.styles = r.styles
      /\ q = [starts |-> q.starts, styles |-> q.styles]
    <2> HIDE DEF s
    <2> QED BY DEF IsRuns
<1>5. Runs(q) = n /\ IsRuns(q)
    <2> HIDE DEF q, s
    <2> QED BY <1>1, <1>3, <1>4 DEF IsRuns, Runs
<1>6. \A j \in 0 .. n : RunStart(q, j) = RunStart(r, j) + (IF j > k THEN d ELSE 0)
    <2>1. \A j \in 0 .. n :
              PositionFromPartition(s, j) = PositionFromPartition(p, j) + (IF j > k THEN d ELSE 0)
        BY <1>1, <1>2
    <2> HIDE DEF q, s, n
    <2> QED BY <2>1, <1>4 DEF RunStart
<1>7. \A j : StyleOf(q, j) = StyleOf(r, j)
    <2> HIDE DEF q
    <2> QED BY <1>4 DEF StyleOf
<1> HIDE DEF q, n
<1> QED BY <1>5, <1>6, <1>7 DEF RunGrew, q, n

LEMMA RunTakes ==
    ASSUME NEW r, IsRuns(r), NEW k \in 0 .. Runs(r), NEW y \in Int
    PROVE  RunTook(r, [r EXCEPT !.styles[k + 1] = y], k, y)
<1> DEFINE c == [r.styles EXCEPT ![k + 1] = y]
           q == [r EXCEPT !.styles = c]
           n == Runs(r)
<1>1. /\ n \in Nat \ {0} /\ Len(r.styles) = n + 1 /\ r.styles \in Seq(Int) /\ k \in 0 .. n
    BY RunsAre
<1>2. c \in Seq(Int) /\ Len(c) = n + 1
    BY <1>1
<1>3. \A j \in 0 .. n : c[j + 1] = IF j = k THEN y ELSE r.styles[j + 1]
    BY <1>1
<1>4. /\ q.starts = r.starts /\ q.styles = c
      /\ q = [starts |-> q.starts, styles |-> q.styles]
    <2> HIDE DEF c
    <2> QED BY DEF IsRuns
<1> HIDE DEF q, c
<1>5. Runs(q) = n /\ IsRuns(q)
    BY <1>2, <1>4 DEF IsRuns, Runs
<1> HIDE DEF n
<1>6. RunTook(r, q, k, y)
    BY <1>3, <1>4, <1>5 DEF RunTook, RunStart, StyleOf, n
<1> QED BY <1>6 DEF q, c

RunOp(c, acc, i) == RemoveRun(acc, c)

Unrunning == INSTANCE FoldProofs WITH Op <- RunOp

LEMMA RemoveRunsIsFold ==
    ASSUME NEW r, NEW k, NEW m
    PROVE  RemoveRuns(r, k, m) = Unrunning!Left(k, r, [i \in 1 .. m |-> i])
BY DEF RemoveRuns, Unrunning!Left, Unrunning!IterLeft, FoldLeft, MapThenFoldSet,
       RunOp, Unrunning!Max, Max

LEMMA OneRunLess ==
    ASSUME NEW r, NEW a, NEW b, NEW k \in Nat, NEW i \in Nat, Runs(r) \in Nat,
           RunsWent(r, a, k, i), RunsWent(a, b, k, 1)
    PROVE  RunsWent(r, b, k, i + 1)
<1>1. /\ Runs(b) = Runs(r) - (i + 1) /\ IsRuns(b) /\ Runs(a) = Runs(r) - i
      /\ Runs(a) = Runs(b) + 1 /\ Runs(b) \in Int
    BY DEF RunsWent
<1>2. ASSUME NEW j \in 0 .. Runs(b)
      PROVE  /\ RunStart(b, j) = IF j < k THEN RunStart(r, j) ELSE RunStart(r, j + (i + 1))
             /\ StyleOf(b, j) = IF j < k THEN StyleOf(r, j) ELSE StyleOf(r, j + (i + 1))
    <2>1. j \in 0 .. Runs(a) /\ j + 1 \in 0 .. Runs(a) /\ (j + 1) + i = j + (i + 1) /\ j \in Int
        BY <1>1
    <2>2. CASE j < k
        BY <2>1, <2>2 DEF RunsWent
    <2>3. CASE ~(j < k)
        <3>1. ~(j + 1 < k)
            BY <2>1, <2>3
        <3>2. RunStart(b, j) = RunStart(a, j + 1) /\ StyleOf(b, j) = StyleOf(a, j + 1)
            BY <2>3 DEF RunsWent
        <3>3. /\ RunStart(a, j + 1) = RunStart(r, (j + 1) + i)
              /\ StyleOf(a, j + 1) = StyleOf(r, (j + 1) + i)
            BY <2>1, <3>1 DEF RunsWent
        <3> QED BY <2>1, <2>3, <3>2, <3>3
    <2> QED BY <2>2, <2>3
<1> QED BY <1>1, <1>2 DEF RunsWent

LEMMA RunsGo ==
    ASSUME NEW r, IsRuns(r), NEW k \in Nat, NEW m \in Nat, m < Runs(r), k + m <= Runs(r)
    PROVE  RunsWent(r, RemoveRuns(r, k, m), k, m)
<1> DEFINE seq == [i \in 1 .. m |-> i]
           n == Runs(r)
<1>1. n \in Nat
    BY RunsAre
<1>2. PICK h : Unrunning!PassesLeft(h, k, r, seq, m)
    <2>1. DOMAIN seq = 1 .. m
        OBVIOUS
    <2> HIDE DEF seq
    <2> QED BY <2>1, Unrunning!FoldLeftPasses
<1> HIDE DEF n
<1> DEFINE T == {i \in 0 .. m : RunsWent(r, h[i], k, i)}
<1>3. 0 \in T
    <2>1. h[0] = r
        BY <1>2 DEF Unrunning!PassesLeft
    <2>2. \A j \in 0 .. n : j + 0 = j
        BY <1>1
    <2>3. n = n - 0
        BY <1>1
    <2>4. RunsWent(r, r, k, 0)
        BY <2>2, <2>3 DEF RunsWent, n
    <2> QED BY <2>1, <2>4
<1>4. ASSUME NEW i \in 0 .. m - 1, i \in T
      PROVE  i + 1 \in T
    <2>1. i + 1 \in 1 .. m /\ (i + 1) - 1 = i /\ i \in Nat /\ i + 1 \in 0 .. m
        OBVIOUS
    <2>2. h[i + 1] = RemoveRun(h[i], k)
        <3>1. h[i + 1] = RunOp(k, h[(i + 1) - 1], seq[i + 1])
            <4> DEFINE e == i + 1
            <4>1. e \in 1 .. m
                BY <2>1
            <4> HIDE DEF e, seq
            <4>2. h[e] = RunOp(k, h[e - 1], seq[e])
                BY <4>1, <1>2 DEF Unrunning!PassesLeft
            <4> QED BY <4>2 DEF e
        <3> QED BY <2>1, <3>1 DEF RunOp
    <2> DEFINE a == h[i]
    <2>3. RunsWent(r, a, k, i)
        BY <1>4
    <2> HIDE DEF a
    <2>4. IsRuns(a) /\ Runs(a) = n - i
        BY <2>3 DEF RunsWent, n
    <2>5. Runs(a) > 1 /\ k \in 0 .. Runs(a) - 1
        BY <1>1, <2>1, <2>4 DEF n
    <2>6. RunsWent(a, RemoveRun(a, k), k, 1)
        BY <2>4, <2>5, RunGoes
    <2>7. RunsWent(r, RemoveRun(a, k), k, i + 1)
        BY <2>1, <2>3, <2>6, <1>1, OneRunLess DEF n
    <2> QED BY <2>1, <2>2, <2>7 DEF a
<1>5. m \in T
    <2>1. 0 .. m \subseteq T
        <3> HIDE DEF T
        <3> QED BY <1>3, <1>4, Unrunning!UpTo
    <2> QED BY <2>1
<1>6. h[m] = Unrunning!Left(k, r, seq)
    BY <1>2 DEF Unrunning!PassesLeft
<1> QED BY <1>5, <1>6, RemoveRunsIsFold

(***************************************************************************)
(* The runs r hold the values v.  They are in order: only the last one may *)
(* be empty.  Neighbours differ, except at the places of E.                *)
(***************************************************************************)

InOrder(r) ==
    /\ RunStart(r, 0) = 0
    /\ \A i, j \in 0 .. Runs(r) - 1 : i < j => RunStart(r, i) < RunStart(r, j)

Shows(r, v) ==
    \A j \in 0 .. Runs(r) - 1 :
        \A x \in RunStart(r, j) .. RunStart(r, j + 1) - 1 : v[x + 1] = StyleOf(r, j)

Holds(r, v) ==
    /\ IsRuns(r) /\ InOrder(r)
    /\ RunStart(r, Runs(r)) = Len(v)
    /\ \A j \in 0 .. Runs(r) - 1 : RunStart(r, j) <= Len(v)
    /\ Shows(r, v)
    /\ StyleOf(r, Runs(r)) = 0

DifferBut(r, v, E) ==
    \A j \in 1 .. Runs(r) - 1 :
        \/ RunStart(r, j) \in E
        \/ RunStart(r, j) < Len(v) /\ StyleOf(r, j) # StyleOf(r, j - 1)

\* The runs are those of v, and no more than it takes.
AreRunsOf(r, v) == Holds(r, v) /\ DifferBut(r, v, {})

\* Run k is the one of pos; the last one when pos is the end.
IsRunAt(r, k, pos) ==
    /\ k \in 0 .. Runs(r) - 1
    /\ RunStart(r, k) <= pos
    /\ \A j \in k + 1 .. Runs(r) - 1 : pos < RunStart(r, j)

LEMMA RunFound ==
    ASSUME NEW r, NEW v, Holds(r, v), NEW pos \in Nat
    PROVE  /\ IsRunAt(r, PartitionFromPosition(r.starts, pos), pos)
           /\ RunFromPosition(r, pos) = PartitionFromPosition(r.starts, pos)
<1> DEFINE p == r.starts
           n == Runs(r)
           S == {RunStart(r, j) : j \in 1 .. n - 1}
           k == PartitionFromPosition(p, pos)
<1>1. /\ n \in Nat \ {0} /\ Partitions(p) = n /\ WellFormed(p)
      /\ \A j \in 0 .. n : RunStart(r, j) \in Int
      /\ \A j : RunStart(r, j) = PositionFromPartition(p, j)
      /\ RunStart(r, 0) = 0
      /\ \A i, j \in 0 .. n - 1 : i < j => RunStart(r, i) < RunStart(r, j)
    BY RunsAre DEF IsRuns, Holds, InOrder, RunStart
<1> HIDE DEF n, p
<1>2. IndexOf(p, S, RunStart(r, n))
    <2>1. \A j \in 1 .. n - 1 : j \in 0 .. n - 1
        BY <1>1
    <2>2. Lists(p, 1, n - 1, S)
        BY <1>1, <2>1 DEF Lists
    <2> HIDE DEF S
    <2> QED BY <1>1, <2>2 DEF IndexOf
<1>3. IsLineAt(p, k, pos)
    <2> HIDE DEF S, k
    <2> QED BY <1>2, LineFound DEF k
<1> HIDE DEF k, S
<1>4. IsRunAt(r, k, pos)
    <2>1. k \in 0 .. k /\ k \in 0 .. n - 1
        BY <1>1, <1>3 DEF IsLineAt
    <2>2. RunStart(r, k) <= pos
        BY <1>1, <1>3, <2>1 DEF IsLineAt
    <2>3. ASSUME NEW j \in k + 1 .. n - 1
          PROVE  pos < RunStart(r, j)
        <3>1. PositionFromPartition(p, j) > pos
            BY <1>1, <1>3 DEF IsLineAt
        <3>2. j \in 0 .. n
            BY <1>1, <2>1
        <3> QED BY <3>1, <3>2, <1>1
    <2> QED BY <2>1, <2>2, <2>3 DEF IsRunAt, n
<1>5. RunFromPosition(r, pos) = k
    <2> DEFINE M == {k} \cup {i \in 0 .. k : \A j \in i .. k : RunStart(r, j) = pos}
    <2>1. RunFromPosition(r, pos) = Min(M)
        BY DEF RunFromPosition, k, p
    <2>2. k \in 0 .. n - 1 /\ k \in Int
        BY <1>4, <1>1 DEF IsRunAt, n
    <2>3. ASSUME NEW i \in M
          PROVE  i = k
        <3>1. CASE i # k
            <4>1. i \in 0 .. k /\ i < k /\ i \in i .. k /\ k \in i .. k /\ i \in 0 .. n - 1
                BY <3>1, <2>2, <1>1
            <4>2. RunStart(r, i) = pos /\ RunStart(r, k) = pos
                BY <3>1, <4>1
            <4>3. RunStart(r, i) < RunStart(r, k)
                BY <4>1, <2>2, <1>1
            <4> QED BY <4>2, <4>3
        <3> QED BY <3>1
    <2>4. M \subseteq Int /\ k \in M /\ \A i \in M : k <= i
        BY <2>2, <2>3
    <2>5. Scanning!Min(M) = k
        <3> HIDE DEF M
        <3> QED BY <2>4, Scanning!MinIs
    <2> QED BY <2>1, <2>5 DEF Scanning!Min, Min
<1> QED BY <1>4, <1>5 DEF k, p

\* There is one run at a place.
LEMMA RunIsOne ==
    ASSUME NEW r, IsRuns(r), NEW pos \in Int, NEW k, NEW m, IsRunAt(r, k, pos), IsRunAt(r, m, pos)
    PROVE  k = m
<1>1. /\ Runs(r) \in Nat \ {0} /\ k \in 0 .. Runs(r) - 1 /\ m \in 0 .. Runs(r) - 1
      /\ RunStart(r, k) \in Int /\ RunStart(r, m) \in Int
    BY RunsAre DEF IsRunAt
<1>2. CASE k < m
    <2>1. m \in k + 1 .. Runs(r) - 1
        BY <1>1, <1>2
    <2>2. pos < RunStart(r, m) /\ RunStart(r, m) <= pos
        BY <2>1 DEF IsRunAt
    <2> QED BY <1>1, <2>2
<1>3. CASE m < k
    <2>1. k \in m + 1 .. Runs(r) - 1
        BY <1>1, <1>3
    <2>2. pos < RunStart(r, k) /\ RunStart(r, k) <= pos
        BY <2>1 DEF IsRunAt
    <2> QED BY <1>1, <2>2
<1> QED BY <1>1, <1>2, <1>3

\* The end of the run that has pos.
LEMMA RunEnds ==
    ASSUME NEW r, NEW v, Holds(r, v), NEW pos \in Nat, NEW k, IsRunAt(r, k, pos)
    PROVE  /\ pos < Len(v) => pos < RunStart(r, k + 1)
           /\ pos <= Len(v) => pos <= RunStart(r, k + 1)
           /\ RunStart(r, k + 1) <= Len(v) /\ k + 1 \in 1 .. Runs(r)
<1>1. /\ Runs(r) \in Nat \ {0} /\ k \in 0 .. Runs(r) - 1 /\ RunStart(r, k + 1) \in Int
      /\ RunStart(r, Runs(r)) = Len(v) /\ Len(v) \in Int
    BY RunsAre DEF IsRunAt, Holds
<1>2. CASE k + 1 = Runs(r)
    BY <1>1, <1>2
<1>3. CASE k + 1 # Runs(r)
    <2>1. k + 1 \in k + 1 .. Runs(r) - 1 /\ k + 1 \in 0 .. Runs(r) - 1
        BY <1>1, <1>3
    <2>2. pos < RunStart(r, k + 1) /\ RunStart(r, k + 1) <= Len(v)
        BY <2>1 DEF IsRunAt, Holds
    <2> QED BY <1>1, <2>1, <2>2
<1> QED BY <1>2, <1>3

\* RunStyles::ValueAt is the value of the run.
LEMMA ValueFound ==
    ASSUME NEW r, NEW v, Holds(r, v), NEW pos \in Nat, pos < Len(v)
    PROVE  ValueAt(r, pos) = v[pos + 1]
<1> DEFINE k == PartitionFromPosition(r.starts, pos)
<1>1. IsRunAt(r, k, pos)
    BY RunFound
<1> HIDE DEF k
<1>2. pos < RunStart(r, k + 1) /\ k \in 0 .. Runs(r) - 1 /\ RunStart(r, k) <= pos
    BY <1>1, RunEnds DEF IsRunAt
<1>3. RunStart(r, k) \in Int /\ RunStart(r, k + 1) \in Int
    <2>1. Runs(r) \in Nat \ {0} /\ \A j \in 0 .. Runs(r) : RunStart(r, j) \in Int
        BY RunsAre DEF Holds
    <2> QED BY <1>2, <2>1
<1>4. pos \in RunStart(r, k) .. RunStart(r, k + 1) - 1
    BY <1>2, <1>3
<1>5. v[pos + 1] = StyleOf(r, k)
    BY <1>2, <1>4 DEF Holds, Shows
<1> QED BY <1>5 DEF ValueAt, k

\* What the proofs need of runs that hold values.
LEMMA RunsInOrder ==
    ASSUME NEW r, NEW v, Holds(r, v)
    PROVE  /\ Runs(r) \in Nat \ {0} /\ Len(v) \in Int
           /\ \A j \in 0 .. Runs(r) : RunStart(r, j) \in Int /\ StyleOf(r, j) \in Int
           /\ \A i, j \in 0 .. Runs(r) - 1 : i <= j => RunStart(r, i) <= RunStart(r, j)
           /\ \A j \in 0 .. Runs(r) : 0 <= RunStart(r, j) /\ RunStart(r, j) <= Len(v)
           /\ \A j \in 0 .. Runs(r) - 1 : RunStart(r, j) <= RunStart(r, j + 1)
<1> DEFINE n == Runs(r)
<1>1. /\ n \in Nat \ {0}
      /\ \A j \in 0 .. n : RunStart(r, j) \in Int /\ StyleOf(r, j) \in Int
    BY RunsAre DEF Holds
<1>2. /\ RunStart(r, 0) = 0 /\ RunStart(r, n) = Len(v)
      /\ \A i, j \in 0 .. n - 1 : i < j => RunStart(r, i) < RunStart(r, j)
      /\ \A j \in 0 .. n - 1 : RunStart(r, j) <= Len(v)
    BY DEF Holds, InOrder
<1> HIDE DEF n
<1>3. ASSUME NEW i \in 0 .. n - 1, NEW j \in 0 .. n - 1, i <= j
      PROVE  RunStart(r, i) <= RunStart(r, j)
    <2>1. CASE i = j
        BY <2>1, <1>1
    <2>2. CASE i # j
        <3>1. RunStart(r, i) < RunStart(r, j) /\ i \in 0 .. n /\ j \in 0 .. n
            BY <2>2, <1>1, <1>2, <1>3
        <3> QED BY <3>1, <1>1
    <2> QED BY <2>1, <2>2
<1>4. ASSUME NEW j \in 0 .. n
      PROVE  0 <= RunStart(r, j) /\ RunStart(r, j) <= Len(v)
    <2>1. CASE j = n
        <3>1. 0 \in 0 .. n - 1 /\ n \in 0 .. n
            BY <1>1
        <3>2. RunStart(r, 0) <= Len(v)
            BY <3>1, <1>2
        <3> QED BY <2>1, <3>1, <3>2, <1>1, <1>2
    <2>2. CASE j # n
        <3>1. 0 \in 0 .. n - 1 /\ j \in 0 .. n - 1 /\ 0 <= j
            BY <1>1, <2>2
        <3>2. RunStart(r, 0) <= RunStart(r, j)
            BY <3>1, <1>3
        <3> QED BY <3>1, <3>2, <1>2
    <2> QED BY <2>1, <2>2
<1>5. ASSUME NEW j \in 0 .. n - 1
      PROVE  RunStart(r, j) <= RunStart(r, j + 1)
    <2>1. CASE j = n - 1
        <3>1. j + 1 = n
            BY <1>1, <2>1
        <3> QED BY <3>1, <1>2
    <2>2. CASE j # n - 1
        <3>1. j + 1 \in 0 .. n - 1 /\ j <= j + 1
            BY <1>1, <2>2
        <3> QED BY <3>1, <1>3
    <2> QED BY <2>1, <2>2
<1>6. Len(v) \in Int
    BY <1>1, <1>2
<1> QED BY <1>1, <1>3, <1>4, <1>5, <1>6 DEF n

(***************************************************************************)
(* SplitRun.  A run starts at pos, as number m of q.                       *)
(***************************************************************************)

SplitAt(r, q, m, pos) ==
    \/ q = r /\ IsRunAt(r, m, pos) /\ RunStart(r, m) = pos
    \/ /\ IsRunAt(r, m - 1, pos) /\ RunStart(r, m - 1) < pos
       /\ m \in 1 .. Runs(r)
       /\ RunCame(r, q, m, pos, StyleOf(r, m - 1))

LEMMA SplitIs ==
    ASSUME NEW r, NEW v, Holds(r, v), NEW pos \in Nat
    PROVE  SplitAt(r, SplitRun(r, pos), RunAfterSplit(r, pos), pos)
<1> DEFINE k == RunFromPosition(r, pos)
           q == SplitRun(r, pos)
<1>1. IsRunAt(r, k, pos) /\ PartitionFromPosition(r.starts, pos) = k
    BY RunFound
<1>2. /\ Runs(r) \in Nat \ {0} /\ k \in 0 .. Runs(r) - 1 /\ RunStart(r, k) \in Int
      /\ StyleOf(r, k) \in Int /\ RunStart(r, k) <= pos
    BY <1>1, RunsInOrder DEF IsRunAt
<1>3. CASE IsInsideRun(r, pos)
    <2>1. RunStart(r, k) < pos
        BY <1>3 DEF IsInsideRun
    <2> DEFINE m == k + 1
    <2>2. m \in 1 .. Runs(r) /\ m - 1 = k /\ m \in 0 .. Runs(r)
        BY <1>2
    <2>3. RunAfterSplit(r, pos) = m
        BY <1>2, <1>3 DEF RunAfterSplit
    <2>4. q = [starts |-> InsertPartition(r.starts, m, pos),
               styles |-> InsertAt(r.styles, m + 1, ValueAt(r, pos))]
        BY <1>3 DEF SplitRun
    <2>5. ValueAt(r, pos) = StyleOf(r, k)
        BY <1>1 DEF ValueAt
    <2> HIDE DEF m, q, k
    <2>6. IsRuns(r)
        BY DEF Holds
    <2>7. RunCame(r, q, m, pos, StyleOf(r, k))
        BY <1>2, <2>2, <2>4, <2>5, <2>6, RunComes
    <2>8. SplitAt(r, q, m, pos)
        BY <1>1, <2>1, <2>2, <2>7 DEF SplitAt
    <2> QED BY <2>3, <2>8 DEF q
<1>4. CASE ~IsInsideRun(r, pos)
    <2>1. RunStart(r, k) = pos
        BY <1>2, <1>4 DEF IsInsideRun
    <2>2. q = r /\ RunAfterSplit(r, pos) = k
        BY <1>2, <1>4 DEF SplitRun, RunAfterSplit
    <2> HIDE DEF q, k
    <2> QED BY <1>1, <2>1, <2>2 DEF SplitAt, q
<1> QED BY <1>3, <1>4

LEMMA SplitKeeps ==
    ASSUME NEW r, NEW v, Holds(r, v), NEW pos \in Nat, pos <= Len(v),
           NEW q, NEW m, SplitAt(r, q, m, pos)
    PROVE  Holds(q, v) /\ m \in 0 .. Runs(q) - 1 /\ RunStart(q, m) = pos
<1> DEFINE n == Runs(r)
<1>1. /\ n \in Nat \ {0} /\ Len(v) \in Int
      /\ \A j \in 0 .. n : RunStart(r, j) \in Int /\ StyleOf(r, j) \in Int
      /\ \A i, j \in 0 .. n - 1 : i <= j => RunStart(r, i) <= RunStart(r, j)
      /\ \A j \in 0 .. n : 0 <= RunStart(r, j) /\ RunStart(r, j) <= Len(v)
      /\ \A j \in 0 .. n - 1 : RunStart(r, j) <= RunStart(r, j + 1)
    BY RunsInOrder
<1>2. /\ RunStart(r, 0) = 0 /\ RunStart(r, n) = Len(v) /\ StyleOf(r, n) = 0
      /\ \A i, j \in 0 .. n - 1 : i < j => RunStart(r, i) < RunStart(r, j)
      /\ \A j \in 0 .. n - 1 :
             \A x \in RunStart(r, j) .. RunStart(r, j + 1) - 1 : v[x + 1] = StyleOf(r, j)
    BY DEF Holds, InOrder, Shows
<1>3. CASE q = r /\ IsRunAt(r, m, pos) /\ RunStart(r, m) = pos
    BY <1>3 DEF IsRunAt
<1>4. CASE ~(q = r /\ IsRunAt(r, m, pos) /\ RunStart(r, m) = pos)
    <2> DEFINE y == StyleOf(r, m - 1)
    <2>1. /\ IsRunAt(r, m - 1, pos) /\ RunStart(r, m - 1) < pos
          /\ m \in 1 .. n /\ RunCame(r, q, m, pos, y)
        BY <1>4 DEF SplitAt
    <2> HIDE DEF y
    <2>2. IsRuns(q) /\ Runs(q) = n + 1 /\ m \in Int /\ m - 1 \in 0 .. n - 1 /\ m \in 0 .. n
        BY <1>1, <2>1 DEF RunCame
    <2> HIDE DEF n
    <2>3. \A j \in 0 .. n + 1 :
              /\ j < m => RunStart(q, j) = RunStart(r, j) /\ StyleOf(q, j) = StyleOf(r, j)
              /\ j = m => RunStart(q, j) = pos /\ StyleOf(q, j) = y
              /\ j > m => RunStart(q, j) = RunStart(r, j - 1) /\ StyleOf(q, j) = StyleOf(r, j - 1)
        <3> SUFFICES ASSUME NEW j \in 0 .. n + 1
                     PROVE  /\ j < m => RunStart(q, j) = RunStart(r, j) /\ StyleOf(q, j) = StyleOf(r, j)
                            /\ j = m => RunStart(q, j) = pos /\ StyleOf(q, j) = y
                            /\ j > m => RunStart(q, j) = RunStart(r, j - 1) /\ StyleOf(q, j) = StyleOf(r, j - 1)
            OBVIOUS
        <3>1. j \in 0 .. Runs(q) /\ j \in Int
            BY <2>2, <1>1
        <3>2. /\ RunStart(q, j) = IF j < m THEN RunStart(r, j)
                                  ELSE IF j = m THEN pos ELSE RunStart(r, j - 1)
              /\ StyleOf(q, j) = IF j < m THEN StyleOf(r, j)
                                 ELSE IF j = m THEN y ELSE StyleOf(r, j - 1)
            BY <2>1, <3>1 DEF RunCame
        <3> QED BY <3>1, <3>2, <2>2
    <2>4. \A j \in m .. n - 1 : pos < RunStart(r, j)
        <3>1. (m - 1) + 1 = m
            BY <2>2
        <3> QED BY <2>1, <3>1 DEF IsRunAt, n
    <2>5. \A j \in 0 .. m - 1 : RunStart(r, j) < pos
        <3> SUFFICES ASSUME NEW j \in 0 .. m - 1
                     PROVE  RunStart(r, j) < pos
            OBVIOUS
        <3>1. j \in 0 .. n - 1 /\ j \in 0 .. n /\ j <= m - 1 /\ m - 1 \in 0 .. n
            BY <1>1, <2>2
        <3>2. RunStart(r, j) <= RunStart(r, m - 1)
            BY <3>1, <2>2, <1>1
        <3> QED BY <3>1, <3>2, <2>1, <1>1
    <2>6. InOrder(q)
        <3>1. RunStart(q, 0) = 0
            BY <1>1, <1>2, <2>1, <2>2, <2>3
        <3>2. ASSUME NEW i \in 0 .. n, NEW j \in 0 .. n, i < j
              PROVE  RunStart(q, i) < RunStart(q, j)
            <4>0. i \in 0 .. n + 1 /\ j \in 0 .. n + 1
                BY <1>1
            <4>1. CASE j < m
                <5>1. i < m /\ i \in 0 .. n - 1 /\ j \in 0 .. n - 1
                    BY <4>1, <3>2, <2>2, <1>1
                <5> QED BY <5>1, <4>0, <4>1, <2>3, <1>2, <3>2
            <4>2. CASE j = m
                <5>1. i < m /\ i \in 0 .. m - 1
                    BY <4>2, <3>2, <2>2, <1>1
                <5> QED BY <5>1, <4>0, <4>2, <2>3, <2>5
            <4>3. CASE j > m
                <5>1. RunStart(q, j) = RunStart(r, j - 1) /\ j - 1 \in m .. n - 1 /\ j - 1 \in 0 .. n - 1
                    BY <4>0, <4>3, <2>3, <2>2, <1>1
                <5>2. CASE i < m
                    <6>1. i \in 0 .. n - 1 /\ i < j - 1
                        BY <5>1, <5>2, <2>2, <1>1
                    <6> QED BY <6>1, <5>1, <5>2, <4>0, <2>3, <1>2
                <5>3. CASE i = m
                    <6>1. RunStart(q, i) = pos
                        BY <5>3, <4>0, <2>3
                    <6>2. pos < RunStart(r, j - 1)
                        BY <5>1, <2>4
                    <6> QED BY <6>1, <6>2, <5>1
                <5>4. CASE i > m
                    <6>1. RunStart(q, i) = RunStart(r, i - 1)
                        BY <5>4, <4>0, <2>3
                    <6>2. i - 1 \in 0 .. n - 1 /\ i - 1 < j - 1
                        BY <5>4, <3>2, <2>2, <1>1
                    <6>3. RunStart(r, i - 1) < RunStart(r, j - 1)
                        BY <6>2, <5>1, <1>2
                    <6> QED BY <6>1, <6>3, <5>1
                <5> QED BY <5>2, <5>3, <5>4, <2>2
            <4> QED BY <4>1, <4>2, <4>3, <2>2
        <3>3. Runs(q) - 1 = n
            BY <2>2, <1>1
        <3> QED BY <3>1, <3>2, <3>3 DEF InOrder
    <2>7. RunStart(q, Runs(q)) = Len(v) /\ StyleOf(q, Runs(q)) = 0
        <3>1. n + 1 \in 0 .. n + 1 /\ n + 1 > m /\ (n + 1) - 1 = n
            BY <2>2, <1>1
        <3> QED BY <3>1, <2>2, <2>3, <1>2
    <2>8. \A j \in 0 .. Runs(q) - 1 : RunStart(q, j) <= Len(v)
        <3> SUFFICES ASSUME NEW j \in 0 .. Runs(q) - 1
                     PROVE  RunStart(q, j) <= Len(v)
            OBVIOUS
        <3>1. j \in 0 .. n + 1 /\ j \in 0 .. n
            BY <2>2, <1>1
        <3>2. CASE j < m
            BY <3>1, <3>2, <2>3, <1>1
        <3>3. CASE j = m
            BY <3>1, <3>3, <2>3
        <3>4. CASE j > m
            <4>1. j - 1 \in 0 .. n
                BY <3>1, <3>4, <2>2, <1>1
            <4> QED BY <4>1, <3>1, <3>4, <2>3, <1>1
        <3> QED BY <3>2, <3>3, <3>4, <3>1, <2>2
    <2>9. Shows(q, v)
        <3> SUFFICES ASSUME NEW j \in 0 .. Runs(q) - 1,
                            NEW x \in RunStart(q, j) .. RunStart(q, j + 1) - 1
                     PROVE  v[x + 1] = StyleOf(q, j)
            BY DEF Shows
        <3>1. /\ j \in 0 .. n /\ j \in 0 .. n + 1 /\ j + 1 \in 0 .. n + 1 /\ (j + 1) - 1 = j
              /\ (j - 1) + 1 = j /\ (m - 1) + 1 = m
            BY <2>2, <1>1
        <3>2. CASE j < m - 1
            <4>1. j + 1 < m /\ j < m /\ j \in 0 .. n - 1
                BY <3>1, <3>2, <2>2, <1>1
            <4>2. x \in RunStart(r, j) .. RunStart(r, j + 1) - 1
                BY <4>1, <3>1, <2>3
            <4> QED BY <4>1, <4>2, <3>1, <2>3, <1>2
        <3>3. CASE j = m - 1
            <4>1. j < m /\ j + 1 = m /\ j \in 0 .. n - 1
                BY <3>1, <3>3, <2>2, <1>1
            <4>2. RunStart(q, j) = RunStart(r, j) /\ RunStart(q, j + 1) = pos
                BY <4>1, <3>1, <2>3
            <4>3. pos <= RunStart(r, j + 1)
                <5>1. CASE m = n
                    BY <5>1, <4>1, <1>2
                <5>2. CASE m # n
                    <6>1. m \in m .. n - 1 /\ m \in 0 .. n
                        BY <5>2, <2>2, <1>1
                    <6> QED BY <6>1, <4>1, <2>4, <1>1
                <5> QED BY <5>1, <5>2
            <4>4. x \in RunStart(r, j) .. RunStart(r, j + 1) - 1
                <5>1. RunStart(r, j) \in Int /\ RunStart(r, j + 1) \in Int
                    BY <4>1, <2>2, <1>1
                <5> QED BY <5>1, <4>2, <4>3
            <4> QED BY <4>1, <4>4, <3>1, <2>3, <1>2
        <3>4. CASE j = m
            <4>1. j - 1 \in 0 .. n - 1 /\ j + 1 > m /\ j \in 0 .. n
                BY <3>1, <3>4, <2>2, <1>1
            <4>2. RunStart(q, j) = pos /\ RunStart(q, j + 1) = RunStart(r, j)
                BY <4>1, <3>1, <3>4, <2>3
            <4>3. x \in RunStart(r, j - 1) .. RunStart(r, (j - 1) + 1) - 1
                <5>1. RunStart(r, j) \in Int /\ RunStart(r, j - 1) \in Int /\ RunStart(r, j - 1) < pos
                    BY <4>1, <3>4, <2>1, <2>2, <1>1
                <5> QED BY <5>1, <4>2, <3>1
            <4>4. v[x + 1] = StyleOf(r, j - 1)
                BY <4>1, <4>3, <1>2
            <4> QED BY <4>4, <3>1, <3>4, <2>3 DEF y
        <3>5. CASE j > m
            <4>1. j - 1 \in 0 .. n - 1 /\ j + 1 > m
                BY <3>1, <3>5, <2>2, <1>1
            <4>2. RunStart(q, j) = RunStart(r, j - 1) /\ RunStart(q, j + 1) = RunStart(r, (j - 1) + 1)
                BY <4>1, <3>1, <3>5, <2>3
            <4>3. v[x + 1] = StyleOf(r, j - 1)
                BY <4>1, <4>2, <1>2
            <4> QED BY <4>3, <3>1, <3>5, <2>3
        <3> QED BY <3>2, <3>3, <3>4, <3>5, <3>1, <2>2
    <2>10. m \in 0 .. Runs(q) - 1 /\ RunStart(q, m) = pos
        <3>1. m \in 0 .. n + 1
            BY <2>2, <1>1
        <3> QED BY <3>1, <2>2, <2>3, <1>1
    <2> QED BY <2>2, <2>6, <2>7, <2>8, <2>9, <2>10 DEF Holds
<1> QED BY <1>3, <1>4

LEMMA SplitDiffers ==
    ASSUME NEW r, NEW v, Holds(r, v), NEW pos \in Nat, NEW E, DifferBut(r, v, E),
           NEW q, NEW m, SplitAt(r, q, m, pos)
    PROVE  DifferBut(q, v, E \cup {pos})
<1> DEFINE n == Runs(r)
<1>1. /\ n \in Nat \ {0}
    BY RunsInOrder
<1>2. CASE q = r
    BY <1>2 DEF DifferBut
<1>3. CASE q # r
    <2>1. m \in 1 .. n /\ RunCame(r, q, m, pos, StyleOf(r, m - 1)) /\ m \in Int
        BY <1>3 DEF SplitAt
    <2> SUFFICES ASSUME NEW j \in 1 .. Runs(q) - 1
                 PROVE  \/ RunStart(q, j) \in E \cup {pos}
                        \/ RunStart(q, j) < Len(v) /\ StyleOf(q, j) # StyleOf(q, j - 1)
        BY DEF DifferBut
    <2>2. Runs(q) = n + 1
        BY <2>1 DEF RunCame
    <2>3. j \in 0 .. Runs(q) /\ j - 1 \in 0 .. Runs(q) /\ j \in Int /\ j \in 1 .. n
        BY <2>2, <1>1
    <2> HIDE DEF n
    <2>4. /\ RunStart(q, j) = IF j < m THEN RunStart(r, j)
                              ELSE IF j = m THEN pos ELSE RunStart(r, j - 1)
          /\ StyleOf(q, j) = IF j < m THEN StyleOf(r, j)
                             ELSE IF j = m THEN StyleOf(r, m - 1) ELSE StyleOf(r, j - 1)
        BY <2>1, <2>3 DEF RunCame
    <2>5. StyleOf(q, j - 1) = IF j - 1 < m THEN StyleOf(r, j - 1)
                              ELSE IF j - 1 = m THEN StyleOf(r, m - 1) ELSE StyleOf(r, (j - 1) - 1)
        BY <2>1, <2>3 DEF RunCame
    <2>6. CASE j < m
        <3>1. j \in 1 .. n - 1 /\ j - 1 < m
            BY <2>1, <2>3, <2>6, <1>1
        <3>2. \/ RunStart(r, j) \in E
              \/ RunStart(r, j) < Len(v) /\ StyleOf(r, j) # StyleOf(r, j - 1)
            BY <3>1 DEF DifferBut, n
        <3> QED BY <3>1, <3>2, <2>4, <2>5, <2>6
    <2>7. CASE j = m
        BY <2>7, <2>4, <2>3
    <2>8. CASE j > m
        <3>1. j - 1 \in 1 .. n - 1 /\ ~(j - 1 < m) /\ ~(j < m) /\ j # m
            BY <2>1, <2>3, <2>8, <1>1
        <3>2. \/ RunStart(r, j - 1) \in E
              \/ RunStart(r, j - 1) < Len(v) /\ StyleOf(r, j - 1) # StyleOf(r, (j - 1) - 1)
            BY <3>1 DEF DifferBut, n
        <3>3. StyleOf(q, j - 1) = StyleOf(r, (j - 1) - 1)
            <4>1. CASE j - 1 = m
                BY <4>1, <3>1, <2>5
            <4>2. CASE j - 1 # m
                BY <4>2, <3>1, <2>5
            <4> QED BY <4>1, <4>2
        <3> QED BY <3>1, <3>2, <3>3, <2>4
    <2> QED BY <2>6, <2>7, <2>8, <2>1, <2>3
<1> QED BY <1>2, <1>3

(***************************************************************************)
(* A run goes that is empty, or that has the value of the one before.      *)
(***************************************************************************)

LEMMA MergeKeeps ==
    ASSUME NEW r, NEW v, Holds(r, v), NEW k \in 1 .. Runs(r) - 1,
           StyleOf(r, k) = StyleOf(r, k - 1) \/ RunStart(r, k) = RunStart(r, k + 1),
           NEW q, RunsWent(r, q, k, 1)
    PROVE  Holds(q, v)
<1> DEFINE n == Runs(r)
<1>1. /\ n \in Nat \ {0} /\ Len(v) \in Int
      /\ \A j \in 0 .. n : RunStart(r, j) \in Int /\ StyleOf(r, j) \in Int
      /\ \A j \in 0 .. n : 0 <= RunStart(r, j) /\ RunStart(r, j) <= Len(v)
    BY RunsInOrder
<1>2. /\ RunStart(r, 0) = 0 /\ RunStart(r, n) = Len(v) /\ StyleOf(r, n) = 0
      /\ \A i, j \in 0 .. n - 1 : i < j => RunStart(r, i) < RunStart(r, j)
      /\ \A j \in 0 .. n - 1 :
             \A x \in RunStart(r, j) .. RunStart(r, j + 1) - 1 : v[x + 1] = StyleOf(r, j)
    BY DEF Holds, InOrder, Shows
<1>3. IsRuns(q) /\ Runs(q) = n - 1 /\ k \in 1 .. n - 1
    BY <1>1 DEF RunsWent
<1> HIDE DEF n
<1>4. \A j \in 0 .. n - 1 :
          /\ j < k => RunStart(q, j) = RunStart(r, j) /\ StyleOf(q, j) = StyleOf(r, j)
          /\ j >= k => RunStart(q, j) = RunStart(r, j + 1) /\ StyleOf(q, j) = StyleOf(r, j + 1)
    <2> SUFFICES ASSUME NEW j \in 0 .. n - 1
                 PROVE  /\ j < k => RunStart(q, j) = RunStart(r, j) /\ StyleOf(q, j) = StyleOf(r, j)
                        /\ j >= k => /\ RunStart(q, j) = RunStart(r, j + 1)
                                     /\ StyleOf(q, j) = StyleOf(r, j + 1)
        OBVIOUS
    <2>1. /\ RunStart(q, j) = IF j < k THEN RunStart(r, j) ELSE RunStart(r, j + 1)
          /\ StyleOf(q, j) = IF j < k THEN StyleOf(r, j) ELSE StyleOf(r, j + 1)
        BY <1>3 DEF RunsWent
    <2> QED BY <2>1, <1>1, <1>3
<1>5. InOrder(q)
    <2>1. RunStart(q, 0) = 0
        BY <1>1, <1>2, <1>3, <1>4
    <2>2. ASSUME NEW i \in 0 .. n - 2, NEW j \in 0 .. n - 2, i < j
          PROVE  RunStart(q, i) < RunStart(q, j)
        <3>1. /\ i \in 0 .. n - 1 /\ j \in 0 .. n - 1 /\ i + 1 \in 0 .. n - 1 /\ j + 1 \in 0 .. n - 1
              /\ i < j + 1 /\ i + 1 < j + 1
            BY <1>1, <2>2
        <3>2. CASE j < k
            <4>1. i < k
                BY <3>2, <2>2, <1>3
            <4> QED BY <4>1, <3>1, <3>2, <2>2, <1>4, <1>2
        <3>3. CASE i < k /\ j >= k
            BY <3>1, <3>3, <1>4, <1>2
        <3>4. CASE i >= k
            <4>1. j >= k
                BY <3>4, <2>2, <1>3
            <4> QED BY <4>1, <3>1, <3>4, <1>4, <1>2
        <3> QED BY <3>2, <3>3, <3>4, <1>3
    <2>3. Runs(q) - 1 = n - 2
        BY <1>1, <1>3
    <2> QED BY <2>1, <2>2, <2>3 DEF InOrder
<1>6. RunStart(q, Runs(q)) = Len(v) /\ StyleOf(q, Runs(q)) = 0
    <2>1. n - 1 \in 0 .. n - 1 /\ n - 1 >= k /\ (n - 1) + 1 = n
        BY <1>1, <1>3
    <2> QED BY <2>1, <1>2, <1>3, <1>4
<1>7. \A j \in 0 .. Runs(q) - 1 : RunStart(q, j) <= Len(v)
    <2> SUFFICES ASSUME NEW j \in 0 .. Runs(q) - 1
                 PROVE  RunStart(q, j) <= Len(v)
        OBVIOUS
    <2>1. j \in 0 .. n - 1 /\ j \in 0 .. n /\ j + 1 \in 0 .. n
        BY <1>1, <1>3
    <2>2. CASE j < k
        BY <2>1, <2>2, <1>1, <1>4
    <2>3. CASE j >= k
        BY <2>1, <2>3, <1>1, <1>4
    <2> QED BY <2>1, <2>2, <2>3, <1>3
<1>8. Shows(q, v)
    <2> SUFFICES ASSUME NEW j \in 0 .. Runs(q) - 1,
                        NEW x \in RunStart(q, j) .. RunStart(q, j + 1) - 1
                 PROVE  v[x + 1] = StyleOf(q, j)
        BY DEF Shows
    <2>1. /\ j \in 0 .. n - 2 /\ j \in 0 .. n - 1 /\ j + 1 \in 0 .. n - 1 /\ (k - 1) + 1 = k
        BY <1>1, <1>3
    <2>2. CASE j < k - 1
        <3>1. j < k /\ j + 1 < k
            BY <2>1, <2>2, <1>3
        <3> QED BY <3>1, <2>1, <1>2, <1>4
    <2>3. CASE j = k - 1
        <3>1. j < k /\ j + 1 = k /\ j + 1 >= k /\ k \in 0 .. n - 1 /\ k \in 0 .. n /\ k + 1 \in 0 .. n
            BY <2>1, <2>3, <1>1, <1>3
        <3>2. /\ RunStart(q, j) = RunStart(r, j) /\ RunStart(q, j + 1) = RunStart(r, k + 1)
              /\ StyleOf(q, j) = StyleOf(r, j)
            BY <3>1, <2>1, <1>4
        <3>3. /\ RunStart(r, j) \in Int /\ RunStart(r, k) \in Int /\ RunStart(r, k + 1) \in Int
            BY <2>1, <3>1, <1>1
        <3>4. CASE x < RunStart(r, k)
            <4>1. x \in RunStart(r, j) .. RunStart(r, j + 1) - 1
                BY <3>1, <3>2, <3>3, <3>4
            <4> QED BY <4>1, <2>1, <3>2, <1>2
        <3>5. CASE ~(x < RunStart(r, k))
            <4>1. x \in RunStart(r, k) .. RunStart(r, k + 1) - 1
                BY <3>2, <3>3, <3>5
            <4>2. RunStart(r, k) # RunStart(r, k + 1)
                BY <4>1, <3>3
            <4>3. v[x + 1] = StyleOf(r, k) /\ StyleOf(r, k) = StyleOf(r, k - 1)
                BY <4>1, <4>2, <3>1, <1>2
            <4> QED BY <4>3, <3>2, <2>3
        <3> QED BY <3>4, <3>5
    <2>4. CASE j >= k
        <3>1. j + 1 >= k /\ j + 1 \in 0 .. n - 1
            BY <2>1, <2>4, <1>3
        <3>2. /\ RunStart(q, j) = RunStart(r, j + 1) /\ RunStart(q, j + 1) = RunStart(r, (j + 1) + 1)
              /\ StyleOf(q, j) = StyleOf(r, j + 1)
            BY <3>1, <2>1, <2>4, <1>4
        <3>3. \A z \in RunStart(r, j + 1) .. RunStart(r, (j + 1) + 1) - 1 : v[z + 1] = StyleOf(r, j + 1)
            BY <3>1, <1>2
        <3> QED BY <3>2, <3>3
    <2> QED BY <2>1, <2>2, <2>3, <2>4, <1>3
<1> QED BY <1>3, <1>5, <1>6, <1>7, <1>8 DEF Holds

LEMMA MergeDiffers ==
    ASSUME NEW r, NEW v, Holds(r, v), NEW k \in 1 .. Runs(r) - 1,
           StyleOf(r, k) = StyleOf(r, k - 1) \/ RunStart(r, k) = RunStart(r, k + 1),
           NEW q, RunsWent(r, q, k, 1), NEW E, DifferBut(r, v, E)
    PROVE  DifferBut(q, v, E \ {RunStart(r, k)})
<1> DEFINE n == Runs(r)
<1>1. /\ n \in Nat \ {0} /\ Runs(q) = n - 1 /\ k \in 1 .. n - 1
      /\ \A j \in 0 .. n : RunStart(r, j) \in Int
      /\ \A i, j \in 0 .. n - 1 : i < j => RunStart(r, i) < RunStart(r, j)
    BY RunsInOrder DEF RunsWent, Holds, InOrder
<1> SUFFICES ASSUME NEW j \in 1 .. Runs(q) - 1
             PROVE  \/ RunStart(q, j) \in E \ {RunStart(r, k)}
                    \/ RunStart(q, j) < Len(v) /\ StyleOf(q, j) # StyleOf(q, j - 1)
    BY DEF DifferBut
<1>2. /\ j \in 0 .. Runs(q) /\ j - 1 \in 0 .. Runs(q) /\ j \in Int /\ j \in 1 .. n - 2
      /\ (j - 1) + 1 = j /\ (j + 1) - 1 = j /\ j \in 1 .. n - 1 /\ j + 1 \in 1 .. n - 1
    BY <1>1
<1>3. /\ RunStart(q, j) = IF j < k THEN RunStart(r, j) ELSE RunStart(r, j + 1)
      /\ StyleOf(q, j) = IF j < k THEN StyleOf(r, j) ELSE StyleOf(r, j + 1)
      /\ StyleOf(q, j - 1) = IF j - 1 < k THEN StyleOf(r, j - 1) ELSE StyleOf(r, (j - 1) + 1)
    BY <1>2 DEF RunsWent
<1> DEFINE i == IF j < k THEN j ELSE j + 1
<1>4. i \in 1 .. n - 1 /\ RunStart(q, j) = RunStart(r, i) /\ StyleOf(q, j) = StyleOf(r, i)
    BY <1>2, <1>3
<1>5. StyleOf(q, j - 1) = StyleOf(r, i - 1)
    <2>1. CASE j < k
        <3>1. j - 1 < k
            BY <2>1, <1>1, <1>2
        <3> QED BY <2>1, <3>1, <1>3
    <2>2. CASE j = k
        <3>1. j - 1 < k /\ ~(j < k) /\ k \in 0 .. n - 1 /\ k + 1 \in 0 .. n - 1 /\ k < k + 1
            BY <2>2, <1>1, <1>2
        <3>2. RunStart(r, k) < RunStart(r, k + 1) /\ RunStart(r, k) \in Int
            BY <3>1, <1>1
        <3>3. StyleOf(r, k) = StyleOf(r, k - 1)
            BY <3>2
        <3> QED BY <2>2, <3>1, <3>3, <1>2, <1>3
    <2>3. CASE j > k
        <3>1. ~(j - 1 < k) /\ ~(j < k)
            BY <2>3, <1>1, <1>2
        <3> QED BY <3>1, <1>2, <1>3
    <2> QED BY <2>1, <2>2, <2>3, <1>1, <1>2
<1>6. RunStart(r, i) # RunStart(r, k)
    <2>1. i \in 0 .. n - 1 /\ k \in 0 .. n - 1 /\ i # k /\ i \in 0 .. n /\ k \in 0 .. n
        BY <1>1, <1>2
    <2> HIDE DEF i
    <2>2. CASE i < k
        <3>1. RunStart(r, i) < RunStart(r, k) /\ RunStart(r, i) \in Int
            BY <2>1, <2>2, <1>1
        <3> QED BY <3>1
    <2>3. CASE k < i
        <3>1. RunStart(r, k) < RunStart(r, i) /\ RunStart(r, i) \in Int
            BY <2>1, <2>3, <1>1
        <3> QED BY <3>1
    <2> QED BY <2>1, <2>2, <2>3
<1> HIDE DEF i
<1>7. \/ RunStart(r, i) \in E
      \/ RunStart(r, i) < Len(v) /\ StyleOf(r, i) # StyleOf(r, i - 1)
    BY <1>4 DEF DifferBut
<1> QED BY <1>4, <1>5, <1>6, <1>7

\* Starts before run k are as they were.
Before(r, q, k) ==
    /\ k <= Runs(q)
    /\ \A j \in 0 .. k - 1 : RunStart(q, j) = RunStart(r, j)

Merged(r, q, v, E, k) ==
    /\ Holds(q, v) /\ Before(r, q, k)
    /\ DifferBut(q, v, E \ ({RunStart(r, k)} \ {Len(v)}))

LEMMA SameGoes ==
    ASSUME NEW r, NEW v, Holds(r, v), NEW k \in 0 .. Runs(r), NEW E, DifferBut(r, v, E)
    PROVE  Merged(r, RemoveRunIfSameAsPrevious(r, k), v, E, k)
<1> DEFINE n == Runs(r)
           q == RemoveRunIfSameAsPrevious(r, k)
           F == E \ ({RunStart(r, k)} \ {Len(v)})
<1>1. /\ n \in Nat \ {0} /\ Len(v) \in Int
      /\ \A j \in 0 .. n : RunStart(r, j) \in Int
      /\ \A i, j \in 0 .. n - 1 : i < j => RunStart(r, i) < RunStart(r, j)
      /\ RunStart(r, n) = Len(v) /\ RunStart(r, 0) = 0 /\ IsRuns(r)
      /\ \A j \in 0 .. n - 1 : RunStart(r, j) <= Len(v)
    BY RunsInOrder DEF Holds, InOrder
<1>2. CASE k > 0 /\ k < n /\ StyleOf(r, k - 1) = StyleOf(r, k)
    <2>1. q = RemoveRun(r, k)
        BY <1>2 DEF RemoveRunIfSameAsPrevious
    <2>2. k \in 1 .. n - 1 /\ n > 1 /\ k \in 0 .. n - 1
        BY <1>1, <1>2
    <2> HIDE DEF q
    <2>3. RunsWent(r, q, k, 1)
        BY <1>1, <2>1, <2>2, RunGoes
    <2>4. Holds(q, v) /\ DifferBut(q, v, E \ {RunStart(r, k)})
        BY <1>2, <2>2, <2>3, MergeKeeps, MergeDiffers
    <2>5. DifferBut(q, v, F)
        BY <2>4 DEF DifferBut
    <2>6. Before(r, q, k)
        <3>1. Runs(q) = n - 1 /\ k <= n - 1
            BY <2>2, <2>3 DEF RunsWent
        <3>2. \A j \in 0 .. k - 1 : j \in 0 .. Runs(q) /\ j < k
            BY <1>1, <2>2, <3>1
        <3>3. \A j \in 0 .. k - 1 : RunStart(q, j) = RunStart(r, j)
            BY <3>2, <2>3 DEF RunsWent
        <3> QED BY <3>1, <3>3 DEF Before
    <2> QED BY <2>4, <2>5, <2>6 DEF Merged, q
<1>3. CASE ~(k > 0 /\ k < n /\ StyleOf(r, k - 1) = StyleOf(r, k))
    <2>1. q = r
        BY <1>3 DEF RemoveRunIfSameAsPrevious
    <2>2. ASSUME NEW j \in 1 .. n - 1
          PROVE  \/ RunStart(r, j) \in F
                 \/ RunStart(r, j) < Len(v) /\ StyleOf(r, j) # StyleOf(r, j - 1)
        <3>1. \/ RunStart(r, j) \in E
              \/ RunStart(r, j) < Len(v) /\ StyleOf(r, j) # StyleOf(r, j - 1)
            BY DEF DifferBut
        <3>2. CASE RunStart(r, j) = RunStart(r, k) /\ RunStart(r, k) # Len(v)
            <4>1. k # n /\ k \in 0 .. n - 1 /\ j \in 0 .. n - 1 /\ j \in 0 .. n /\ 0 < j /\ 0 \in 0 .. n - 1
                BY <3>2, <1>1
            <4>2. j = k
                <5>1. RunStart(r, j) \in Int /\ RunStart(r, k) \in Int
                    BY <4>1, <1>1
                <5>2. ~(j < k) /\ ~(k < j)
                    BY <4>1, <5>1, <3>2, <1>1
                <5> QED BY <5>2, <4>1
            <4>3. StyleOf(r, j) # StyleOf(r, j - 1)
                BY <4>1, <4>2, <1>3, <1>1
            <4>4. RunStart(r, j) < Len(v)
                BY <4>1, <4>2, <3>2, <1>1
            <4> QED BY <4>3, <4>4
        <3>3. CASE ~(RunStart(r, j) = RunStart(r, k) /\ RunStart(r, k) # Len(v))
            BY <3>1, <3>3
        <3> QED BY <3>2, <3>3
    <2>3. DifferBut(r, v, F)
        BY <2>2 DEF DifferBut
    <2>4. Before(r, r, k)
        BY <1>1 DEF Before
    <2> HIDE DEF q, F
    <2> QED BY <2>1, <2>3, <2>4 DEF Merged, q, F
<1> QED BY <1>2, <1>3

LEMMA EmptyGoes ==
    ASSUME NEW r, NEW v, Holds(r, v), NEW k \in 0 .. Runs(r), NEW E, DifferBut(r, v, E)
    PROVE  LET q == RemoveRunIfEmpty(r, k)
           IN  /\ Holds(q, v) /\ DifferBut(q, v, E)
               /\ k = Runs(r) - 1 => DifferBut(q, v, E \ {Len(v)})
<1> DEFINE n == Runs(r)
           q == RemoveRunIfEmpty(r, k)
<1>1. /\ n \in Nat \ {0} /\ Len(v) \in Int
      /\ \A j \in 0 .. n : RunStart(r, j) \in Int
      /\ \A i, j \in 0 .. n - 1 : i <= j => RunStart(r, i) <= RunStart(r, j)
      /\ \A i, j \in 0 .. n - 1 : i < j => RunStart(r, i) < RunStart(r, j)
      /\ RunStart(r, n) = Len(v) /\ IsRuns(r)
      /\ \A j \in 0 .. n - 1 : RunStart(r, j) <= Len(v)
    BY RunsInOrder DEF Holds, InOrder
<1>2. CASE k < n /\ n > 1 /\ RunStart(r, k) = RunStart(r, k + 1)
    <2>1. q = RemoveRun(r, k)
        BY <1>2 DEF RemoveRunIfEmpty
    <2>2. k = n - 1
        <3>1. CASE k + 1 < n
            <4>1. k \in 0 .. n - 1 /\ k + 1 \in 0 .. n - 1 /\ k < k + 1 /\ k \in 0 .. n
                BY <3>1, <1>1
            <4>2. RunStart(r, k) < RunStart(r, k + 1) /\ RunStart(r, k) \in Int
                BY <4>1, <1>1
            <4> QED BY <4>2, <1>2
        <3> QED BY <3>1, <1>1, <1>2
    <2>3. k \in 1 .. n - 1 /\ k \in 0 .. n - 1 /\ k + 1 = n
        BY <1>1, <1>2, <2>2
    <2> HIDE DEF q
    <2>4. RunsWent(r, q, k, 1)
        BY <1>1, <1>2, <2>1, <2>3, RunGoes
    <2>5. Holds(q, v) /\ DifferBut(q, v, E \ {RunStart(r, k)})
        BY <1>2, <2>3, <2>4, MergeKeeps, MergeDiffers
    <2>6. RunStart(r, k) = Len(v)
        BY <1>1, <1>2, <2>3
    <2>7. DifferBut(q, v, E)
        BY <2>5 DEF DifferBut
    <2> QED BY <2>5, <2>6, <2>7 DEF q
<1>3. CASE ~(k < n /\ n > 1 /\ RunStart(r, k) = RunStart(r, k + 1))
    <2>1. q = r
        BY <1>3 DEF RemoveRunIfEmpty
    <2>2. ASSUME k = n - 1, NEW j \in 1 .. n - 1
          PROVE  RunStart(r, j) # Len(v)
        <3>1. n > 1 /\ k < n /\ k + 1 = n /\ k \in 0 .. n - 1 /\ j \in 0 .. n - 1 /\ j <= k
            BY <1>1, <2>2
        <3>2. RunStart(r, k) # Len(v) /\ RunStart(r, k) <= Len(v) /\ RunStart(r, j) <= RunStart(r, k)
            BY <3>1, <1>3, <1>1
        <3>3. RunStart(r, j) \in Int /\ RunStart(r, k) \in Int
            BY <3>1, <1>1
        <3> QED BY <3>2, <3>3, <1>1
    <2>3. k = n - 1 => DifferBut(r, v, E \ {Len(v)})
        BY <2>2 DEF DifferBut
    <2> HIDE DEF q
    <2> QED BY <2>1, <2>3 DEF q
<1> QED BY <1>2, <1>3

=============================================================================
