----------------------------- MODULE FoldProofs -----------------------------
(***************************************************************************)
(* Lemmas that the proofs about several components need: induction over    *)
(* the numbers up to n, stated with a set in the place of a predicate; and *)
(* what a fold of SequencesExt goes through, for an operator Op that an    *)
(* INSTANCE of this module names.  The first argument of Op is what the    *)
(* operator takes from its surroundings.                                   *)
(***************************************************************************)
EXTENDS Integers, Sequences, WellFoundedInduction, TLAPS

CONSTANT Op(_, _, _)

\* As in FiniteSetsExt.  The other operators of FiniteSetsExt and those of
\* SequencesExt would come in with every INSTANCE of this module.
Max(S) == CHOOSE x \in S : \A y \in S : x >= y
Min(S) == CHOOSE x \in S : \A y \in S : x =< y

(***************************************************************************)
(* Induction.                                                              *)
(***************************************************************************)

LEMMA LeastOf ==
    ASSUME NEW T, T \subseteq Nat, T # {}
    PROVE  \E m \in T : \A n \in T : m <= n
<1>1. \E m \in T : \A n \in T : <<n, m>> \notin OpToRel(<, Nat)
    BY NatLessThanWellFounded, WFMin
<1>2. \A m, n \in Nat : n < m => <<n, m>> \in OpToRel(<, Nat)
    BY DEF OpToRel
<1>3. PICK m \in T : \A n \in T : <<n, m>> \notin OpToRel(<, Nat)
    BY <1>1
<1>4. ASSUME NEW n \in T PROVE m <= n
    <2>1. m \in Nat /\ n \in Nat /\ ~(n < m)
        BY <1>2, <1>3
    <2> QED BY <2>1
<1> QED BY <1>4

LEMMA GreatestOf ==
    ASSUME NEW top \in Nat, NEW T, T \subseteq 0 .. top, T # {}
    PROVE  \E m \in T : \A n \in T : n <= m
<1> DEFINE Mirrored == {top - n : n \in T}
<1>1. Mirrored \subseteq Nat /\ Mirrored # {}
    <2>1. \A n \in T : n \in 0 .. top /\ top - n \in Nat
        OBVIOUS
    <2> QED BY <2>1
<1>2. PICK k \in Mirrored : \A j \in Mirrored : k <= j
    BY <1>1, LeastOf
<1>3. PICK m \in T : k = top - m
    OBVIOUS
<1>4. ASSUME NEW n \in T PROVE n <= m
    <2>1. top - n \in Mirrored
        OBVIOUS
    <2>2. top - m <= top - n
        BY <1>2, <1>3, <2>1
    <2>3. n \in Int /\ m \in Int
        OBVIOUS
    <2> QED BY <2>2, <2>3
<1> QED BY <1>4

\* Induction from 0 to n; T holds the numbers of which the claim is true.
LEMMA UpTo ==
    ASSUME NEW n \in Nat, NEW T, 0 \in T,
           \A i \in 0 .. n - 1 : i \in T => i + 1 \in T
    PROVE  0 .. n \subseteq T
<1> DEFINE Missing == (0 .. n) \ T
<1>1. SUFFICES ASSUME Missing # {} PROVE FALSE
    OBVIOUS
<1>2. Missing \subseteq Nat
    OBVIOUS
<1>3. PICK m \in Missing : \A k \in Missing : m <= k
    <2> HIDE DEF Missing
    <2> QED BY <1>1, <1>2, LeastOf
<1>4. m \in 1 .. n
    OBVIOUS
<1>5. m - 1 \in 0 .. n - 1 /\ m - 1 \in T
    <2>1. m - 1 \in 0 .. n - 1 /\ ~(m <= m - 1)
        BY <1>4
    <2> QED BY <1>3, <2>1
<1>6. (m - 1) + 1 = m
    BY <1>4
<1> QED BY <1>3, <1>5, <1>6

(***************************************************************************)
(* The greatest and the least of a range of numbers.                       *)
(***************************************************************************)

LEMMA MaxIs ==
    ASSUME NEW S, S \subseteq Int, NEW m \in S, \A k \in S : k <= m
    PROVE  Max(S) = m
<1>1. Max(S) \in S /\ \A k \in S : Max(S) >= k
    BY DEF Max
<1>2. Max(S) >= m /\ m >= Max(S) /\ m \in Int /\ Max(S) \in Int
    BY <1>1
<1> QED BY <1>2

LEMMA MinIs ==
    ASSUME NEW S, S \subseteq Int, NEW m \in S, \A k \in S : m <= k
    PROVE  Min(S) = m
<1>1. Min(S) \in S /\ \A k \in S : Min(S) <= k
    BY DEF Min
<1>2. Min(S) <= m /\ m <= Min(S) /\ m \in Int /\ Min(S) \in Int
    BY <1>1
<1> QED BY <1>2

(***************************************************************************)
(* Folds.  FoldLeft(op, base, seq) is iter[DOMAIN seq], where iter is a    *)
(* function on sets of indices that takes away the greatest; FoldRight     *)
(* takes away the least.                                                   *)
(***************************************************************************)

IterLeft(iter, c, base, seq, S) ==
    iter = [s \in SUBSET S |->
               IF s = {} THEN base ELSE Op(c, iter[s \ {Max(s)}], seq[Max(s)])]

\* FoldLeft(op, base, seq) for op(a, x) == Op(c, a, x), written without op.
Left(c, base, seq) ==
    (CHOOSE iter : IterLeft(iter, c, base, seq, DOMAIN seq))[DOMAIN seq]

LEMMA IterLeftExists ==
    ASSUME NEW c, NEW base, NEW seq, NEW n \in Nat
    PROVE  \E iter : IterLeft(iter, c, base, seq, 1 .. n)
<1> DEFINE T == {k \in 0 .. n : \E iter : IterLeft(iter, c, base, seq, 1 .. k)}
<1>1. 0 \in T
    <2>1. 1 .. 0 = {} /\ 0 \in 0 .. n
        OBVIOUS
    <2>2. IterLeft([s \in SUBSET (1 .. 0) |-> base], c, base, seq, 1 .. 0)
        BY <2>1 DEF IterLeft
    <2> QED BY <2>1, <2>2
<1>2. ASSUME NEW k \in 0 .. n - 1, k \in T PROVE k + 1 \in T
    <2>1. PICK f : IterLeft(f, c, base, seq, 1 .. k)
        BY <1>2
    <2> HIDE DEF T
    <2>2. /\ k + 1 \in 0 .. n /\ 1 .. k + 1 = (1 .. k) \cup {k + 1}
          /\ k + 1 \notin 1 .. k
        OBVIOUS
    <2> DEFINE g == [s \in SUBSET (1 .. k + 1) |->
                        IF k + 1 \in s THEN Op(c, f[s \ {k + 1}], seq[k + 1]) ELSE f[s]]
    <2>3. \A s \in SUBSET (1 .. k) : g[s] = f[s]
        <3>1. \A s \in SUBSET (1 .. k) : s \in SUBSET (1 .. k + 1) /\ k + 1 \notin s
            BY <2>2
        <3> QED BY <3>1
    <2>4. ASSUME NEW s \in SUBSET (1 .. k + 1)
          PROVE  g[s] = IF s = {} THEN base ELSE Op(c, g[s \ {Max(s)}], seq[Max(s)])
        <3>1. CASE k + 1 \in s
            <4>1. Max(s) = k + 1
                <5>1. s \subseteq Int /\ \A i \in s : i <= k + 1
                    OBVIOUS
                <5> QED BY <3>1, <5>1, MaxIs
            <4>2. s \ {k + 1} \in SUBSET (1 .. k)
                BY <2>2
            <4>3. g[s \ {k + 1}] = f[s \ {k + 1}]
                BY <2>3, <4>2
            <4>4. g[s] = Op(c, f[s \ {k + 1}], seq[k + 1])
                BY <3>1
            <4> HIDE DEF g
            <4> QED BY <3>1, <4>1, <4>3, <4>4
        <3>2. CASE k + 1 \notin s
            <4>1. s \in SUBSET (1 .. k) /\ s \ {Max(s)} \in SUBSET (1 .. k)
                BY <3>2, <2>2
            <4>2. f[s] = IF s = {} THEN base ELSE Op(c, f[s \ {Max(s)}], seq[Max(s)])
                BY <4>1, <2>1 DEF IterLeft
            <4> HIDE DEF g
            <4> QED BY <4>1, <4>2, <2>3
        <3> QED BY <3>1, <3>2
    <2>5. g = [s \in SUBSET (1 .. k + 1) |-> g[s]]
        OBVIOUS
    <2>6. IterLeft(g, c, base, seq, 1 .. k + 1)
        <3> HIDE DEF g
        <3>1. g = [s \in SUBSET (1 .. k + 1) |->
                      IF s = {} THEN base ELSE Op(c, g[s \ {Max(s)}], seq[Max(s)])]
            BY <2>4, <2>5, Zenon
        <3> QED BY <3>1 DEF IterLeft
    <2> QED BY <2>2, <2>6 DEF T
<1>3. 0 .. n \subseteq T
    <2> HIDE DEF T
    <2> QED BY <1>1, <1>2, UpTo
<1> QED BY <1>3

\* h[i] is what the fold has made of the first i elements.
PassesLeft(h, c, base, seq, n) ==
    /\ h = [i \in 0 .. n |-> h[i]]
    /\ h[0] = base
    /\ \A i \in 1 .. n : h[i] = Op(c, h[i - 1], seq[i])
    /\ h[n] = Left(c, base, seq)

LEMMA FoldLeftPasses ==
    ASSUME NEW c, NEW base, NEW seq, NEW n \in Nat, DOMAIN seq = 1 .. n
    PROVE  \E h : PassesLeft(h, c, base, seq, n)
<1> DEFINE iter == CHOOSE iter : IterLeft(iter, c, base, seq, 1 .. n)
           h == [i \in 0 .. n |-> iter[1 .. i]]
<1>1. IterLeft(iter, c, base, seq, 1 .. n)
    BY IterLeftExists
<1>2. Left(c, base, seq) = iter[1 .. n]
    BY DEF Left
<1> HIDE DEF iter
<1>3. h[n] = Left(c, base, seq)
    <2>1. n \in 0 .. n
        OBVIOUS
    <2> QED BY <1>2, <2>1
<1>4. h[0] = base
    <2>1. 1 .. 0 = {} /\ 1 .. 0 \in SUBSET (1 .. n) /\ 0 \in 0 .. n
        OBVIOUS
    <2> QED BY <1>1, <2>1 DEF IterLeft
<1>5. ASSUME NEW i \in 1 .. n PROVE h[i] = Op(c, h[i - 1], seq[i])
    <2>1. 1 .. i \in SUBSET (1 .. n) /\ 1 .. i # {} /\ (1 .. i) \ {i} = 1 .. i - 1
        <3>1. 1 .. i \subseteq 1 .. n /\ i \in 1 .. i
            OBVIOUS
        <3>2. \A k \in Int : k \in 1 .. i /\ k # i <=> k \in 1 .. i - 1
            OBVIOUS
        <3>3. (1 .. i) \ {i} = 1 .. i - 1
            BY <3>2
        <3> QED BY <3>1, <3>3
    <2>4. i \in 0 .. n /\ i - 1 \in 0 .. n
        OBVIOUS
    <2>2. Max(1 .. i) = i
        <3>1. 1 .. i \subseteq Int /\ i \in 1 .. i /\ \A k \in 1 .. i : k <= i
            OBVIOUS
        <3> QED BY <3>1, MaxIs
    <2>3. iter[1 .. i] = Op(c, iter[1 .. i - 1], seq[i])
        BY <1>1, <2>1, <2>2 DEF IterLeft
    <2> QED BY <2>3, <2>4
<1>6. h = [i \in 0 .. n |-> h[i]]
    OBVIOUS
<1> HIDE DEF h
<1> QED BY <1>3, <1>4, <1>5, <1>6 DEF PassesLeft

\* What each step keeps, the fold keeps.
LEMMA LeftStays ==
    ASSUME NEW c, NEW S, NEW base \in S, NEW seq, NEW n \in Nat, DOMAIN seq = 1 .. n,
           \A i \in 1 .. n, a \in S : Op(c, a, seq[i]) \in S
    PROVE  Left(c, base, seq) \in S
<1>1. PICK h : PassesLeft(h, c, base, seq, n)
    BY FoldLeftPasses
<1> DEFINE T == {i \in 0 .. n : h[i] \in S}
<1>2. 0 \in T
    BY <1>1 DEF PassesLeft
<1>3. ASSUME NEW i \in 0 .. n - 1, i \in T PROVE i + 1 \in T
    <2>1. i + 1 \in 1 .. n /\ (i + 1) - 1 = i /\ i + 1 \in 0 .. n
        OBVIOUS
    <2>2. h[i + 1] = Op(c, h[i], seq[i + 1])
        BY <1>1, <2>1 DEF PassesLeft
    <2> QED BY <1>3, <2>1, <2>2
<1>4. n \in T
    <2> HIDE DEF T
    <2>1. n \in 0 .. n
        OBVIOUS
    <2> QED BY <1>2, <1>3, <2>1, UpTo
<1> QED BY <1>1, <1>4 DEF PassesLeft

\* A fold over one element more is one step more, if the elements before do the same.
LEMMA LeftGrows ==
    ASSUME NEW c, NEW base, NEW seq, NEW more, NEW n \in Nat,
           DOMAIN seq = 1 .. n, DOMAIN more = 1 .. n + 1,
           \A i \in 1 .. n : \A a : Op(c, a, more[i]) = Op(c, a, seq[i])
    PROVE  Left(c, base, more) = Op(c, Left(c, base, seq), more[n + 1])
<1>1. PICK h : PassesLeft(h, c, base, seq, n)
    BY FoldLeftPasses
<1>2. n + 1 \in Nat
    OBVIOUS
<1>3. PICK g : PassesLeft(g, c, base, more, n + 1)
    BY <1>2, FoldLeftPasses
<1> DEFINE T == {i \in 0 .. n : g[i] = h[i]}
<1>4. 0 \in T
    BY <1>1, <1>3 DEF PassesLeft
<1>5. ASSUME NEW i \in 0 .. n - 1, i \in T PROVE i + 1 \in T
    <2>1. i + 1 \in 1 .. n /\ i + 1 \in 1 .. n + 1 /\ (i + 1) - 1 = i /\ i + 1 \in 0 .. n
        OBVIOUS
    <2>2. h[i + 1] = Op(c, h[i], seq[i + 1])
        BY <1>1, <2>1 DEF PassesLeft
    <2>3. g[i + 1] = Op(c, g[i], more[i + 1])
        BY <1>3, <2>1 DEF PassesLeft
    <2> QED BY <1>5, <2>1, <2>2, <2>3
<1>6. n \in T
    <2> HIDE DEF T
    <2>1. n \in 0 .. n
        OBVIOUS
    <2> QED BY <1>4, <1>5, <2>1, UpTo
<1>7. g[n + 1] = Op(c, g[n], more[n + 1])
    <2>1. n + 1 \in 1 .. n + 1 /\ (n + 1) - 1 = n
        OBVIOUS
    <2> QED BY <1>3, <2>1 DEF PassesLeft
<1> QED BY <1>1, <1>3, <1>6, <1>7 DEF PassesLeft

IterRight(iter, c, base, seq, S) ==
    iter = [s \in SUBSET S |->
               IF s = {} THEN base ELSE Op(c, iter[s \ {Min(s)}], seq[Min(s)])]

\* FoldRight(op, seq, base) for op(x, a) == Op(c, a, x), written without op.
Right(c, base, seq) ==
    (CHOOSE iter : IterRight(iter, c, base, seq, DOMAIN seq))[DOMAIN seq]

LEMMA IterRightExists ==
    ASSUME NEW c, NEW base, NEW seq, NEW n \in Nat
    PROVE  \E iter : IterRight(iter, c, base, seq, 1 .. n)
<1> DEFINE T == {k \in 0 .. n : \E iter : IterRight(iter, c, base, seq, n + 1 - k .. n)}
<1>1. 0 \in T
    <2>1. n + 1 - 0 .. n = {} /\ 0 \in 0 .. n
        OBVIOUS
    <2>2. IterRight([s \in SUBSET (n + 1 - 0 .. n) |-> base], c, base, seq, n + 1 - 0 .. n)
        BY <2>1 DEF IterRight
    <2> QED BY <2>1, <2>2
<1>2. ASSUME NEW k \in 0 .. n - 1, k \in T PROVE k + 1 \in T
    <2>0. PICK m \in Int : m = n - k
        OBVIOUS
    <2> DEFINE later == n + 1 - k .. n
    <2>1. PICK f : IterRight(f, c, base, seq, later)
        BY <1>2
    <2> HIDE DEF T
    <2>2. /\ k + 1 \in 0 .. n /\ n + 1 - (k + 1) .. n = later \cup {m}
          /\ m \notin later /\ \A i \in later : i \in Int /\ m <= i
        <3>1. k \in Int /\ n + 1 - (k + 1) = m /\ n + 1 - k = m + 1 /\ m <= n /\ k + 1 \in 0 .. n
            BY <2>0
        <3> QED BY <3>1
    <2> HIDE DEF later
    <2> DEFINE g == [s \in SUBSET (later \cup {m}) |->
                        IF m \in s THEN Op(c, f[s \ {m}], seq[m]) ELSE f[s]]
    <2>3. \A s \in SUBSET later : g[s] = f[s]
        <3>1. \A s \in SUBSET later : s \in SUBSET (later \cup {m}) /\ m \notin s
            BY <2>2
        <3> QED BY <3>1
    <2>4. ASSUME NEW s \in SUBSET (later \cup {m})
          PROVE  g[s] = IF s = {} THEN base ELSE Op(c, g[s \ {Min(s)}], seq[Min(s)])
        <3>1. CASE m \in s
            <4>1. Min(s) = m
                <5>1. s \subseteq Int /\ \A i \in s : m <= i
                    BY <2>2
                <5> QED BY <3>1, <5>1, MinIs
            <4>2. s \ {m} \in SUBSET later
                OBVIOUS
            <4>3. g[s \ {m}] = f[s \ {m}]
                BY <2>3, <4>2
            <4>4. g[s] = Op(c, f[s \ {m}], seq[m])
                BY <3>1
            <4> HIDE DEF g
            <4> QED BY <3>1, <4>1, <4>3, <4>4
        <3>2. CASE m \notin s
            <4>1. s \in SUBSET later /\ s \ {Min(s)} \in SUBSET later
                BY <3>2
            <4>2. f[s] = IF s = {} THEN base ELSE Op(c, f[s \ {Min(s)}], seq[Min(s)])
                BY <4>1, <2>1 DEF IterRight
            <4> HIDE DEF g
            <4> QED BY <4>1, <4>2, <2>3
        <3> QED BY <3>1, <3>2
    <2>5. g = [s \in SUBSET (later \cup {m}) |-> g[s]]
        OBVIOUS
    <2>6. IterRight(g, c, base, seq, later \cup {m})
        <3> HIDE DEF g
        <3>1. g = [s \in SUBSET (later \cup {m}) |->
                      IF s = {} THEN base ELSE Op(c, g[s \ {Min(s)}], seq[Min(s)])]
            BY <2>4, <2>5, Zenon
        <3> QED BY <3>1 DEF IterRight
    <2> QED BY <2>2, <2>6 DEF T
<1>3. 0 .. n \subseteq T
    <2> HIDE DEF T
    <2> QED BY <1>1, <1>2, UpTo
<1>4. n \in T
    <2> HIDE DEF T
    <2>1. n \in 0 .. n
        OBVIOUS
    <2> QED BY <1>3, <2>1
<1>5. n + 1 - n = 1
    OBVIOUS
<1> QED BY <1>4, <1>5

\* h[i] is what the fold has made of the elements after the i-th.
PassesRight(h, c, base, seq, n) ==
    /\ h = [i \in 0 .. n |-> h[i]]
    /\ h[n] = base
    /\ \A i \in 1 .. n : h[i - 1] = Op(c, h[i], seq[i])
    /\ h[0] = Right(c, base, seq)

LEMMA FoldRightPasses ==
    ASSUME NEW c, NEW base, NEW seq, NEW n \in Nat, DOMAIN seq = 1 .. n
    PROVE  \E h : PassesRight(h, c, base, seq, n)
<1> DEFINE iter == CHOOSE iter : IterRight(iter, c, base, seq, 1 .. n)
           h == [i \in 0 .. n |-> iter[i + 1 .. n]]
<1>1. IterRight(iter, c, base, seq, 1 .. n)
    BY IterRightExists
<1>2. Right(c, base, seq) = iter[1 .. n]
    BY DEF Right
<1> HIDE DEF iter
<1>3. h[0] = Right(c, base, seq)
    <2>1. 0 \in 0 .. n /\ 0 + 1 = 1
        OBVIOUS
    <2> QED BY <1>2, <2>1
<1>4. h[n] = base
    <2>1. n + 1 .. n = {} /\ n + 1 .. n \in SUBSET (1 .. n) /\ n \in 0 .. n
        OBVIOUS
    <2> QED BY <1>1, <2>1 DEF IterRight
<1>5. ASSUME NEW i \in 1 .. n PROVE h[i - 1] = Op(c, h[i], seq[i])
    <2>1. i .. n \in SUBSET (1 .. n) /\ i .. n # {} /\ (i .. n) \ {i} = i + 1 .. n
        <3>1. i .. n \subseteq 1 .. n /\ i \in i .. n
            OBVIOUS
        <3>2. \A k \in Int : k \in i .. n /\ k # i <=> k \in i + 1 .. n
            OBVIOUS
        <3>3. (i .. n) \ {i} = i + 1 .. n
            BY <3>2
        <3> QED BY <3>1, <3>3
    <2>2. Min(i .. n) = i
        <3>1. i .. n \subseteq Int /\ i \in i .. n /\ \A k \in i .. n : i <= k
            OBVIOUS
        <3> QED BY <3>1, MinIs
    <2>3. iter[i .. n] = Op(c, iter[i + 1 .. n], seq[i])
        BY <1>1, <2>1, <2>2 DEF IterRight
    <2>4. i \in 0 .. n /\ i - 1 \in 0 .. n /\ (i - 1) + 1 = i
        OBVIOUS
    <2> QED BY <2>3, <2>4
<1>6. h = [i \in 0 .. n |-> h[i]]
    OBVIOUS
<1> HIDE DEF h
<1> QED BY <1>3, <1>4, <1>5, <1>6 DEF PassesRight

=============================================================================
