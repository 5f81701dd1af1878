--------------------------- MODULE SequenceProofs ---------------------------
(***************************************************************************)
(* Facts about naturals and sequences that the proofs of several modules   *)
(* use.  The library's induction theorems take an operator, so induction   *)
(* is over a set here: the numbers for which a claim fails have a least.   *)
(***************************************************************************)
EXTENDS Integers, SequencesExt, FiniteSetTheorems, WellFoundedInduction, TLAPS

\* A set of naturals that is not empty has a least element: induction, for a
\* set that is given.
LEMMA LeastElement ==
    ASSUME NEW S \in SUBSET Nat, S # {}
    PROVE  \E x \in S : \A y \in S : x <= y
    <1>1. PICK x \in S : \A y \in S : ~(<<y, x>> \in OpToRel(<, Nat))
        BY NatLessThanWellFounded, WFMin
    <1>2. \A y \in S : ~(y < x)
        BY <1>1, Zenon DEF OpToRel
    <1>3. \A y \in S : x <= y
        BY <1>2
    <1> QED
        BY <1>3

\* Sequences one after the other, up to each of them.
IsFlattening(flat, seqs, T) ==
    /\ flat \in [0..Len(seqs) -> Seq(T)]
    /\ flat[0] = <<>> /\ flat[Len(seqs)] = FlattenSeq(seqs)
    /\ \A i \in 1..Len(seqs) : flat[i] = flat[i-1] \o seqs[i]

\* There is a sequence that is flat: the recursion has a solution.
LEMMA FlatteningExists ==
    ASSUME NEW T, NEW seqs \in Seq(Seq(T))
    PROVE  \E flat : IsFlattening(flat, seqs, T)
    <1> DEFINE N == Len(seqs)
               Item(f, i) == IF i = 1 THEN seqs[i] ELSE f[i-1] \o seqs[i]
               IsFlat(f, n) == f = [i \in 1..n |-> Item(f, i)]
               flat == CHOOSE f : IsFlat(f, N)
    <1>1. N \in Nat
        OBVIOUS
    <1>2. N = 0 => FlattenSeq(seqs) = <<>>
        BY DEF FlattenSeq
    <1>3. N # 0 => FlattenSeq(seqs) = flat[N]
        BY DEF FlattenSeq
    <1>4. \A f, g, i : i # 1 /\ f[i-1] = g[i-1] => Item(f, i) = Item(g, i)
        OBVIOUS
    <1>5. \A f, g : Item(f, 1) = Item(g, 1)
        OBVIOUS
    <1>6. \A f : \A i \in 1..N : i = 1 \/ f[i-1] \in Seq(T) => Item(f, i) \in Seq(T)
        <2>1. \A i \in 1..N : seqs[i] \in Seq(T)
            OBVIOUS
        <2> QED
            BY <2>1
    <1> HIDE DEF N, Item
    \* There is such a function: of the n without one the least is not the next
    \* of one that has one.
    <1>7. \E f : IsFlat(f, N)
        <2> DEFINE Missing == {n \in 0..N : ~ \E f : IsFlat(f, n)}
        <2>1. Missing \in SUBSET Nat
            BY <1>1
        <2>2. ASSUME NEW n \in 1..N, NEW f, IsFlat(f, n - 1)
              PROVE  \E g : IsFlat(g, n)
            <3> DEFINE g == [i \in 1..n |-> Item(f, i)]
            <3>1. \A i \in 1..n - 1 : g[i] = f[i]
                BY <2>2
            <3>2. ASSUME NEW i \in 1..n
                  PROVE  Item(g, i) = Item(f, i)
                <4>1. CASE i = 1
                    BY <1>5, <4>1
                <4>2. CASE i # 1
                    <5>1. i-1 \in 1..n - 1
                        BY <1>1, <4>2
                    <5> HIDE DEF g
                    <5>2. g[i-1] = f[i-1]
                        BY <3>1, <5>1
                    <5> QED
                        BY <1>4, <4>2, <5>2
                <4> QED
                    BY <4>1, <4>2
            <3>3. IsFlat(g, n)
                BY <3>2
            <3> QED
                BY <3>3
        <2>3. IsFlat([i \in 1..0 |-> 0], 0)
            OBVIOUS
        <2> HIDE DEF IsFlat
        <2>4. Missing = {}
            <3> SUFFICES ASSUME Missing # {} PROVE FALSE
                OBVIOUS
            <3>1. PICK n \in Missing : \A k \in Missing : n <= k
                <4> HIDE DEF Missing
                <4> QED
                    BY <2>1, LeastElement
            <3>2. n \in 1..N
                BY <1>1, <2>3, <3>1
            <3>3. n - 1 \in 0..N /\ n - 1 \notin Missing
                BY <1>1, <2>1, <3>1, <3>2
            <3>4. \E f : IsFlat(f, n - 1)
                BY <3>3
            <3> QED
                BY <2>2, <3>1, <3>2, <3>4
        <2>5. N \in 0..N
            BY <1>1
        <2>6. N \notin Missing
            BY <2>4
        <2> QED
            BY <2>5, <2>6
    <1>8. IsFlat(flat, N)
        <2> HIDE DEF IsFlat
        <2> QED
            BY <1>7
    <1> HIDE DEF flat
    \* And each of its values is a sequence: the first that is not would follow
    \* one that is.
    <1>9. \A i \in 1..N : flat[i] \in Seq(T)
        <2> DEFINE Wrong == {i \in 1..N : flat[i] \notin Seq(T)}
        <2> SUFFICES ASSUME Wrong # {} PROVE FALSE
            OBVIOUS
        <2>1. PICK i \in Wrong : \A k \in Wrong : i <= k
            <3>1. Wrong \in SUBSET Nat
                BY <1>1
            <3> HIDE DEF Wrong
            <3> QED
                BY <3>1, LeastElement
        <2>2. i = 1 \/ flat[i-1] \in Seq(T)
            BY <1>1, <2>1
        <2>3. flat[i] = Item(flat, i)
            BY <1>8, <2>1
        <2> QED
            BY <1>6, <2>1, <2>2, <2>3
    <1> DEFINE upTo == [i \in 0..N |-> IF i = 0 THEN <<>> ELSE flat[i]]
    <1>10. upTo \in [0..N -> Seq(T)]
        BY <1>1, <1>9
    <1>11. upTo[0] = <<>> /\ \A i \in 1..N : upTo[i] = flat[i]
        BY <1>1
    <1> HIDE DEF upTo
    <1>12. upTo[N] = FlattenSeq(seqs)
        BY <1>1, <1>2, <1>3, <1>11
    <1>13. ASSUME NEW i \in 1..N
           PROVE  upTo[i] = upTo[i-1] \o seqs[i]
        <2>1. flat[i] = Item(flat, i)
            BY <1>8
        <2>2. CASE i = 1
            <3>1. flat[i] = seqs[i] /\ seqs[i] \in Seq(T)
                BY <2>1, <2>2 DEF Item, N
            <3>2. <<>> \o seqs[i] = seqs[i]
                BY <3>1
            <3>3. i-1 = 0
                BY <2>2
            <3>4. upTo[i] = seqs[i] /\ upTo[i-1] = <<>>
                BY <1>11, <3>1, <3>3
            <3> QED
                BY <3>2, <3>4
        <2>3. CASE i # 1
            <3>1. flat[i] = flat[i-1] \o seqs[i]
                BY <2>1, <2>3 DEF Item
            <3>2. i-1 \in 1..N
                BY <1>1, <2>3
            <3> QED
                BY <1>11, <3>1, <3>2
        <2> QED
            BY <2>2, <2>3
    <1> QED
        BY <1>10, <1>11, <1>12, <1>13 DEF IsFlattening, N

\* What holds at first and of an index if of the one before it, holds of them all.
LEMMA Upwards ==
    ASSUME NEW N \in Nat, NEW P, 0 \in P, \A i \in 1..N : i-1 \in P => i \in P
    PROVE  \A i \in 0..N : i \in P
    <1> DEFINE Wrong == {i \in 0..N : i \notin P}
    <1> SUFFICES ASSUME Wrong # {} PROVE FALSE
        OBVIOUS
    <1>1. PICK i \in Wrong : \A k \in Wrong : i <= k
        <2>1. Wrong \in SUBSET Nat
            OBVIOUS
        <2> HIDE DEF Wrong
        <2> QED
            BY <2>1, LeastElement
    <1>2. i \in 1..N
        BY <1>1
    <1>3. i-1 \in 0..N /\ ~(i <= i-1)
        BY <1>2
    <1>4. i-1 \in P
        BY <1>1, <1>3
    <1> QED
        BY <1>1, <1>2, <1>4

\* Sequences one after the other are a sequence.
LEMMA FlatIsSequence ==
    ASSUME NEW T, NEW seqs \in Seq(Seq(T))
    PROVE  FlattenSeq(seqs) \in Seq(T)
    <1>1. PICK flat : IsFlattening(flat, seqs, T)
        BY FlatteningExists
    <1>2. Len(seqs) \in 0..Len(seqs)
        OBVIOUS
    <1> QED
        BY <1>1, <1>2 DEF IsFlattening

\* It holds all that the sequences hold.
LEMMA FlatHoldsAll ==
    ASSUME NEW T, NEW seqs \in Seq(Seq(T)),
           NEW n \in 1..Len(seqs), NEW k \in 1..Len(seqs[n])
    PROVE  \E m \in 1..Len(FlattenSeq(seqs)) : FlattenSeq(seqs)[m] = seqs[n][k]
    <1>1. PICK flat : IsFlattening(flat, seqs, T)
        BY FlatteningExists
    <1> DEFINE N == Len(seqs)
               Holds(i) == \E m \in 1..Len(flat[i]) : flat[i][m] = seqs[n][k]
               P == {i \in 0..N : i < n \/ Holds(i)}
    <1>2. N \in Nat /\ n \in Int /\ 0 \in P
        OBVIOUS
    <1>3. ASSUME NEW i \in 1..N, i-1 \in P
          PROVE  i \in P
        <2>1. /\ flat[i] = flat[i-1] \o seqs[i]
              /\ flat[i-1] \in Seq(T) /\ seqs[i] \in Seq(T)
            <3>1. i-1 \in 0..N
                OBVIOUS
            <3>2. seqs[i] \in Seq(T)
                OBVIOUS
            <3>3. flat[i] = flat[i-1] \o seqs[i] /\ flat \in [0..N -> Seq(T)]
                BY <1>1 DEF IsFlattening
            <3> HIDE DEF N
            <3> QED
                BY <3>1, <3>2, <3>3
        <2>2. PICK a \in Seq(T), b \in Seq(T) : a = flat[i-1] /\ b = seqs[i]
            BY <2>1
        <2>3. /\ Len(a \o b) = Len(a) + Len(b) /\ Len(a) \in Nat /\ Len(b) \in Nat
              /\ \A m \in 1..Len(a) : (a \o b)[m] = a[m]
              /\ \A m \in 1..Len(b) : (a \o b)[Len(a) + m] = b[m]
            OBVIOUS
        <2>4. CASE i < n
            BY <2>4
        <2>5. CASE i = n
            <3>1. k \in 1..Len(b) /\ b[k] = seqs[n][k]
                BY <2>2, <2>5
            <3>2. Len(a) + k \in 1..Len(a \o b) /\ (a \o b)[Len(a) + k] = b[k]
                BY <2>3, <3>1
            <3>3. flat[i] = a \o b
                BY <2>1, <2>2
            <3> QED
                BY <3>1, <3>2, <3>3
        <2>6. CASE i > n
            <3>1. PICK m \in 1..Len(a) : a[m] = seqs[n][k]
                BY <1>3, <2>2, <2>6
            <3>2. m \in 1..Len(a \o b) /\ (a \o b)[m] = seqs[n][k]
                BY <2>3, <3>1
            <3>3. flat[i] = a \o b
                BY <2>1, <2>2
            <3> QED
                BY <3>2, <3>3
        <2> QED
            BY <2>4, <2>5, <2>6
    <1>4. N \in P
        <2>1. N \in 0..N
            BY <1>2
        <2> HIDE DEF P, N
        <2> QED
            BY <1>2, <1>3, <2>1, Upwards
    <1>5. Holds(N)
        BY <1>2, <1>4
    <1> QED
        BY <1>1, <1>5 DEF IsFlattening

\* A set of integers between two others has a least element and a greatest.
LEMMA Extremes ==
    ASSUME NEW lo \in Int, NEW hi \in Int, NEW S \in SUBSET (lo..hi), S # {}
    PROVE  /\ Min(S) \in S /\ \A y \in S : Min(S) <= y
           /\ Max(S) \in S /\ \A y \in S : y <= Max(S)
    <1>1. \E x \in S : \A y \in S : x <= y
        <2> DEFINE T == {n \in Nat : lo + n \in S}
        <2>1. \A y \in S : y - lo \in T
            OBVIOUS
        <2>2. T \in SUBSET Nat /\ T # {}
            BY <2>1
        <2>3. PICK n \in T : \A k \in T : n <= k
            <3> HIDE DEF T
            <3> QED
                BY <2>2, LeastElement
        <2>4. \A y \in S : n <= y - lo
            BY <2>1, <2>3
        <2>5. n \in Nat /\ lo + n \in S
            BY <2>3
        <2> HIDE DEF T
        <2>6. \A y \in S : lo + n <= y
            BY <2>4, <2>5
        <2> QED
            BY <2>5, <2>6
    <1>2. \E x \in S : \A y \in S : y <= x
        <2> DEFINE T == {n \in Nat : hi - n \in S}
        <2>1. \A y \in S : hi - y \in T
            OBVIOUS
        <2>2. T \in SUBSET Nat /\ T # {}
            BY <2>1
        <2>3. PICK n \in T : \A k \in T : n <= k
            <3> HIDE DEF T
            <3> QED
                BY <2>2, LeastElement
        <2>4. \A y \in S : n <= hi - y
            BY <2>1, <2>3
        <2>5. n \in Nat /\ hi - n \in S
            BY <2>3
        <2> HIDE DEF T
        <2>6. \A y \in S : y <= hi - n
            BY <2>4, <2>5
        <2> QED
            BY <2>5, <2>6
    <1>3. \A x, y \in S : x <= y <=> y >= x
        OBVIOUS
    <1> QED
        BY <1>1, <1>2, <1>3 DEF Min, Max

\* What holds of an index if it holds of all those after it, holds of them all.
LEMMA Downwards ==
    ASSUME NEW lo \in Int, NEW hi \in Int, NEW P,
           \A i \in lo..hi : (\A k \in i + 1..hi : k \in P) => i \in P
    PROVE  \A i \in lo..hi : i \in P
    <1> DEFINE Wrong == {i \in lo..hi : i \notin P}
    <1> SUFFICES ASSUME Wrong # {} PROVE FALSE
        OBVIOUS
    <1>1. Max(Wrong) \in Wrong /\ \A k \in Wrong : k <= Max(Wrong)
        <2>1. Wrong \in SUBSET (lo..hi)
            OBVIOUS
        <2> HIDE DEF Wrong
        <2> QED
            BY <2>1, Extremes
    <1>2. PICK i \in Wrong : \A k \in Wrong : k <= i
        BY <1>1
    <1>3. i \in lo..hi /\ i \notin P
        BY <1>2
    <1>4. \A k \in i + 1..hi : k \in P
        BY <1>2, <1>3
    <1> QED
        BY <1>3, <1>4

\* A finite set of naturals has an upper bound.
LEMMA FiniteIsBounded ==
    ASSUME NEW S \in SUBSET Nat, IsFiniteSet(S)
    PROVE  \E m \in Nat : \A x \in S : x <= m
    <1> DEFINE Bounded(T) == \E m \in Nat : \A x \in T : x <= m
               Bad == {n \in Nat : \E T \in SUBSET S : Cardinality(T) = n /\ ~Bounded(T)}
    <1> SUFFICES ASSUME ~Bounded(S) PROVE FALSE
        OBVIOUS
    <1>1. Cardinality(S) \in Bad
        BY FS_CardinalityType
    <1>2. PICK n \in Bad : \A k \in Bad : n <= k
        <2>1. Bad \in SUBSET Nat
            OBVIOUS
        <2> HIDE DEF Bad
        <2> QED
            BY <1>1, <2>1, LeastElement
    <1>3. PICK T \in SUBSET S : Cardinality(T) = n /\ ~Bounded(T)
        BY <1>2
    <1>4. PICK x : x \in T
        BY <1>3
    <1>5. IsFiniteSet(T) /\ IsFiniteSet(T \ {x}) /\ Cardinality(T \ {x}) = Cardinality(T) - 1
        BY <1>4, FS_Subset, FS_RemoveElement
    <1>6. Cardinality(T \ {x}) \in Nat /\ n \in Nat
        BY <1>2, <1>5, FS_CardinalityType
    <1>7. ~(n <= Cardinality(T \ {x}))
        BY <1>3, <1>5, <1>6
    <1>8. T \ {x} \in SUBSET S
        OBVIOUS
    <1>9. Bounded(T \ {x})
        BY <1>2, <1>6, <1>7, <1>8
    <1>10. PICK m \in Nat : \A y \in T \ {x} : y <= m
        BY <1>9
    <1>11. x \in Nat
        BY <1>4
    <1>12. \A y \in T : y <= m + x
        BY <1>10, <1>11
    <1> QED
        BY <1>3, <1>11, <1>12

\* The steps of a recursion over a text or a list: at each index there is a
\* sequence, and a later index to go on from.
Advances(head, next, T, lo, hi) ==
    \A i \in lo..hi : head[i] \in Seq(T) /\ next[i] \in i + 1..hi + 1
\* What it makes of them, until it is past the last index.
Follows(f, head, next, T, lo, hi) ==
    /\ f \in [lo..hi + 1 -> Seq(T)]
    /\ f[hi + 1] = <<>>
    /\ \A i \in lo..hi : f[i] = head[i] \o f[next[i]]

\* Every such recursion has a solution.
LEMMA DescentExists ==
    ASSUME NEW lo \in Int, NEW hi \in Int, lo <= hi + 1, NEW T, NEW head, NEW next,
           Advances(head, next, T, lo, hi)
    PROVE  \E f : Follows(f, head, next, T, lo, hi)
    <1> USE DEF Advances
    <1> DEFINE Solves(f, n) == Follows(f, head, next, T, n, hi)
               P == {n \in Int : \E f : Solves(f, n)}
    <1>1. ASSUME NEW n \in lo..hi, NEW f, Solves(f, n + 1)
          PROVE  \E g : Solves(g, n)
        <2> USE DEF Follows
        <2>1. next[n] \in n + 1..hi + 1 /\ head[n] \in Seq(T)
            OBVIOUS
        <2>2. PICK value : value = head[n] \o f[next[n]]
            OBVIOUS
        <2>3. value \in Seq(T)
            <3>1. f[next[n]] \in Seq(T)
                BY <1>1, <2>1
            <3> QED
                BY <2>1, <2>2, <3>1
        <2> DEFINE g == [i \in n..hi + 1 |-> IF i = n THEN value ELSE f[i]]
        <2>4. n \in Int /\ n <= hi
            OBVIOUS
        <2>5. g[n] = value
            BY <2>4
        <2>6. \A i \in n + 1..hi + 1 : g[i] = f[i]
            BY <2>4
        <2>7. g \in [n..hi + 1 -> Seq(T)]
            BY <1>1, <2>3, <2>4
        <2> HIDE DEF g
        <2>8. g[hi + 1] = <<>>
            BY <1>1, <2>4, <2>6
        <2>9. ASSUME NEW i \in n..hi
              PROVE  g[i] = head[i] \o g[next[i]]
            <3>1. CASE i = n
                <4>1. g[next[n]] = f[next[n]]
                    BY <2>1, <2>6
                <4> QED
                    BY <2>2, <2>5, <3>1, <4>1
            <3>2. CASE i # n
                <4>1. i \in n + 1..hi /\ i \in n + 1..hi + 1 /\ i \in lo..hi
                    BY <2>4, <3>2
                <4>2. next[i] \in n + 1..hi + 1
                    <5>1. next[i] \in i + 1..hi + 1
                        BY <4>1
                    <5> QED
                        BY <4>1, <5>1
                <4>3. f[i] = head[i] \o f[next[i]]
                    BY <1>1, <4>1
                <4>4. g[i] = f[i] /\ g[next[i]] = f[next[i]]
                    BY <2>6, <4>1, <4>2
                <4> QED
                    BY <4>3, <4>4
            <3> QED
                BY <3>1, <3>2
        <2> QED
            BY <2>7, <2>8, <2>9
    <1>2. \E f : Solves(f, hi + 1)
        <2> USE DEF Follows
        <2> DEFINE f == [i \in hi + 1..hi + 1 |-> <<>>]
        <2>1. f \in [hi + 1..hi + 1 -> Seq(T)] /\ f[hi + 1] = <<>>
            OBVIOUS
        <2>2. hi + 1..hi = {}
            OBVIOUS
        <2> QED
            BY <2>1, <2>2
    <1> HIDE DEF Solves
    <1>3. \E f : Solves(f, lo)
        <2>1. \A i \in lo..hi : (\A k \in i + 1..hi : k \in P) => i \in P
            <3> SUFFICES ASSUME NEW i \in lo..hi, \A k \in i + 1..hi : k \in P
                         PROVE  i \in P
                OBVIOUS
            <3>1. i \in Int /\ (i + 1 = hi + 1 \/ i + 1 \in i + 1..hi)
                OBVIOUS
            <3>2. \E f : Solves(f, i + 1)
                BY <1>2, <3>1
            <3>3. \E g : Solves(g, i)
                BY <1>1, <3>2
            <3> QED
                BY <3>1, <3>3
        <2>2. \A i \in lo..hi : i \in P
            <3> HIDE DEF P
            <3> QED
                BY <2>1, Downwards
        <2>3. lo = hi + 1 \/ lo \in lo..hi
            OBVIOUS
        <2> QED
            BY <1>2, <2>2, <2>3
    <1> QED
        BY <1>3 DEF Solves
=============================================================================
