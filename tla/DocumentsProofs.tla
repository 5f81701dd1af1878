--------------------------- MODULE DocumentsProofs --------------------------
(***************************************************************************)
(* Proofs about Documents for every set of requests, files and contents,   *)
(* any chunk size and overlap, any number of rows and faults: what the     *)
(* chunks of a text are, the types, that what is stored of a document is   *)
(* its row's and can be found, and that no object is forgotten.            *)
(***************************************************************************)
EXTENDS Documents, SequenceProofs

-----------------------------------------------------------------------------
(* Chunks.  Whatever the text, there is a list of its chunks, since the    *)
(* recursions that cut it go forward; it is cut into parts that are in     *)
(* order, and the chunks have every unit that is packed.                   *)

\* The parts of a text, and those that fit into a chunk.
Parts == [from : Int, to : Int]
Fitting == {u \in Parts : Size(u) <= MaxChunkChars}

\* Parts that lie between two positions, each one before the next.
InOrder(s, lo, hi) ==
    /\ s \in Seq(Parts)
    /\ \A k \in 1..Len(s) : lo <= s[k].from /\ s[k].from <= s[k].to /\ s[k].to <= hi
    /\ \A k, m \in 1..Len(s) : k < m => s[k].to < s[m].from

\* The ends of a part are numbers.
LEMMA PartEnds ==
    ASSUME NEW s \in Seq(Parts), NEW k \in 1..Len(s)
    PROVE  s[k] \in Parts /\ s[k].from \in Int /\ s[k].to \in Int
    <1>1. s[k] \in Parts
        OBVIOUS
    <1> QED
        BY <1>1 DEF Parts

\* No part, and one.
LEMMA FewInOrder ==
    ASSUME NEW lo \in Int, NEW hi \in Int
    PROVE  /\ InOrder(<<>>, lo, hi)
           /\ \A u \in Parts : lo <= u.from /\ u.from <= u.to /\ u.to <= hi
                                  => InOrder(<<u>>, lo, hi)
    BY DEF InOrder

\* Parts in order are so between positions further apart.
LEMMA WiderInOrder ==
    ASSUME NEW lo \in Int, NEW hi \in Int, NEW from \in Int, NEW to \in Int, NEW s,
           InOrder(s, from, to), lo <= from, to <= hi
    PROVE  InOrder(s, lo, hi)
    <1>1. s \in Seq(Parts)
        BY DEF InOrder
    <1>2. Len(s) \in Nat /\ \A k \in 1..Len(s) : s[k].from \in Int /\ s[k].to \in Int
        BY <1>1, PartEnds
    <1> QED
        BY <1>1, <1>2 DEF InOrder

\* Parts before a position and parts after it.
LEMMA OneAfterTheOther ==
    ASSUME NEW lo \in Int, NEW mid \in Int, NEW hi \in Int, lo <= mid + 1, mid <= hi,
           NEW s, NEW t, InOrder(s, lo, mid), InOrder(t, mid + 1, hi)
    PROVE  InOrder(s \o t, lo, hi)
    <1>1. s \in Seq(Parts) /\ t \in Seq(Parts)
        BY DEF InOrder
    <1>2. /\ s \o t \in Seq(Parts)
          /\ Len(s \o t) = Len(s) + Len(t) /\ Len(s) \in Nat /\ Len(t) \in Nat
          /\ \A k \in 1..Len(s \o t) : IF k <= Len(s) THEN (s \o t)[k] = s[k]
                                       ELSE (s \o t)[k] = t[k - Len(s)]
        BY <1>1
    <1>3. /\ \A k \in 1..Len(s) : s[k].from \in Int /\ s[k].to \in Int
          /\ \A k \in 1..Len(t) : t[k].from \in Int /\ t[k].to \in Int
        BY <1>1, PartEnds
    <1>4. ASSUME NEW k \in 1..Len(s \o t)
          PROVE  \/ k \in 1..Len(s) /\ (s \o t)[k] = s[k]
                 \/ k - Len(s) \in 1..Len(t) /\ (s \o t)[k] = t[k - Len(s)] /\ k > Len(s)
        BY <1>2
    <1>5. /\ \A k \in 1..Len(s) : lo <= s[k].from /\ s[k].from <= s[k].to /\ s[k].to <= mid
          /\ \A k, m \in 1..Len(s) : k < m => s[k].to < s[m].from
          /\ \A k \in 1..Len(t) : mid + 1 <= t[k].from /\ t[k].from <= t[k].to /\ t[k].to <= hi
          /\ \A k, m \in 1..Len(t) : k < m => t[k].to < t[m].from
        BY DEF InOrder
    <1> DEFINE st == s \o t
    <1>6. PICK both : both = s \o t
        OBVIOUS
    <1>7. ASSUME NEW k \in 1..Len(both)
          PROVE  lo <= both[k].from /\ both[k].from <= both[k].to /\ both[k].to <= hi
        <2>1. CASE k \in 1..Len(s) /\ both[k] = s[k]
            BY <1>3, <1>5, <2>1
        <2>2. CASE k - Len(s) \in 1..Len(t) /\ both[k] = t[k - Len(s)]
            BY <1>3, <1>5, <2>2
        <2> QED
            BY <1>4, <1>6, <2>1, <2>2
    <1>8. ASSUME NEW k \in 1..Len(both), NEW m \in 1..Len(both), k < m
          PROVE  both[k].to < both[m].from
        <2>1. k \in Int /\ m \in Int /\ Len(s) \in Int
            BY <1>2, <1>6
        <2>2. CASE k \in 1..Len(s) /\ both[k] = s[k] /\ m \in 1..Len(s) /\ both[m] = s[m]
            BY <1>5, <1>8, <2>2
        <2>3. CASE /\ k \in 1..Len(s) /\ both[k] = s[k]
                   /\ m - Len(s) \in 1..Len(t) /\ both[m] = t[m - Len(s)]
            <3>1. s[k].to <= mid /\ mid + 1 <= t[m - Len(s)].from
                BY <1>5, <2>3
            <3>2. s[k].to \in Int /\ t[m - Len(s)].from \in Int
                BY <1>3, <2>3
            <3>3. s[k].to < t[m - Len(s)].from
                BY <3>1, <3>2
            <3> QED
                BY <2>3, <3>3
        <2>4. CASE /\ k - Len(s) \in 1..Len(t) /\ both[k] = t[k - Len(s)]
                   /\ m - Len(s) \in 1..Len(t) /\ both[m] = t[m - Len(s)]
            <3>1. k - Len(s) < m - Len(s)
                BY <1>8, <2>1
            <3> QED
                BY <1>5, <2>4, <3>1
        <2>5. ~(k > Len(s) /\ m \in 1..Len(s))
            BY <1>8, <2>1
        <2> QED
            BY <1>4, <1>6, <2>2, <2>3, <2>4, <2>5
    <1> QED
        BY <1>2, <1>6, <1>7, <1>8 DEF InOrder

\* Lists of parts, each between the ends of a part of another list.
LEMMA FlatInOrder ==
    ASSUME NEW lo \in Int, NEW hi \in Int, NEW wholes, InOrder(wholes, lo, hi),
           NEW seqs \in Seq(Seq(Parts)), Len(seqs) = Len(wholes),
           \A n \in 1..Len(wholes) : InOrder(seqs[n], wholes[n].from, wholes[n].to)
    PROVE  InOrder(FlattenSeq(seqs), lo, hi)
    <1>1. PICK flat : IsFlattening(flat, seqs, Parts)
        BY FlatteningExists
    <1> DEFINE N == Len(seqs)
               last(i) == IF i = 0 THEN lo - 1 ELSE wholes[i].to
               P == {i \in 0..N : InOrder(flat[i], lo, last(i))}
    <1>2. N \in Nat /\ N = Len(wholes)
        OBVIOUS
    <1> HIDE DEF N
    <1>3. \A i \in 1..N : /\ wholes[i].from \in Int /\ wholes[i].to \in Int
                          /\ lo <= wholes[i].from /\ wholes[i].from <= wholes[i].to
                          /\ wholes[i].to <= hi
        <2>1. wholes \in Seq(Parts)
            BY DEF InOrder
        <2>2. \A i \in 1..N : wholes[i].from \in Int /\ wholes[i].to \in Int
            BY <1>2, <2>1, PartEnds
        <2> QED
            BY <1>2, <2>2 DEF InOrder
    <1>4. \A i \in 0..N : last(i) \in Int /\ lo - 1 <= last(i)
        <2> SUFFICES ASSUME NEW i \in 0..N
                     PROVE  last(i) \in Int /\ lo - 1 <= last(i)
            OBVIOUS
        <2>1. CASE i = 0
            BY <2>1
        <2>2. CASE i # 0
            <3>1. i \in 1..N /\ last(i) = wholes[i].to
                BY <1>2, <2>2
            <3>2. /\ wholes[i].from \in Int /\ wholes[i].to \in Int
                  /\ lo <= wholes[i].from /\ wholes[i].from <= wholes[i].to
                BY <1>3, <3>1
            <3> HIDE DEF last
            <3> QED
                BY <3>1, <3>2
        <2> QED
            BY <2>1, <2>2
    <1>5. 0 \in P
        <2>1. flat[0] = <<>> /\ last(0) \in Int
            BY <1>1 DEF IsFlattening
        <2>2. InOrder(<<>>, lo, last(0))
            BY <2>1, FewInOrder
        <2> QED
            BY <1>2, <2>1, <2>2
    <1>6. ASSUME NEW i \in 1..N, i-1 \in P
          PROVE  i \in P
        <2>1. last(i-1) < wholes[i].from
            <3>1. CASE i-1 = 0
                BY <1>3, <3>1
            <3>2. CASE i-1 # 0
                <4>1. i-1 \in 1..N /\ i-1 < i
                    BY <1>2, <3>2
                <4>2. wholes[i-1].to < wholes[i].from
                    BY <1>2, <4>1 DEF InOrder
                <4> QED
                    BY <3>2, <4>2
            <3> QED
                BY <3>1, <3>2
        <2>2. PICK mid : mid = last(i-1)
            OBVIOUS
        <2>3. mid \in Int /\ lo <= mid + 1
            <3>1. PICK j \in 0..N : j = i-1
                <4>1. i-1 \in 0..N
                    BY <1>2
                <4> QED
                    BY <4>1
            <3>2. mid = last(j)
                BY <2>2, <3>1
            <3> HIDE DEF last
            <3>3. mid \in Int /\ lo - 1 <= mid
                BY <1>4, <3>2
            <3> QED
                BY <3>3
        <2>4. InOrder(seqs[i], mid + 1, wholes[i].to)
            <3>1. InOrder(seqs[i], wholes[i].from, wholes[i].to)
                BY <1>2
            <3>2. mid + 1 <= wholes[i].from /\ mid + 1 \in Int
                BY <1>3, <2>1, <2>2, <2>3
            <3>3. wholes[i].to <= wholes[i].to
                BY <1>3
            <3> QED
                BY <1>3, <3>1, <3>2, <3>3, WiderInOrder
        <2>5. InOrder(flat[i-1], lo, mid)
            BY <1>6, <2>2
        <2>6. mid <= wholes[i].to
            <3>1. mid < wholes[i].from
                BY <2>1, <2>2
            <3> HIDE DEF last
            <3> QED
                BY <1>3, <2>3, <3>1
        <2>7. InOrder(flat[i-1] \o seqs[i], lo, wholes[i].to)
            BY <1>3, <2>3, <2>4, <2>5, <2>6, OneAfterTheOther
        <2>8. flat[i] = flat[i-1] \o seqs[i]
            BY <1>1 DEF IsFlattening, N
        <2>9. i \in 0..N /\ last(i) = wholes[i].to
            BY <1>2
        <2> QED
            BY <2>7, <2>8, <2>9
    <1>7. N \in P
        <2>1. N \in 0..N
            BY <1>2
        <2> HIDE DEF P
        <2> QED
            BY <1>2, <1>5, <1>6, <2>1, Upwards
    <1>8. InOrder(FlattenSeq(seqs), lo, last(N))
        BY <1>1, <1>7 DEF IsFlattening, N
    <1>9. CASE N = 0
        <2>1. FlattenSeq(seqs) = <<>>
            BY <1>1, <1>9 DEF IsFlattening, N
        <2> QED
            BY <2>1, FewInOrder
    <1>10. CASE N # 0
        <2>1. last(N) = wholes[N].to /\ wholes[N].to \in Int /\ wholes[N].to <= hi /\ lo <= lo
            BY <1>2, <1>3, <1>10
        <2> QED
            BY <1>8, <2>1, WiderInOrder
    <1> QED
        BY <1>9, <1>10

\* A set of positions trims to one part or none, between its positions.
LEMMA TrimmedInOrder ==
    ASSUME NEW text, NEW lo \in Int, NEW hi \in Int, NEW part \in SUBSET (lo..hi)
    PROVE  InOrder(Trimmed(text, part), lo, hi)
    <1> DEFINE solid == {i \in part : text[i] \notin White}
    <1>1. CASE solid = {}
        BY <1>1, FewInOrder DEF Trimmed
    <1>2. CASE solid # {}
        <2>1. solid \in SUBSET (lo..hi)
            OBVIOUS
        <2>2. PICK u : u = [from |-> Min(solid), to |-> Max(solid)]
            OBVIOUS
        <2>3. Trimmed(text, part) = <<u>>
            BY <1>2, <2>2 DEF Trimmed
        <2> HIDE DEF solid
        <2>4. Min(solid) \in solid /\ Max(solid) \in solid /\ Min(solid) <= Max(solid)
            BY <1>2, <2>1, Extremes
        <2>5. Min(solid) \in Int /\ Max(solid) \in Int /\ lo <= Min(solid) /\ Max(solid) <= hi
            <3>1. \A i \in solid : i \in Int /\ lo <= i /\ i <= hi
                BY <2>1
            <3> QED
                BY <2>4, <3>1, Zenon
        <2>6. u \in Parts /\ lo <= u.from /\ u.from <= u.to /\ u.to <= hi
            BY <2>2, <2>4, <2>5 DEF Parts
        <2> QED
            BY <2>3, <2>6, FewInOrder
    <1> QED
        BY <1>1, <1>2

\* Of a set of positions there is one that is the n-th.
LEMMA NthPosition ==
    ASSUME NEW L \in Nat, NEW S \in SUBSET (1..L), NEW n \in 1..Cardinality(S)
    PROVE  \E i \in S : Cardinality({j \in S : j <= i}) = n
    <1> DEFINE upTo(i) == {j \in S : j <= i}
               count(i) == Cardinality(upTo(i))
               enough == {i \in Nat : count(i) >= n}
    <1>0. \A j \in S : j \in Int /\ 1 <= j /\ j <= L
        OBVIOUS
    <1>1. IsFiniteSet(S) /\ Cardinality(S) \in Nat
        <2>1. IsFiniteSet(1..L)
            BY FS_Interval
        <2> QED
            BY <2>1, FS_Subset, FS_CardinalityType
    <1>2. \A i : IsFiniteSet(upTo(i)) /\ count(i) \in Nat
        BY <1>1, FS_Subset, FS_CardinalityType
    <1>3. count(L) = Cardinality(S) /\ count(0) = 0
        <2>1. upTo(L) = S
            BY <1>0
        <2>2. upTo(0) = {}
            <3>1. \A j \in S : ~(j <= 0)
                BY <1>0
            <3> QED
                BY <3>1
        <2> QED
            BY <2>1, <2>2, FS_EmptySet
    <1>4. PICK i \in enough : \A k \in enough : i <= k
        <2>1. enough \in SUBSET Nat
            OBVIOUS
        <2>2. L \in enough
            BY <1>1, <1>3
        <2> HIDE DEF enough
        <2> QED
            BY <2>1, <2>2, LeastElement
    <1>5. i \in Nat /\ count(i) >= n /\ n > 0 /\ n \in Nat
        BY <1>1, <1>4
    <1>6. i # 0
        BY <1>3, <1>5
    <1>7. i-1 \in Nat /\ ~(count(i-1) >= n)
        <2>1. i-1 \in Nat /\ ~(i <= i-1)
            BY <1>5, <1>6
        <2> QED
            BY <1>4, <2>1
    <1>8. upTo(i) = upTo(i-1) \cup (S \cap {i})
        <2>1. \A j \in S : j <= i <=> (j <= i-1 \/ j = i)
            BY <1>0, <1>5
        <2> QED
            BY <2>1
    <1> HIDE DEF upTo, enough
    <1>9. i \in S
        <2> SUFFICES ASSUME i \notin S PROVE FALSE
            OBVIOUS
        <2>1. S \cap {i} = {}
            OBVIOUS
        <2>2. upTo(i) = upTo(i-1)
            BY <1>8, <2>1
        <2> QED
            BY <1>5, <1>7, <2>2
    <1>10. count(i) <= count(i-1) + 1
        <2>1. upTo(i) = upTo(i-1) \cup {i}
            BY <1>8, <1>9
        <2>2. count(i) \in {count(i-1), count(i-1) + 1}
            <3> PICK before : before = upTo(i-1)
                OBVIOUS
            <3>1. IsFiniteSet(before)
                BY <1>2
            <3>2. Cardinality(before \cup {i}) = IF i \in before THEN Cardinality(before)
                                                 ELSE Cardinality(before) + 1
                BY <3>1, FS_AddElement
            <3> QED
                BY <2>1, <3>2
        <2> QED
            BY <1>2, <2>2
    <1>11. count(i) = n
        <2>1. count(i) \in Int /\ count(i-1) \in Int /\ n \in Int
            BY <1>2, <1>5
        <2> HIDE DEF count
        <2> QED
            BY <1>5, <1>7, <1>10, <2>1
    <1> QED
        BY <1>9, <1>11 DEF upTo

\* The paragraphs of a text are in order.
LEMMA ParagraphsInOrder ==
    ASSUME NEW text \in Seq(Characters)
    PROVE  InOrder(SplitParagraphs(text), 1, Len(text))
    <1> DEFINE newline(i) == i \in DOMAIN text /\ text[i] = "nl"
               inside == {i \in DOMAIN text :
                             newline(i) => ~newline(i - 1) /\ ~newline(i + 1)}
               begins == {i \in inside : i - 1 \notin inside}
               paragraph(i) == {j \in inside : i <= j /\ i..j \subseteq inside}
               count(i) == Cardinality({j \in begins : j <= i})
               N == Cardinality(begins)
               starts == [n \in 1..N |-> CHOOSE i \in begins : count(i) = n]
               seqs == [n \in DOMAIN starts |-> Trimmed(text, paragraph(starts[n]))]
               L == Len(text)
               wholes == [n \in 1..N |->
                             [from |-> starts[n], to |-> IF n = N THEN L ELSE starts[n + 1] - 1]]
    <1>1. L \in Nat /\ inside \in SUBSET (1..L) /\ begins \in SUBSET (1..L)
        OBVIOUS
    <1>2. IsFiniteSet(begins) /\ N \in Nat
        <2>1. IsFiniteSet(1..L)
            BY <1>1, FS_Interval
        <2> HIDE DEF begins, L
        <2> QED
            BY <1>1, <2>1, FS_Subset, FS_CardinalityType
    <1>3. SplitParagraphs(text) = FlattenSeq(seqs)
        BY DEF SplitParagraphs
    <1>4. \A i \in begins, j \in inside : i <= j /\ i..j \subseteq inside
                                              => \A b \in begins : i < b => j < b
        <2> SUFFICES ASSUME NEW i \in begins, NEW j \in inside, i <= j, i..j \subseteq inside,
                            NEW b \in begins, i < b, b <= j
                     PROVE  FALSE
            BY <1>1
        <2>1. b - 1 \in i..j
            BY <1>1
        <2> QED
            BY <2>1
    <1>5. \A i \in begins : paragraph(i) \subseteq inside /\ \A j \in paragraph(i) : i <= j /\ i..j \subseteq inside
        OBVIOUS
    <1> HIDE DEF inside, begins, paragraph, L
    <1>6. \A n \in 1..N : starts[n] \in begins /\ count(starts[n]) = n
        <2> SUFFICES ASSUME NEW n \in 1..N
                     PROVE  \E i \in begins : count(i) = n
            BY Zenon
        <2> QED
            BY <1>1, NthPosition
    <1>7. \A n \in 1..N : starts[n] \in Int /\ 1 <= starts[n] /\ starts[n] <= L
        <2>1. \A i \in begins : i \in Int /\ 1 <= i /\ i <= L
            BY <1>1
        <2> QED
            BY <1>6, <2>1, Zenon
    <1> HIDE DEF starts
    <1>8. ASSUME NEW n \in 1..N, NEW m \in 1..N, n < m
          PROVE  starts[n] < starts[m]
        <2> SUFFICES ASSUME starts[m] <= starts[n] PROVE FALSE
            BY <1>7
        <2>1. \A j \in begins : j \in Int
            BY <1>1
        <2>2. {j \in begins : j <= starts[m]} \subseteq {j \in begins : j <= starts[n]}
            BY <1>7, <2>1
        <2>3. IsFiniteSet({j \in begins : j <= starts[n]})
            BY <1>2, FS_Subset
        <2>4. count(starts[m]) <= count(starts[n])
            BY <2>2, <2>3, FS_Subset
        <2>5. m <= n
            BY <1>6, <2>4
        <2> QED
            BY <1>2, <1>8, <2>5
    <1>9. ASSUME NEW n \in 1..N
          PROVE  /\ wholes[n] = [from |-> wholes[n].from, to |-> wholes[n].to]
                 /\ wholes[n].from = starts[n] /\ wholes[n].to \in Int
                 /\ wholes[n].from <= wholes[n].to /\ wholes[n].to <= L
                 /\ n # N => wholes[n].to = starts[n + 1] - 1
                 /\ n = N => wholes[n].to = L
        <2>1. CASE n = N
            BY <1>1, <1>7, <2>1
        <2>2. CASE n # N
            <3>1. n + 1 \in 1..N /\ n < n + 1
                BY <1>2, <2>2
            <3>2. starts[n] < starts[n + 1]
                BY <1>8, <3>1
            <3> QED
                BY <1>1, <1>7, <2>2, <3>1, <3>2
        <2> QED
            BY <2>1, <2>2
    <1>10. wholes \in Seq(Parts) /\ Len(wholes) = N
        <2>1. \A n \in 1..N : wholes[n] \in Parts
            BY <1>7, <1>9 DEF Parts
        <2>2. DOMAIN wholes = 1..N /\ wholes = [n \in 1..N |-> wholes[n]]
            OBVIOUS
        <2> HIDE DEF wholes, N
        <2> QED
            BY <1>2, <2>1, <2>2
    <1> HIDE DEF wholes
    <1>11. InOrder(wholes, 1, L)
        <2>1. ASSUME NEW n \in 1..N, NEW m \in 1..N, n < m
              PROVE  wholes[n].to < wholes[m].from
            <3>1. n # N /\ n + 1 \in 1..N
                BY <1>2, <2>1
            <3>2. starts[n + 1] <= starts[m]
                <4>1. n + 1 = m \/ n + 1 < m
                    BY <1>2, <2>1
                <4> QED
                    BY <1>7, <1>8, <3>1, <4>1
            <3>3. wholes[n].to = starts[n + 1] - 1 /\ wholes[m].from = starts[m]
                BY <1>9, <3>1
            <3>4. starts[n + 1] \in Int /\ starts[m] \in Int
                BY <1>7, <3>1
            <3> QED
                BY <3>2, <3>3, <3>4
        <2> QED
            BY <1>7, <1>9, <1>10, <2>1 DEF InOrder
    <1>12. ASSUME NEW n \in 1..N
           PROVE  InOrder(seqs[n], wholes[n].from, wholes[n].to)
        <2>1. PICK part : part = paragraph(starts[n])
            OBVIOUS
        <2>2. starts[n] \in begins /\ part \subseteq inside
            BY <1>5, <1>6, <2>1
        <2>3. ASSUME NEW j \in part
              PROVE  j \in wholes[n].from..wholes[n].to
            <3>1. j \in inside /\ starts[n] <= j /\ starts[n]..j \subseteq inside
                BY <1>5, <2>1, <2>2
            <3>2. j \in Int /\ j <= L
                BY <1>1, <3>1
            <3> PICK from, to : from = wholes[n].from /\ to = wholes[n].to
                OBVIOUS
            <3>5. from = starts[n] /\ from \in Int /\ to \in Int
                BY <1>7, <1>9
            <3>3. CASE n = N
                <4>1. to = L
                    BY <1>9, <3>3
                <4> QED
                    BY <3>1, <3>2, <3>5, <4>1
            <3>4. CASE n # N
                <4>1. n + 1 \in 1..N /\ n < n + 1
                    BY <1>2, <3>4
                <4>2. starts[n] < starts[n + 1] /\ starts[n + 1] \in begins
                    BY <1>6, <1>8, <4>1
                <4>3. j < starts[n + 1]
                    BY <1>4, <2>2, <3>1, <4>2
                <4>4. to = starts[n + 1] - 1 /\ starts[n + 1] \in Int
                    BY <1>7, <1>9, <3>4, <4>1
                <4> QED
                    BY <3>1, <3>2, <3>5, <4>3, <4>4
            <3> QED
                BY <3>3, <3>4
        <2>4. part \in SUBSET (wholes[n].from..wholes[n].to)
            BY <2>3
        <2>5. wholes[n].from \in Int /\ wholes[n].to \in Int
            BY <1>7, <1>9
        <2>6. InOrder(Trimmed(text, part), wholes[n].from, wholes[n].to)
            BY <2>4, <2>5, TrimmedInOrder, Zenon
        <2>7. seqs[n] = Trimmed(text, part)
            BY <2>1 DEF starts
        <2> QED
            BY <2>6, <2>7
    <1>13. seqs \in Seq(Seq(Parts)) /\ Len(seqs) = N
        <2>1. \A n \in 1..N : seqs[n] \in Seq(Parts)
            BY <1>12 DEF InOrder
        <2>2. DOMAIN seqs = 1..N /\ seqs = [n \in 1..N |-> seqs[n]]
            BY DEF starts
        <2> HIDE DEF seqs, N
        <2> QED
            BY <1>2, <2>1, <2>2
    <1> HIDE DEF seqs
    <1>14. InOrder(FlattenSeq(seqs), 1, L)
        <2>1. 1 \in Int /\ L \in Int
            BY <1>1
        <2>2. \A n \in 1..Len(wholes) : InOrder(seqs[n], wholes[n].from, wholes[n].to)
            BY <1>10, <1>12
        <2> QED
            BY <1>10, <1>11, <1>13, <2>1, <2>2, FlatInOrder
    <1> QED
        BY <1>3, <1>14 DEF L

\* A run of characters ends no earlier than before its first position.
LEMMA RunEnds ==
    ASSUME NEW text, NEW kind, NEW p \in Int, NEW last \in Int, p <= last + 1
    PROVE  RunEnd(text, kind, p, last) \in p - 1..last
    <1> DEFINE S == {p - 1} \cup {k \in p..last : \A i \in p..k : text[i] \in kind}
    <1>1. S \in SUBSET (p - 1..last) /\ S # {}
        OBVIOUS
    <1>2. RunEnd(text, kind, p, last) = Max(S)
        BY DEF RunEnd
    <1> HIDE DEF S
    <1>3. p - 1 \in Int
        OBVIOUS
    <1>4. Max(S) \in S
        BY <1>1, <1>3, Extremes, Zenon
    <1> QED
        BY <1>1, <1>2, <1>4

\* The sentences of a part are in order.
LEMMA SentencesInOrder ==
    ASSUME NEW text, NEW u \in Parts, u.from <= u.to
    PROVE  InOrder(SplitSentences(text, u), u.from, u.to)
    <1> DEFINE lo == u.from
               hi == u.to
               words(p) == RunEnd(text, Characters \ Terminators, p, hi)
               stop(p) == RunEnd(text, Terminators, words(p) + 1, hi)
               space(p) == RunEnd(text, White, stop(p) + 1, hi)
               matches(p) == words(p) >= p /\ (stop(p) = hi \/ (stop(p) > words(p) /\ space(p) > stop(p)))
               Body(f, p) == IF p > hi THEN <<>>
                             ELSE IF matches(p) THEN Trimmed(text, p..space(p)) \o f[space(p) + 1]
                             ELSE f[p + 1]
               Splits(f) == f = [p \in lo..hi + 1 |-> Body(f, p)]
               sentences == CHOOSE f : Splits(f)
               head == [p \in lo..hi |-> IF matches(p) THEN Trimmed(text, p..space(p)) ELSE <<>>]
               next == [p \in lo..hi |-> IF matches(p) THEN space(p) + 1 ELSE p + 1]
    <1>1. lo \in Int /\ hi \in Int /\ lo <= hi + 1
        BY DEF Parts
    <1>2. SplitSentences(text, u) = IF sentences[lo] = <<>> THEN <<u>> ELSE sentences[lo]
        BY DEF SplitSentences
    <1> HIDE DEF lo, hi
    <1>3. ASSUME NEW p \in lo..hi
          PROVE  /\ head[p] \in Seq(Parts) /\ next[p] \in p + 1..hi + 1
                 /\ matches(p) => /\ head[p] = Trimmed(text, p..space(p))
                                  /\ next[p] = space(p) + 1
                                  /\ InOrder(head[p], p, space(p)) /\ space(p) \in Int
                 /\ ~matches(p) => head[p] = <<>> /\ next[p] = p + 1
        <2>1. p \in Int /\ p <= hi
            BY <1>1
        <2>2. words(p) \in p - 1..hi
            BY <1>1, <2>1, RunEnds
        <2> HIDE DEF words
        <2>3. stop(p) \in words(p)..hi
            <3>1. PICK after : after = words(p) + 1
                OBVIOUS
            <3>2. after \in Int /\ after <= hi + 1 /\ after - 1 = words(p)
                BY <1>1, <2>1, <2>2, <3>1
            <3>3. stop(p) \in after - 1..hi
                BY <1>1, <3>1, <3>2, RunEnds
            <3> QED
                BY <3>2, <3>3
        <2> HIDE DEF stop
        <2>4. space(p) \in stop(p)..hi
            <3>1. PICK after : after = stop(p) + 1
                OBVIOUS
            <3>2. after \in Int /\ after <= hi + 1 /\ after - 1 = stop(p)
                BY <1>1, <2>1, <2>2, <2>3, <3>1
            <3>3. space(p) \in after - 1..hi
                BY <1>1, <3>1, <3>2, RunEnds
            <3> QED
                BY <3>2, <3>3
        <2> HIDE DEF space
        <2>5. InOrder(Trimmed(text, p..space(p)), p, space(p))
            <3>1. space(p) \in Int
                BY <1>1, <2>1, <2>2, <2>3, <2>4
            <3>2. p..space(p) \in SUBSET (p..space(p))
                OBVIOUS
            <3> QED
                BY <2>1, <3>1, <3>2, TrimmedInOrder, Zenon
        <2>6. matches(p) => space(p) + 1 \in p + 1..hi + 1
            BY <1>1, <2>1, <2>2, <2>3, <2>4
        <2>7. p + 1 \in p + 1..hi + 1
            BY <1>1, <2>1
        <2> HIDE DEF matches
        <2>8. Trimmed(text, p..space(p)) \in Seq(Parts)
            BY <2>5 DEF InOrder
        <2>9. space(p) \in Int
            BY <1>1, <2>1, <2>2, <2>3, <2>4
        <2> QED
            BY <2>5, <2>6, <2>7, <2>8, <2>9
    <1> HIDE DEF words, stop, space, matches, head, next
    <1>4. \E f : Splits(f)
        <2>1. PICK f : Follows(f, head, next, Parts, lo, hi)
            <3>1. Advances(head, next, Parts, lo, hi)
                BY <1>3 DEF Advances
            <3> QED
                BY <1>1, <3>1, DescentExists
        <2> USE DEF Follows
        <2>2. ASSUME NEW p \in lo..hi + 1
              PROVE  f[p] = Body(f, p)
            <3>1. CASE p > hi
                <4>1. p = hi + 1
                    BY <1>1, <3>1
                <4> QED
                    BY <2>1, <3>1, <4>1
            <3>2. CASE ~(p > hi)
                <4>1. p \in lo..hi
                    BY <1>1, <3>2
                <4>2. f[p] = head[p] \o f[next[p]]
                    BY <2>1, <4>1
                <4>3. next[p] \in lo..hi + 1
                    BY <1>1, <1>3, <4>1
                <4>4. f[next[p]] \in Seq(Parts)
                    BY <2>1, <4>3
                <4>5. <<>> \o f[next[p]] = f[next[p]]
                    BY <4>4
                <4> QED
                    BY <1>3, <3>2, <4>1, <4>2, <4>5
            <3> QED
                BY <3>1, <3>2
        <2> HIDE DEF Body
        <2> QED
            BY <2>1, <2>2
    <1>5. Splits(sentences)
        <2> HIDE DEF Splits
        <2> QED
            BY <1>4
    <1> HIDE DEF sentences
    <1> DEFINE P == {p \in Int : InOrder(sentences[p], p, hi)}
    <1>6. \A p \in lo..hi + 1 : (\A k \in p + 1..hi + 1 : k \in P) => p \in P
        <2> SUFFICES ASSUME NEW p \in lo..hi + 1, \A k \in p + 1..hi + 1 : k \in P
                     PROVE  p \in P
            OBVIOUS
        <2>1. p \in Int
            BY <1>1
        <2>2. sentences[p] = Body(sentences, p)
            <3> HIDE DEF Body
            <3> QED
                BY <1>5
        <2>3. CASE p > hi
            <3>1. sentences[p] = <<>>
                BY <2>2, <2>3
            <3>2. InOrder(sentences[p], p, hi)
                BY <1>1, <2>1, <3>1, FewInOrder
            <3> QED
                BY <2>1, <3>2
        <2>4. CASE ~(p > hi)
            <3>1. p \in lo..hi
                BY <1>1, <2>4
            <3>2. next[p] \in p + 1..hi + 1 /\ head[p] \in Seq(Parts)
                BY <1>3, <3>1
            <3>3. InOrder(sentences[next[p]], next[p], hi)
                BY <3>2
            <3>4. next[p] \in Int /\ p <= next[p] /\ next[p] - 1 <= hi /\ next[p] - 1 \in Int
                BY <1>1, <2>1, <3>2
            <3>5. CASE matches(p)
                <4>1. /\ sentences[p] = head[p] \o sentences[next[p]]
                      /\ InOrder(head[p], p, space(p)) /\ next[p] = space(p) + 1
                    BY <1>3, <2>2, <2>4, <3>1, <3>5
                <4>2. PICK mid : mid = next[p] - 1
                    OBVIOUS
                <4>3. InOrder(head[p], p, mid)
                    <5>1. mid = space(p)
                        BY <1>3, <3>1, <3>5, <4>1, <4>2
                    <5> QED
                        BY <4>1, <5>1
                <4>4. mid \in Int /\ mid + 1 = next[p] /\ p <= mid + 1 /\ mid <= hi
                    BY <3>4, <4>2
                <4>5. InOrder(sentences[next[p]], mid + 1, hi)
                    BY <3>3, <4>4
                <4>6. InOrder(head[p] \o sentences[next[p]], p, hi)
                    BY <1>1, <2>1, <4>3, <4>4, <4>5, OneAfterTheOther
                <4> QED
                    BY <2>1, <4>1, <4>6
            <3>6. CASE ~matches(p)
                <4>1. sentences[p] = sentences[next[p]]
                    BY <1>3, <2>2, <2>4, <3>1, <3>6
                <4>2. InOrder(sentences[next[p]], p, hi)
                    <5>1. hi <= hi
                        BY <1>1
                    <5> QED
                        BY <1>1, <2>1, <3>3, <3>4, <5>1, WiderInOrder
                <4> QED
                    BY <2>1, <4>1, <4>2
            <3> QED
                BY <3>5, <3>6
        <2> QED
            BY <2>3, <2>4
    <1>7. \A p \in lo..hi + 1 : p \in P
        <2>1. hi + 1 \in Int
            BY <1>1
        <2> HIDE DEF P
        <2> QED
            BY <1>1, <1>6, <2>1, Downwards
    <1>8. InOrder(sentences[lo], lo, hi)
        BY <1>1, <1>7
    <1>9. InOrder(<<u>>, lo, hi)
        <2>1. lo <= u.from /\ u.from <= u.to /\ u.to <= hi
            BY <1>1 DEF lo, hi
        <2> QED
            BY <1>1, <2>1, FewInOrder
    <1> QED
        BY <1>2, <1>8, <1>9 DEF lo, hi

\* A multiple is no greater than a later one, and that before it is less by one.
LEMMA Multiples ==
    ASSUME NEW n \in Int, NEW m \in Int, NEW x \in Int, n <= m, x >= 0
    PROVE  n * x <= m * x /\ n * x \in Int /\ (n - 1) * x = n * x - x
    <1>1. PICK k \in Int : m = n + k /\ k >= 0
        <2>1. m - n \in Int /\ m = n + (m - n) /\ m - n >= 0
            OBVIOUS
        <2> QED
            BY <2>1
    <1>2. m * x = n * x + k * x /\ k * x >= 0
        BY <1>1
    <1>3. n * x \in Int /\ k * x \in Int /\ (n - 1) * x = n * x - x
        OBVIOUS
    <1> QED
        BY <1>2, <1>3

\* The quotient is a multiple that is not past the number.
LEMMA Quotients ==
    ASSUME NEW a \in Int, NEW x \in Int, a >= 0, x > 0
    PROVE  a \div x \in Nat /\ (a \div x) * x <= a
    BY SMTT(30)

\* The lesser of two numbers.
LEMMA MinOfTwo ==
    ASSUME NEW x \in Int, NEW y \in Int
    PROVE  Min({x, y}) \in {x, y} /\ Min({x, y}) <= x /\ Min({x, y}) <= y
    <1>1. \E z \in {x, y} : \A w \in {x, y} : z <= w
        OBVIOUS
    <1> QED
        BY <1>1 DEF Min

\* What is split by the number of characters is in order and fits.
LEMMA HardSplitInOrder ==
    ASSUME NEW u \in Parts, Oversized(u)
    PROVE  InOrder(HardSplit(u), u.from, u.to) /\ HardSplit(u) \in Seq(Fitting)
    <1> DEFINE M == MaxChunkChars
               count == (Size(u) + M - 1) \div M
               from(n) == u.from + (n - 1) * M
               to(n) == Min({u.to, u.from + n * M - 1})
    <1>1. u.from \in Int /\ u.to \in Int /\ M \in Int /\ M > 0
        BY ChunkingAssumption DEF Parts
    <1>2. Size(u) = u.to - u.from + 1 /\ Size(u) > M
        BY DEF Size, Oversized
    <1>3. HardSplit(u) = [n \in 1..count |-> [from |-> from(n), to |-> to(n)]]
        BY DEF HardSplit
    <1>4. count \in Nat /\ count * M <= Size(u) + M - 1
        <2>1. Size(u) + M - 1 \in Int /\ Size(u) + M - 1 >= 0
            BY <1>1, <1>2
        <2> HIDE DEF M
        <2> QED
            BY <1>1, <2>1, Quotients
    <1> HIDE DEF M, count
    <1>5. ASSUME NEW n \in 1..count
          PROVE  /\ from(n) \in Int /\ to(n) \in Int /\ u.from <= from(n)
                 /\ from(n) <= to(n) /\ to(n) <= u.to /\ to(n) <= from(n) + M - 1
                 /\ \A m \in 1..count : n < m => to(n) < from(m)
        <2>1. n \in Int /\ 1 <= n /\ n <= count
            BY <1>4
        <2>2. /\ 1 * M <= n * M /\ 1 * M = M
              /\ n * M <= count * M
              /\ n * M \in Int /\ count * M \in Int /\ (n - 1) * M = n * M - M
            <3>1. 1 * M = M /\ count \in Int /\ M >= 0
                BY <1>1, <1>4
            <3>2. 1 * M <= n * M
                BY <1>1, <2>1, <3>1, Multiples
            <3>3. n * M <= count * M /\ n * M \in Int /\ (n - 1) * M = n * M - M
                BY <1>1, <2>1, <3>1, Multiples
            <3>4. count * M \in Int
                BY <1>1, <3>1
            <3> QED
                BY <3>1, <3>2, <3>3, <3>4
        <2>3. PICK x \in Int : x = n * M
            BY <2>2
        <2>4. from(n) = u.from + x - M
            BY <1>1, <2>2, <2>3
        <2>5. x >= M /\ x <= u.to - u.from + M
            BY <1>1, <1>2, <1>4, <2>2, <2>3
        <2>6. to(n) \in {u.to, u.from + x - 1} /\ to(n) <= u.to /\ to(n) <= u.from + x - 1
            <3>1. u.from + x - 1 \in Int
                BY <1>1
            <3> QED
                BY <1>1, <2>3, <3>1, MinOfTwo
        <2> HIDE DEF from, to
        <2>7. to(n) \in Int /\ from(n) \in Int
            BY <1>1, <2>4, <2>6
        <2>8. u.from <= from(n) /\ from(n) <= to(n) /\ to(n) <= from(n) + M - 1
            BY <1>1, <2>4, <2>5, <2>6, <2>7
        <2>9. ASSUME NEW m \in 1..count, n < m
              PROVE  to(n) < from(m)
            <3>1. m \in Int /\ m - 1 \in Int /\ n <= m - 1
                BY <1>4, <2>1, <2>9
            <3>2. n * M <= (m - 1) * M /\ (m - 1) * M \in Int
                <4>1. M >= 0
                    BY <1>1
                <4>2. n * M <= (m - 1) * M
                    BY <1>1, <2>1, <3>1, <4>1, Multiples
                <4> QED
                    BY <1>1, <3>1, <4>2
            <3>3. PICK y \in Int : y = (m - 1) * M
                BY <3>2
            <3>4. from(m) = u.from + y
                BY <3>3 DEF from
            <3>5. x <= y
                BY <2>3, <3>2, <3>3
            <3> QED
                BY <1>1, <2>6, <2>7, <3>4, <3>5
        <2> QED
            BY <2>6, <2>7, <2>8, <2>9
    <1> HIDE DEF from, to
    <1>6. PICK s : s = HardSplit(u)
        OBVIOUS
    <1>7. DOMAIN s = 1..count /\ \A n \in 1..count : s[n] = [from |-> from(n), to |-> to(n)]
        BY <1>3, <1>6
    <1>8. ASSUME NEW n \in 1..count
          PROVE  s[n] \in Fitting /\ s[n].from = from(n) /\ s[n].to = to(n)
        <2>1. s[n].from = from(n) /\ s[n].to = to(n) /\ s[n] \in Parts
            BY <1>5, <1>7 DEF Parts
        <2>2. Size(s[n]) <= M
            BY <1>1, <1>5, <2>1 DEF Size
        <2> QED
            BY <2>1, <2>2 DEF Fitting, M
    <1>9. s \in Seq(Fitting) /\ Len(s) = count
        <2>1. s = [n \in 1..count |-> s[n]]
            BY <1>3, <1>6
        <2> QED
            BY <1>4, <1>8, <2>1
    <1>10. s \in Seq(Parts)
        BY <1>9 DEF Fitting
    <1>11. InOrder(s, u.from, u.to)
        BY <1>5, <1>8, <1>9, <1>10 DEF InOrder
    <1> QED
        BY <1>6, <1>9, <1>11

\* A unit in order, or the units that it is split into.
LEMMA OneUnit ==
    ASSUME NEW u \in Parts, u.from <= u.to
    PROVE  /\ InOrder(<<u>>, u.from, u.to) /\ <<u>> \in Seq(Parts)
           /\ ~Oversized(u) => <<u>> \in Seq(Fitting)
    <1>1. u.from \in Int /\ u.to \in Int /\ u.from <= u.from /\ u.to <= u.to
        BY DEF Parts
    <1>2. InOrder(<<u>>, u.from, u.to)
        BY <1>1, FewInOrder
    <1>3. ~Oversized(u) => u \in Fitting
        BY <1>1, ChunkingAssumption DEF Oversized, Size, Fitting
    <1> QED
        BY <1>2, <1>3

\* A list of lists that is made from a list in order, each from its part.
LEMMA CutInOrder ==
    ASSUME NEW lo \in Int, NEW hi \in Int, NEW wholes, InOrder(wholes, lo, hi),
           NEW seqs, seqs = [n \in DOMAIN wholes |-> seqs[n]],
           \A n \in DOMAIN wholes : /\ InOrder(seqs[n], wholes[n].from, wholes[n].to)
                                    /\ seqs[n] \in Seq(Fitting)
    PROVE  /\ InOrder(FlattenSeq(seqs), lo, hi) /\ FlattenSeq(seqs) \in Seq(Fitting)
           /\ seqs \in Seq(Seq(Fitting)) /\ Len(seqs) = Len(wholes)
    <1>1. wholes \in Seq(Parts)
        BY DEF InOrder
    <1>2. DOMAIN wholes = 1..Len(wholes) /\ Len(wholes) \in Nat
        BY <1>1
    <1>3. seqs \in Seq(Seq(Fitting)) /\ Len(seqs) = Len(wholes)
        BY <1>2
    <1>4. \A n \in 1..Len(seqs) : seqs[n] \in Seq(Parts)
        BY <1>2, <1>3 DEF InOrder
    <1>5. seqs \in Seq(Seq(Parts))
        <2>1. seqs = [n \in 1..Len(wholes) |-> seqs[n]]
            BY <1>2
        <2> QED
            BY <1>2, <1>3, <1>4, <2>1
    <1>6. \A n \in 1..Len(wholes) : InOrder(seqs[n], wholes[n].from, wholes[n].to)
        BY <1>2
    <1>7. InOrder(FlattenSeq(seqs), lo, hi)
        BY <1>3, <1>5, <1>6, FlatInOrder
    <1>8. FlattenSeq(seqs) \in Seq(Fitting)
        BY <1>3, FlatIsSequence
    <1> QED
        BY <1>3, <1>7, <1>8

\* A part that is too long is split into parts in order that fit.
LEMMA SplitInOrder ==
    ASSUME NEW text, NEW u \in Parts, Oversized(u)
    PROVE  /\ InOrder(SplitOversizedUnit(text, u), u.from, u.to)
           /\ SplitOversizedUnit(text, u) \in Seq(Fitting)
    <1> DEFINE sentences == SplitSentences(text, u)
               Cut(n) == IF Oversized(sentences[n]) THEN HardSplit(sentences[n])
                         ELSE <<sentences[n]>>
               seqs == [n \in DOMAIN sentences |-> Cut(n)]
    <1>1. u.from \in Int /\ u.to \in Int /\ u.from <= u.to
        BY ChunkingAssumption DEF Parts, Oversized, Size
    <1>2. InOrder(sentences, u.from, u.to)
        BY <1>1, SentencesInOrder
    <1>3. SplitOversizedUnit(text, u) = FlattenSeq(seqs)
        BY DEF SplitOversizedUnit
    <1> HIDE DEF sentences
    <1>4. ASSUME NEW n \in DOMAIN sentences
          PROVE  InOrder(Cut(n), sentences[n].from, sentences[n].to) /\ Cut(n) \in Seq(Fitting)
        <2>1. sentences \in Seq(Parts)
            BY <1>2 DEF InOrder
        <2>2. n \in 1..Len(sentences) /\ sentences[n] \in Parts
            BY <2>1
        <2>3. sentences[n].from <= sentences[n].to
            BY <1>2, <2>2 DEF InOrder
        <2>4. CASE Oversized(sentences[n])
            BY <2>2, <2>4, HardSplitInOrder
        <2>5. CASE ~Oversized(sentences[n])
            BY <2>2, <2>3, <2>5, OneUnit
        <2> QED
            BY <2>4, <2>5
    <1> HIDE DEF Cut
    <1>5. /\ seqs = [n \in DOMAIN sentences |-> seqs[n]]
          /\ \A n \in DOMAIN sentences : seqs[n] = Cut(n)
        OBVIOUS
    <1>6. \A n \in DOMAIN sentences : /\ InOrder(seqs[n], sentences[n].from, sentences[n].to)
                                      /\ seqs[n] \in Seq(Fitting)
        BY <1>4, <1>5
    <1> HIDE DEF seqs
    <1> QED
        BY <1>1, <1>2, <1>3, <1>5, <1>6, CutInOrder

\* The units of a text are in order and fit, and a paragraph that fits is one.
LEMMA UnitsInOrder ==
    ASSUME NEW text \in Seq(Characters)
    PROVE  /\ InOrder(Units(text), 1, Len(text)) /\ Units(text) \in Seq(Fitting)
           /\ \A k \in DOMAIN SplitParagraphs(text) :
                  LET u == SplitParagraphs(text)[k]
                  IN  /\ u \in Parts
                      /\ ~Oversized(u) => \E m \in 1..Len(Units(text)) : Units(text)[m] = u
    <1> DEFINE paragraphs == SplitParagraphs(text)
               Cut(n) == IF Oversized(paragraphs[n]) THEN SplitOversizedUnit(text, paragraphs[n])
                         ELSE <<paragraphs[n]>>
               seqs == [n \in DOMAIN paragraphs |-> Cut(n)]
    <1>1. InOrder(paragraphs, 1, Len(text)) /\ 1 \in Int /\ Len(text) \in Int
        BY ParagraphsInOrder
    <1>2. Units(text) = FlattenSeq(seqs)
        BY DEF Units
    <1> HIDE DEF paragraphs
    <1>3. paragraphs \in Seq(Parts)
        BY <1>1 DEF InOrder
    <1>4. ASSUME NEW n \in DOMAIN paragraphs
          PROVE  /\ paragraphs[n] \in Parts
                 /\ InOrder(Cut(n), paragraphs[n].from, paragraphs[n].to) /\ Cut(n) \in Seq(Fitting)
        <2>1. n \in 1..Len(paragraphs) /\ paragraphs[n] \in Parts
            BY <1>3
        <2>2. paragraphs[n].from <= paragraphs[n].to
            BY <1>1, <2>1 DEF InOrder
        <2>3. CASE Oversized(paragraphs[n])
            BY <2>1, <2>3, SplitInOrder
        <2>4. CASE ~Oversized(paragraphs[n])
            BY <2>1, <2>2, <2>4, OneUnit
        <2> QED
            BY <2>1, <2>3, <2>4
    <1>5. \A n \in DOMAIN paragraphs : ~Oversized(paragraphs[n]) => Cut(n) = <<paragraphs[n]>>
        OBVIOUS
    <1> HIDE DEF Cut
    <1>6. /\ seqs = [n \in DOMAIN paragraphs |-> seqs[n]]
          /\ \A n \in DOMAIN paragraphs : seqs[n] = Cut(n)
        OBVIOUS
    <1>7. \A n \in DOMAIN paragraphs : /\ InOrder(seqs[n], paragraphs[n].from, paragraphs[n].to)
                                       /\ seqs[n] \in Seq(Fitting)
        BY <1>4, <1>6
    <1> HIDE DEF seqs
    <1>8. /\ InOrder(FlattenSeq(seqs), 1, Len(text)) /\ FlattenSeq(seqs) \in Seq(Fitting)
          /\ seqs \in Seq(Seq(Fitting)) /\ Len(seqs) = Len(paragraphs)
        <2>1. PICK lo \in Int, hi \in Int : lo = 1 /\ hi = Len(text)
            BY <1>1
        <2>2. InOrder(paragraphs, lo, hi)
            BY <1>1, <2>1
        <2>3. InOrder(FlattenSeq(seqs), lo, hi)
            BY <1>6, <1>7, <2>2, CutInOrder
        <2>4. /\ FlattenSeq(seqs) \in Seq(Fitting)
              /\ seqs \in Seq(Seq(Fitting)) /\ Len(seqs) = Len(paragraphs)
            BY <1>6, <1>7, <2>2, CutInOrder
        <2> QED
            BY <2>1, <2>3, <2>4
    <1>9. ASSUME NEW k \in DOMAIN paragraphs, ~Oversized(paragraphs[k])
          PROVE  \E m \in 1..Len(FlattenSeq(seqs)) : FlattenSeq(seqs)[m] = paragraphs[k]
        <2>1. seqs[k] = <<paragraphs[k]>> /\ k \in 1..Len(seqs)
            BY <1>3, <1>5, <1>6, <1>8, <1>9
        <2>2. PICK one \in 1..Len(seqs[k]) : seqs[k][one] = paragraphs[k]
            <3>1. 1 \in 1..Len(seqs[k]) /\ seqs[k][1] = paragraphs[k]
                BY <2>1
            <3> QED
                BY <3>1
        <2> QED
            <3>1. \E m \in 1..Len(FlattenSeq(seqs)) : FlattenSeq(seqs)[m] = seqs[k][one]
                BY <1>8, <2>1, <2>2, FlatHoldsAll
            <3> QED
                BY <2>2, <3>1
    <1> QED
        BY <1>2, <1>4, <1>8, <1>9 DEF paragraphs

\* A chunk has one unit at least, and the next one begins after its first.
LEMMA PackingMovesOn ==
    ASSUME NEW units \in Seq(Parts), NEW i \in 1..Len(units)
    PROVE  /\ Filled(units, i) \in i + 1..Len(units) + 1
           /\ NextStart(units, i, Filled(units, i)) \in i + 1..Filled(units, i)
    <1> DEFINE N == Len(units)
               j == Filled(units, i)
               A == {i + 1} \cup {n \in i + 1..N + 1 : Joined(units, i, n) <= MaxChunkChars}
               B == {i} \cup {n \in i..j : Total(units, n..j - 1) >= OverlapChars}
    <1>1. N \in Nat /\ i \in Int /\ i <= N
        OBVIOUS
    <1>2. j = Max(A)
        BY DEF Filled
    <1>3. j \in i + 1..N + 1
        <2>1. A \in SUBSET (i + 1..N + 1) /\ A # {} /\ i + 1 \in Int /\ N + 1 \in Int
            BY <1>1
        <2> HIDE DEF A, j
        <2>2. Max(A) \in A
            BY <2>1, Extremes, Zenon
        <2> QED
            BY <1>2, <2>1, <2>2
    <1>4. Max(B) \in i..j
        <2> HIDE DEF j
        <2>1. B \in SUBSET (i..j) /\ B # {} /\ j \in Int
            BY <1>1, <1>3
        <2> HIDE DEF B
        <2>2. Max(B) \in B
            BY <1>1, <2>1, Extremes, Zenon
        <2> QED
            BY <2>1, <2>2
    <1>5. NextStart(units, i, j) = Max({Max(B), i + 1})
        BY DEF NextStart
    <1> HIDE DEF N, j, B
    <1>6. Max({Max(B), i + 1}) \in i + 1..j
        <2>1. PICK k \in i..j : k = Max(B)
            BY <1>4
        <2>2. k \in Int /\ i + 1 \in Int /\ j \in Int
            BY <1>1, <1>3
        <2>3. \E z \in {k, i + 1} : \A w \in {k, i + 1} : z >= w
            BY <2>2
        <2>4. Max({k, i + 1}) \in {k, i + 1} /\ Max({k, i + 1}) >= i + 1
            BY <2>3 DEF Max
        <2> QED
            BY <1>1, <1>3, <2>1, <2>2, <2>4
    <1> QED
        BY <1>3, <1>5, <1>6 DEF N, j

\* The sum over one unit is its size.
LEMMA TotalOfOne ==
    ASSUME NEW units \in Seq(Parts), NEW i \in 1..Len(units)
    PROVE  Total(units, {i}) = Size(units[i]) /\ Size(units[i]) \in Int
    <1>1. Size(units[i]) \in Int
        BY PartEnds DEF Size
    <1> DEFINE pick(s) == CHOOSE x \in s : TRUE
               Sums(f) == f = [s \in SUBSET {i} |->
                                  IF s = {} THEN 0 ELSE Size(units[pick(s)]) + f[s \ {pick(s)}]]
               sums == CHOOSE f : Sums(f)
    <1>2. Total(units, {i}) = sums[{i}]
        BY DEF Total, MapThenSumSet, MapThenFoldSet
    <1>3. pick({i}) = i /\ {i} \ {i} = {}
        OBVIOUS
    <1>4. \E f : Sums(f)
        <2> DEFINE f == [s \in SUBSET {i} |-> IF s = {} THEN 0 ELSE Size(units[i])]
        <2>1. f[{}] = 0
            OBVIOUS
        <2>2. ASSUME NEW s \in SUBSET {i}, s # {}
              PROVE  pick(s) = i /\ s \ {pick(s)} = {}
            <3>1. s = {i}
                BY <2>2
            <3> QED
                BY <1>3, <3>1
        <2> HIDE DEF pick
        <2>3. ASSUME NEW s \in SUBSET {i}
              PROVE  f[s] = IF s = {} THEN 0 ELSE Size(units[pick(s)]) + f[s \ {pick(s)}]
            <3>1. CASE s = {}
                BY <2>1, <3>1
            <3>2. CASE s # {}
                <4>1. f[s] = Size(units[i]) /\ f[s \ {pick(s)}] = 0
                    BY <2>1, <2>2, <3>2
                <4>2. Size(units[pick(s)]) = Size(units[i])
                    BY <2>2, <3>2
                <4>3. \A x \in Int : x = x + 0
                    OBVIOUS
                <4>4. f[s] = Size(units[pick(s)]) + f[s \ {pick(s)}]
                    BY <1>1, <4>1, <4>2, <4>3, Zenon
                <4> QED
                    BY <3>2, <4>4, Zenon
            <3> QED
                BY <3>1, <3>2
        <2> QED
            BY <2>3
    <1>5. Sums(sums)
        <2> HIDE DEF Sums
        <2> QED
            BY <1>4
    <1> HIDE DEF sums
    <1>6. sums[{}] = 0
        BY <1>5
    <1>7. sums[{i}] = Size(units[i]) + sums[{}]
        BY <1>3, <1>5
    <1> QED
        BY <1>1, <1>2, <1>6, <1>7

\* What there is in the list of chunks.
Chunk(units, i) ==
    [chars |-> UNION {units[k].from..units[k].to : k \in i..Filled(units, i) - 1},
     length |-> Total(units, i..Filled(units, i) - 1) + 2 * (Filled(units, i) - 1 - i)]
ChunksFrom(units) == {Chunk(units, i) : i \in 1..Len(units)}

\* A chunk is not too long.
LEMMA ChunkFits ==
    ASSUME NEW units \in Seq(Fitting), NEW i \in 1..Len(units)
    PROVE  Chunk(units, i).length <= MaxChunkChars
    <1> DEFINE N == Len(units)
               j == Filled(units, i)
               A == {n \in i + 1..N + 1 : Joined(units, i, n) <= MaxChunkChars}
    <1>1. units \in Seq(Parts) /\ i \in Int /\ N \in Nat
        BY DEF Fitting
    <1>2. j = Max({i + 1} \cup A) /\ Chunk(units, i).length = Joined(units, i, j)
        BY DEF Filled, Chunk, Joined
    <1>3. j \in {i + 1} \cup A
        <2> DEFINE B == {i + 1} \cup A
        <2>1. B \in SUBSET (i + 1..N + 1) /\ B # {} /\ i + 1 \in Int /\ N + 1 \in Int
            BY <1>1
        <2> HIDE DEF B, j
        <2>2. Max(B) \in B
            BY <2>1, Extremes, Zenon
        <2> QED
            BY <1>2, <2>2 DEF B
    <1> HIDE DEF j, N
    <1>4. CASE j \in A
        BY <1>2, <1>4
    <1>5. CASE j = i + 1
        <2>1. i..j - 1 = {i} /\ j - 1 - i = 0
            BY <1>1, <1>5
        <2>2. Total(units, {i}) = Size(units[i]) /\ Size(units[i]) \in Int
            BY <1>1, TotalOfOne
        <2>3. Joined(units, i, j) = Size(units[i])
            <3>1. Joined(units, i, j) = Total(units, i..j - 1) + 2 * (j - 1 - i)
                BY DEF Joined
            <3>2. Joined(units, i, j) = Size(units[i]) + 2 * 0
                BY <2>1, <2>2, <3>1, Zenon
            <3> QED
                BY <2>2, <3>2
        <2>4. Size(units[i]) <= MaxChunkChars
            <3>1. units[i] \in Fitting
                OBVIOUS
            <3> QED
                BY <3>1 DEF Fitting
        <2> QED
            BY <1>2, <2>3, <2>4
    <1> QED
        BY <1>3, <1>4, <1>5

\* A chunk begins where its first unit does.
LEMMA ChunkBegins ==
    ASSUME NEW units, NEW lo, NEW hi, InOrder(units, lo, hi), NEW i \in 1..Len(units)
    PROVE  Min(Chunk(units, i).chars) = units[i].from
    <1> DEFINE N == Len(units)
               j == Filled(units, i)
               S == UNION {units[k].from..units[k].to : k \in i..j - 1}
    <1>1. units \in Seq(Parts) /\ i \in Int /\ N \in Nat
        BY DEF InOrder
    <1>2. j \in i + 1..N + 1
        BY <1>1, PackingMovesOn
    <1>3. Chunk(units, i).chars = S
        BY DEF Chunk
    <1>4. \A k \in 1..N : units[k].from \in Int /\ units[k].to \in Int /\ units[k].from <= units[k].to
        <2>1. \A k \in 1..N : units[k].from \in Int /\ units[k].to \in Int
            BY <1>1, PartEnds
        <2> QED
            BY <2>1 DEF InOrder
    <1> HIDE DEF j
    <1>5. units[i].from \in S
        <2>1. i \in i..j - 1 /\ units[i].from \in units[i].from..units[i].to
            BY <1>1, <1>2, <1>4
        <2> QED
            BY <2>1
    <1>6. ASSUME NEW x \in S
          PROVE  x \in Int /\ units[i].from <= x
        <2>1. PICK k \in i..j - 1 : x \in units[k].from..units[k].to
            OBVIOUS
        <2>2. k \in 1..N /\ (k = i \/ i < k)
            BY <1>1, <1>2
        <2>3. units[k].from <= x /\ x \in Int /\ units[k].from \in Int /\ units[i].from \in Int
            BY <1>4, <2>1, <2>2
        <2>4. CASE k = i
            BY <2>3, <2>4
        <2>5. CASE i < k
            <3>1. units[i].to < units[k].from
                BY <2>2, <2>5 DEF InOrder
            <3>2. units[i].from <= units[i].to /\ units[i].to \in Int
                BY <1>4
            <3> QED
                BY <2>3, <3>1, <3>2
        <2> QED
            BY <2>2, <2>4, <2>5
    <1> HIDE DEF S
    <1>7. Min(S) \in S /\ \A y \in S : Min(S) <= y
        <2>1. \E x \in S : \A y \in S : x <= y
            BY <1>5, <1>6
        <2> QED
            BY <2>1 DEF Min
    <1>8. Min(S) <= units[i].from /\ units[i].from <= Min(S) /\ Min(S) \in Int /\ units[i].from \in Int
        BY <1>4, <1>5, <1>6, <1>7
    <1> QED
        BY <1>3, <1>8

\* A list of chunks that begins with unit i and has every unit from there on,
\* each chunk at a later unit than the one before.
Packed(list, units, i) ==
    /\ list \in Seq(ChunksFrom(units)) /\ Len(list) > 0
    /\ list[1] = Chunk(units, i)
    /\ \A n \in 2..Len(list) : \E a, b \in 1..Len(units) :
           a < b /\ list[n-1] = Chunk(units, a) /\ list[n] = Chunk(units, b)
    /\ \A m \in i..Len(units) : \E n \in 1..Len(list), a \in 1..Len(units) :
           list[n] = Chunk(units, a) /\ m \in a..Filled(units, a) - 1

\* A chunk that has all units from its first on, and one before such a list.
LEMMA PackedBefore ==
    ASSUME NEW units \in Seq(Parts), NEW i \in 1..Len(units)
    PROVE  /\ Filled(units, i) > Len(units) => Packed(<<Chunk(units, i)>>, units, i)
           /\ \A k \in i + 1..Filled(units, i) : \A rest :
                  k <= Len(units) /\ Packed(rest, units, k)
                      => Packed(<<Chunk(units, i)>> \o rest, units, i)
    <1> DEFINE N == Len(units)
               j == Filled(units, i)
    <1>1. N \in Nat /\ i \in Int /\ i <= N /\ j \in i + 1..N + 1
        BY PackingMovesOn
    <1> PICK c : c = Chunk(units, i)
        OBVIOUS
    <1>2. c \in ChunksFrom(units)
        BY DEF ChunksFrom
    <1> HIDE DEF j
    <1>3. ASSUME j > N
          PROVE  Packed(<<c>>, units, i)
        <2>1. <<c>> \in Seq(ChunksFrom(units)) /\ Len(<<c>>) = 1 /\ <<c>>[1] = c
            BY <1>2
        <2>2. ASSUME NEW m \in i..N
              PROVE  <<c>>[1] = Chunk(units, i) /\ m \in i..j - 1
            BY <1>1, <1>3
        <2>3. \A n \in 2..Len(<<c>>) : FALSE
            BY <2>1
        <2>4. 1 \in 1..Len(<<c>>)
            BY <2>1
        <2> QED
            BY <2>1, <2>2, <2>3, <2>4 DEF Packed, j
    <1>4. ASSUME NEW k \in i + 1..j, NEW rest, k <= N, Packed(rest, units, k)
          PROVE  Packed(<<c>> \o rest, units, i)
        <2> PICK all : all = <<c>> \o rest
            OBVIOUS
        <2>1. rest \in Seq(ChunksFrom(units)) /\ Len(rest) \in Nat /\ Len(rest) > 0
            BY <1>4 DEF Packed
        <2>2. /\ all \in Seq(ChunksFrom(units)) /\ Len(all) = Len(rest) + 1
              /\ all[1] = c /\ \A n \in 1..Len(rest) : all[n + 1] = rest[n]
            BY <1>2, <2>1
        <2>3. k \in 1..N /\ i < k /\ rest[1] = Chunk(units, k)
            BY <1>1, <1>4 DEF Packed
        <2>4. ASSUME NEW n \in 2..Len(all)
              PROVE  \E a, b \in 1..N :
                         a < b /\ all[n-1] = Chunk(units, a) /\ all[n] = Chunk(units, b)
            <3>1. CASE n = 2
                <4>1. n-1 = 1 /\ all[2] = rest[1]
                    <5>1. 1 \in 1..Len(rest) /\ 1 + 1 = 2
                        BY <2>1
                    <5>2. all[1 + 1] = rest[1]
                        BY <2>2, <5>1
                    <5> QED
                        BY <3>1, <5>1, <5>2
                <4> QED
                    BY <2>2, <2>3, <3>1, <4>1
            <3>2. CASE n # 2
                <4>1. PICK p \in 2..Len(rest) : n = p + 1
                    <5>1. n-1 \in 2..Len(rest) /\ n = (n-1) + 1
                        BY <2>1, <2>2, <3>2
                    <5> QED
                        BY <5>1
                <4>2. p-1 \in 1..Len(rest) /\ p \in 1..Len(rest) /\ n-1 = (p-1) + 1
                    BY <2>1, <4>1
                <4>3. all[n] = rest[p] /\ all[n-1] = rest[p-1]
                    BY <2>2, <4>1, <4>2
                <4>4. PICK a, b \in 1..N :
                          a < b /\ rest[p-1] = Chunk(units, a) /\ rest[p] = Chunk(units, b)
                    BY <1>4 DEF Packed
                <4> QED
                    BY <4>3, <4>4
            <3> QED
                BY <3>1, <3>2
        <2>5. ASSUME NEW m \in i..N
              PROVE  \E n \in 1..Len(all), a \in 1..N :
                         all[n] = Chunk(units, a) /\ m \in a..Filled(units, a) - 1
            <3>1. CASE m < j
                <4>1. 1 \in 1..Len(all) /\ m \in i..j - 1
                    BY <1>1, <2>1, <2>2, <3>1
                <4> QED
                    BY <2>2, <4>1 DEF j
            <3>2. CASE ~(m < j)
                <4>1. m \in k..N
                    BY <1>1, <3>2
                <4>2. PICK n \in 1..Len(rest), a \in 1..N :
                          rest[n] = Chunk(units, a) /\ m \in a..Filled(units, a) - 1
                    BY <1>4, <4>1 DEF Packed
                <4>3. n + 1 \in 1..Len(all) /\ all[n + 1] = rest[n]
                    BY <2>1, <2>2
                <4> QED
                    BY <4>2, <4>3
            <3> QED
                BY <3>1, <3>2
        <2>6. Len(all) > 0 /\ all[1] = Chunk(units, i)
            BY <2>1, <2>2
        <2> QED
            BY <2>2, <2>4, <2>5, <2>6 DEF Packed
    <1> QED
        BY <1>3, <1>4 DEF j

\* Units are packed into a list of chunks that leaves none out.
LEMMA PackingIsComplete ==
    ASSUME NEW units \in Seq(Parts)
    PROVE  IF units = <<>> THEN PackUnits(units) = <<>> ELSE Packed(PackUnits(units), units, 1)
    <1> DEFINE hi == Len(units)
               after(i) == Filled(units, i)
               Body(f, i) == IF i > hi THEN <<>>
                             ELSE <<Chunk(units, i)>> \o
                                  (IF after(i) > hi THEN <<>> ELSE f[NextStart(units, i, after(i))])
               Packs(f) == f = [i \in 1..hi + 1 |-> Body(f, i)]
               packed == CHOOSE f : Packs(f)
               T == ChunksFrom(units)
               head == [i \in 1..hi |-> <<Chunk(units, i)>>]
               next == [i \in 1..hi |-> IF after(i) > hi THEN hi + 1
                                        ELSE NextStart(units, i, after(i))]
    <1>2. PackUnits(units) = packed[1]
        BY DEF PackUnits, Chunk
    <1>3. hi \in Nat /\ 1 \in Int /\ hi \in Int /\ hi + 1 \in Int /\ 1 <= hi + 1
        OBVIOUS
    <1>4. ASSUME NEW i \in 1..hi
          PROVE  /\ head[i] \in Seq(T) /\ next[i] \in i + 1..hi + 1
                 /\ head[i] = <<Chunk(units, i)>>
                 /\ after(i) > hi => next[i] = hi + 1
                 /\ ~(after(i) > hi) => next[i] = NextStart(units, i, after(i))
        <2>1. after(i) \in i + 1..hi + 1 /\ NextStart(units, i, after(i)) \in i + 1..after(i)
            BY PackingMovesOn
        <2>2. Chunk(units, i) \in T
            BY DEF ChunksFrom
        <2> HIDE DEF after, T
        <2> QED
            BY <1>3, <2>1, <2>2
    <1> HIDE DEF hi, after, T, head, next
    <1>5. \E f : Packs(f)
        <2>1. PICK f : Follows(f, head, next, T, 1, hi)
            <3>1. Advances(head, next, T, 1, hi)
                BY <1>4 DEF Advances
            <3> QED
                BY <1>3, <3>1, DescentExists
        <2> USE DEF Follows
        <2>2. ASSUME NEW i \in 1..hi + 1
              PROVE  f[i] = Body(f, i)
            <3>1. CASE i > hi
                <4>1. i = hi + 1
                    BY <1>3, <3>1
                <4> QED
                    BY <2>1, <3>1, <4>1
            <3>2. CASE ~(i > hi)
                <4>1. i \in 1..hi
                    BY <1>3, <3>2
                <4>2. f[i] = head[i] \o f[next[i]]
                    BY <2>1, <4>1
                <4> QED
                    BY <1>4, <2>1, <3>2, <4>1, <4>2
            <3> QED
                BY <3>1, <3>2
        <2> HIDE DEF Body
        <2> QED
            BY <2>1, <2>2
    <1>6. Packs(packed)
        <2> HIDE DEF Packs
        <2> QED
            BY <1>5
    <1> HIDE DEF packed
    <1>7. packed[hi + 1] = <<>>
        <2>1. hi + 1 \in 1..hi + 1 /\ hi + 1 > hi
            BY <1>3
        <2> QED
            BY <1>6, <2>1
    <1> DEFINE P == {i \in Int : Packed(packed[i], units, i)}
    <1>8. \A i \in 1..hi : (\A k \in i + 1..hi : k \in P) => i \in P
        <2> SUFFICES ASSUME NEW i \in 1..hi, \A k \in i + 1..hi : k \in P
                     PROVE  i \in P
            OBVIOUS
        <2>1. i \in Int /\ i <= hi /\ i \in 1..Len(units) /\ hi = Len(units)
            BY <1>3 DEF hi
        <2>2. packed[i] = Body(packed, i)
            <3>1. i \in 1..hi + 1
                BY <1>3
            <3> HIDE DEF Body
            <3> QED
                BY <1>6, <3>1
        <2>3. ~(i > hi)
            BY <1>3, <2>1
        <2>4. CASE after(i) > hi
            <3>1. packed[i] = <<Chunk(units, i)>> \o <<>>
                BY <2>2, <2>3, <2>4
            <3>2. packed[i] = <<Chunk(units, i)>>
                BY <3>1
            <3>3. Packed(<<Chunk(units, i)>>, units, i)
                BY <2>1, <2>4, PackedBefore DEF after
            <3> QED
                BY <2>1, <3>2, <3>3
        <2>5. CASE ~(after(i) > hi)
            <3>1. PICK k : k = NextStart(units, i, after(i))
                OBVIOUS
            <3>2. packed[i] = <<Chunk(units, i)>> \o packed[k]
                BY <2>2, <2>3, <2>5, <3>1
            <3>3. k \in i + 1..after(i) /\ after(i) \in i + 1..hi + 1
                BY <2>1, <3>1, PackingMovesOn DEF after
            <3>4. k <= hi /\ k \in i + 1..hi
                <4> HIDE DEF after
                <4> QED
                    BY <1>3, <2>1, <2>5, <3>3
            <3>5. Packed(packed[k], units, k)
                BY <3>4
            <3>6. Packed(<<Chunk(units, i)>> \o packed[k], units, i)
                BY <2>1, <3>3, <3>4, <3>5, PackedBefore DEF after
            <3> QED
                BY <2>1, <3>2, <3>6
        <2> QED
            BY <2>4, <2>5
    <1>9. \A i \in 1..hi : i \in P
        <2> HIDE DEF P
        <2> QED
            BY <1>3, <1>8, Downwards
    <1>10. CASE units = <<>>
        <2>1. hi = 0
            BY <1>10 DEF hi
        <2>2. hi + 1 = 1
            BY <2>1
        <2> QED
            BY <1>2, <1>7, <1>10, <2>2
    <1>11. CASE units # <<>>
        <2>1. 1 \in 1..hi
            BY <1>11 DEF hi
        <2>2. Packed(packed[1], units, 1)
            BY <1>9, <2>1
        <2> QED
            BY <1>2, <1>11, <2>2
    <1> QED
        BY <1>10, <1>11

\* What the chunks of a text are: none is too long, each begins after the one
\* before, and each paragraph that is not oversized is in one of them.
LEMMA ChunksOfText ==
    ASSUME NEW text \in Seq(Characters)
    PROVE  LET list == ChunkText(text)
               paragraphs == SplitParagraphs(text)
           IN  /\ Len(list) \in Nat /\ DOMAIN list = 1..Len(list)
               /\ \A n \in DOMAIN list : list[n].length <= MaxChunkChars
               /\ \A n \in DOMAIN list \ {1} : Min(list[n - 1].chars) < Min(list[n].chars)
               /\ \A k \in DOMAIN paragraphs : ~Oversized(paragraphs[k]) =>
                     \E n \in DOMAIN list :
                         paragraphs[k].from..paragraphs[k].to \subseteq list[n].chars
    <1> DEFINE paragraphs == SplitParagraphs(text)
    <1> PICK units, list : units = Units(text) /\ list = ChunkText(text)
        OBVIOUS
    <1>1. /\ InOrder(units, 1, Len(text)) /\ units \in Seq(Fitting) /\ units \in Seq(Parts)
          /\ \A k \in DOMAIN paragraphs : ~Oversized(paragraphs[k]) =>
                 \E m \in 1..Len(units) : units[m] = paragraphs[k]
        BY UnitsInOrder DEF Fitting
    <1> HIDE DEF paragraphs
    <1>2. IF units = <<>> THEN list = <<>> ELSE Packed(list, units, 1)
        BY <1>1, PackingIsComplete DEF ChunkText
    <1>3. CASE units = <<>>
        <2>1. list = <<>> /\ 1..Len(units) = {}
            BY <1>2, <1>3
        <2>2. \A k \in DOMAIN paragraphs : Oversized(paragraphs[k])
            BY <1>1, <2>1
        <2> QED
            BY <2>1, <2>2 DEF paragraphs
    <1>4. CASE units # <<>>
        <2>1. Packed(list, units, 1)
            BY <1>2, <1>4
        <2>2. /\ list \in Seq(ChunksFrom(units)) /\ Len(list) \in Nat
              /\ DOMAIN list = 1..Len(list)
            BY <2>1 DEF Packed
        <2>3. ASSUME NEW n \in DOMAIN list
              PROVE  list[n].length <= MaxChunkChars
            <3>1. list[n] \in ChunksFrom(units)
                BY <2>2
            <3>2. PICK i \in 1..Len(units) : list[n] = Chunk(units, i)
                BY <3>1 DEF ChunksFrom
            <3> QED
                BY <1>1, <3>2, ChunkFits
        <2>4. ASSUME NEW n \in DOMAIN list \ {1}
              PROVE  Min(list[n-1].chars) < Min(list[n].chars)
            <3>1. n \in 2..Len(list)
                BY <2>2
            <3>2. PICK a, b \in 1..Len(units) :
                      a < b /\ list[n-1] = Chunk(units, a) /\ list[n] = Chunk(units, b)
                BY <2>1, <3>1 DEF Packed
            <3>3. Min(list[n-1].chars) = units[a].from /\ Min(list[n].chars) = units[b].from
                BY <1>1, <3>2, ChunkBegins
            <3>4. units[a].from <= units[a].to /\ units[a].to < units[b].from
                BY <1>1, <3>2 DEF InOrder
            <3>5. units[a].from \in Int /\ units[a].to \in Int /\ units[b].from \in Int
                BY <1>1, PartEnds
            <3> QED
                BY <3>3, <3>4, <3>5
        <2>5. ASSUME NEW k \in DOMAIN paragraphs, ~Oversized(paragraphs[k])
              PROVE  \E n \in DOMAIN list :
                         paragraphs[k].from..paragraphs[k].to \subseteq list[n].chars
            <3>1. PICK m \in 1..Len(units) : units[m] = paragraphs[k]
                BY <1>1, <2>5
            <3>2. PICK n \in 1..Len(list), a \in 1..Len(units) :
                      list[n] = Chunk(units, a) /\ m \in a..Filled(units, a) - 1
                BY <2>1, <3>1 DEF Packed
            <3>3. units[m].from..units[m].to \subseteq Chunk(units, a).chars
                BY <3>2 DEF Chunk
            <3> QED
                BY <2>2, <3>1, <3>2, <3>3
        <2> QED
            BY <2>2, <2>3, <2>4, <2>5 DEF paragraphs
    <1> QED
        BY <1>3, <1>4

\* Every content has its number of chunks, of which MaxChunks is the largest.
LEMMA ChunkCounts ==
    /\ \A c \in Contents : Len(Chunked[c]) \in Nat /\ Len(Chunked[c]) <= MaxChunks
    /\ Contents # {} => MaxChunks \in Nat
    <1> DEFINE counts == {Len(Chunked[c]) : c \in Contents}
    <1>1. \A c \in Contents : Len(Chunked[c]) \in Nat
        BY ChunksOfText, DocumentsAssumption DEF Chunked
    <1>2. IsFiniteSet(counts)
        <2> DEFINE count == [c \in Contents |-> Len(Chunked[c])]
        <2>1. count \in Surjection(Contents, counts)
            BY DEF Surjection
        <2>2. IsFiniteSet(Contents)
            BY DocumentsAssumption
        <2> HIDE DEF count, counts
        <2> QED
            BY <2>1, <2>2, FS_Surjection
    <1>3. counts \in SUBSET Nat
        BY <1>1
    <1>4. MaxChunks = Max(counts)
        BY DEF MaxChunks
    <1>5. \A c \in Contents : Len(Chunked[c]) \in counts
        OBVIOUS
    <1>6. Contents # {} => counts # {}
        OBVIOUS
    <1> HIDE DEF counts
    <1>7. PICK m \in Nat : \A x \in counts : x <= m
        BY <1>2, <1>3, FiniteIsBounded
    <1>8. ASSUME counts # {}
          PROVE  Max(counts) \in counts /\ \A x \in counts : x <= Max(counts)
        <2>1. counts \in SUBSET (0..m) /\ 0 \in Int /\ m \in Int
            BY <1>3, <1>7
        <2> QED
            BY <1>8, <2>1, Extremes, Zenon
    <1> QED
        BY <1>1, <1>3, <1>4, <1>5, <1>6, <1>8

-----------------------------------------------------------------------------
(* Types.  A handler works on an item it has and at a row that was         *)
(* inserted, and has put no chunk before it comes to that: what keeps the  *)
(* next item, the next version and the next chunk in range.                *)

Document == [source : Sources, version : Nat \ {0}, content : Contents]
Locals == [at : Nat, id : 0..MaxRows, read : {NoRow} \cup Document, put : Nat, alone : BOOLEAN]
PcValues == {"absent"} \cup Working \cup Ended
Ingesting == {"upload", "find", "save", "embed", "clear", "put"}
Deleting == {"lookup", "unchunk", "unrow", "unstore"}

HandlerInv(r) ==
    /\ local[r].id \in 0..inserted
    /\ local[r].at \in 1..Len(plan[r].items) + 1
    /\ pc[r] \in Ingesting => /\ plan[r].kind \in {"run", "upload"}
                              /\ local[r].at \in 1..Len(plan[r].items)
    /\ pc[r] = "upload" => plan[r].kind = "upload"
    /\ pc[r] \in Deleting => plan[r].kind = "delete" /\ local[r].id # 0
    /\ pc[r] = "absent" => local[r] = NoLocals
    /\ pc[r] \in {"upload", "find"} \cup Ended => local[r].id = 0
    /\ pc[r] \in {"embed", "clear", "put"} => local[r].id # 0
    /\ pc[r] \in {"upload", "find", "save", "embed", "clear"} => local[r].put = 0
    /\ pc[r] = "put" => local[r].put \in 0..Len(Chunked[Item(r).content])
    /\ pc[r] = "save" => IF local[r].id = 0 THEN local[r].alone
                         ELSE local[r].read \in Document /\ local[r].read.source = Item(r).source
    /\ pc[r] \in {"unchunk", "unrow", "unstore"} => local[r].read \in Document

Handlers ==
    /\ pc \in [Requests -> PcValues]
    /\ local \in [Requests -> Locals]
    /\ \A r \in Requests : HandlerInv(r)

Tables ==
    /\ rows \in [Ids -> {NoRow} \cup Document]
    /\ chunks \in [Ids -> [1..MaxChunks -> {NoChunk} \cup Contents]]
    /\ \A d \in Ids : Exists(d) => d <= inserted

Scalars ==
    /\ provider \in {"pgvector", "chroma"}
    /\ plan \in Plans
    /\ inserted \in 0..MaxRows
    /\ objects \subseteq Requests /\ kept \subseteq Requests
    /\ unclean \subseteq Ids
    /\ faults \in 0..MaxFaults

TypeInv == Scalars /\ Tables /\ Handlers

\* What a plan gives each request.
LEMMA PlanFacts ==
    ASSUME plan \in Plans, NEW r \in Requests
    PROVE  /\ plan[r].kind \in {"none", "run", "upload", "delete"}
           /\ plan[r].items \in Seq(Items) /\ Len(plan[r].items) \in Nat
           /\ plan[r].kind = "run" => Len(plan[r].items) >= 1
           /\ plan[r].kind = "upload" => Len(plan[r].items) = 1 /\ plan[r].items[1].source = r
           /\ \A k \in 1..Len(plan[r].items) :
                  /\ plan[r].items[k].source \in Sources
                  /\ plan[r].items[k].content \in Contents
                  /\ plan[r].kind = "run" => plan[r].items[k].source \in Files
    <1>1. plan[r] \in [kind : {"none", "run", "upload", "delete"}, items : Seq(Items)]
        BY DocumentsAssumption
    <1>2. /\ plan[r].kind \in {"none", "run", "upload", "delete"}
          /\ plan[r].items \in Seq(Items) /\ Len(plan[r].items) \in Nat
          /\ DOMAIN plan[r].items = 1..Len(plan[r].items)
        BY <1>1
    <1>3. \A k \in 1..Len(plan[r].items) : plan[r].items[k] \in Items
        BY <1>2
    <1>4. plan[r].kind = "run" => Len(plan[r].items) >= 1
        <2>1. plan[r].kind = "run" => plan[r].items # <<>>
            BY DocumentsAssumption
        <2>2. PICK s \in Seq(Items) : s = plan[r].items
            BY <1>2
        <2>3. s # <<>> => Len(s) >= 1
            OBVIOUS
        <2> QED
            BY <2>1, <2>2, <2>3
    <1> QED
        BY <1>2, <1>3, <1>4, DocumentsAssumption DEF Items

\* The item that a handler is at.
LEMMA ItemFacts ==
    ASSUME TypeInv, NEW r \in Requests, pc[r] \in Ingesting
    PROVE  /\ Item(r).source \in Sources /\ Item(r).content \in Contents
           /\ plan[r].kind = "run" => Item(r).source \in Files
           /\ plan[r].kind = "upload" => Item(r).source = r /\ local[r].at = 1
           /\ Len(Chunked[Item(r).content]) \in Nat
           /\ MaxChunks \in Nat
    <1>1. local[r].at \in 1..Len(plan[r].items)
        BY DEF TypeInv, Handlers, HandlerInv
    <1>2. plan \in Plans
        BY DEF TypeInv, Handlers, Scalars
    <1>3. /\ Item(r).source \in Sources /\ Item(r).content \in Contents
          /\ plan[r].kind = "run" => Item(r).source \in Files
        BY <1>1, <1>2, PlanFacts DEF Item
    <1>4. plan[r].kind = "upload" => Item(r).source = r /\ local[r].at = 1
        BY <1>1, <1>2, PlanFacts DEF Item
    <1> QED
        BY <1>3, <1>4, ChunkCounts

\* No row is like a document's.
LEMMA NoRowIsNone == NoRow \notin Document
    BY DEF NoRow, Document

\* What has a version is a row.
LEMMA NoRowHasNoVersion == \A row : row.version \in Nat \ {0} => row # NoRow
    <1>1. NoRow.version = 0
        BY DEF NoRow
    <1> QED
        BY <1>1

\* Nothing has arrived.
LEMMA TypeInit == Init => TypeInv
    <1> SUFFICES ASSUME Init PROVE TypeInv
        OBVIOUS
    <1>1. NoLocals \in Locals
        BY DocumentsAssumption DEF NoLocals, Locals
    <1>2. Scalars
        BY DocumentsAssumption DEF Init, Scalars
    <1>3. Tables
        BY DEF Init, Tables, NoChunks, Ids, Exists
    <1>4. ASSUME NEW r \in Requests PROVE HandlerInv(r)
        <2>1. Len(plan[r].items) \in Nat
            BY <1>2, PlanFacts DEF Scalars
        <2> QED
            BY <2>1, DocumentsAssumption
            DEF Init, HandlerInv, NoLocals, Ingesting, Deleting, Ended
    <1> QED
        BY <1>1, <1>2, <1>3, <1>4 DEF Init, TypeInv, Handlers, PcValues

\* A handler that stays where it is stays right, also when another one joins
\* it at its document, or inserts a row.
LEMMA HandlerStays ==
    ASSUME TypeInv, NEW r \in Requests, plan' = plan, pc'[r] = pc[r],
           inserted' \in Int, inserted <= inserted',
           \/ local'[r] = local[r]
           \/ local[r].id # 0 /\ local'[r] = [local[r] EXCEPT !.alone = FALSE]
    PROVE  HandlerInv(r)'
    <1>1. HandlerInv(r) /\ local[r] \in Locals /\ inserted \in Int
        BY DocumentsAssumption DEF TypeInv, Handlers, Tables, Scalars
    <1>2. /\ local'[r].at = local[r].at /\ local'[r].id = local[r].id
          /\ local'[r].read = local[r].read /\ local'[r].put = local[r].put
          /\ local[r].id = 0 => local'[r] = local[r]
        BY <1>1 DEF Locals
    <1>3. Item(r)' = Item(r)
        BY <1>2 DEF Item
    <1>4. local'[r].id \in 0..inserted'
        BY <1>1, <1>2 DEF HandlerInv
    <1>5. pc[r] = "absent" => local'[r] = NoLocals
        BY <1>1, <1>2 DEF HandlerInv, NoLocals
    <1>6. pc[r] = "save" /\ local[r].id = 0 => local'[r].alone
        BY <1>1, <1>2 DEF HandlerInv
    <1> QED
        BY <1>1, <1>2, <1>3, <1>4, <1>5, <1>6 DEF HandlerInv

\* A step of one handler.
LEMMA HandlerMoves ==
    ASSUME TypeInv, NEW r \in Requests, plan' = plan, NEW step \in PcValues, GoTo(r, step),
           NEW mine \in Locals, local' = [local EXCEPT ![r] = mine],
           inserted' \in Int, inserted <= inserted', HandlerInv(r)'
    PROVE  Handlers'
    <1>1. pc \in [Requests -> PcValues] /\ local \in [Requests -> Locals]
        BY DEF TypeInv, Handlers, Tables
    <1>2. ASSUME NEW q \in Requests, q # r
          PROVE  HandlerInv(q)'
        <2>1. pc'[q] = pc[q] /\ local'[q] = local[q]
            BY <1>1, <1>2 DEF GoTo
        <2> QED
            BY <2>1, HandlerStays
    <1> QED
        BY <1>1, <1>2 DEF GoTo, Handlers

\* A failure of some handlers.
LEMMA HandlersFail ==
    ASSUME TypeInv, NEW S \in SUBSET Requests, Fails(S), plan' = plan, inserted' = inserted
    PROVE  Handlers' /\ unclean' \subseteq Ids
    <1>1. pc \in [Requests -> PcValues] /\ local \in [Requests -> Locals]
        BY DEF TypeInv, Handlers, Tables
    <1>2. NoLocals \in Locals /\ "failed" \in PcValues
        BY DocumentsAssumption DEF NoLocals, Locals, PcValues, Ended
    <1>3. inserted \in Int /\ 0 <= inserted /\ inserted <= MaxRows
        BY DocumentsAssumption DEF TypeInv, Handlers, Scalars
    <1>4. ASSUME NEW q \in Requests
          PROVE  HandlerInv(q)'
        <2>1. CASE q \in S
            <3>1. pc'[q] = "failed" /\ local'[q] = NoLocals
                BY <2>1 DEF Fails
            <3>2. Len(plan[q].items) \in Nat
                BY PlanFacts DEF TypeInv, Handlers, Scalars
            <3> QED
                BY <1>3, <3>1, <3>2 DEF HandlerInv, NoLocals, Ingesting, Deleting, Ended
        <2>2. CASE q \notin S
            <3>1. pc'[q] = pc[q] /\ local'[q] = local[q]
                BY <1>1, <2>2 DEF Fails
            <3>2. inserted' \in Int /\ inserted <= inserted'
                BY <1>3
            <3> QED
                BY <3>1, <3>2, HandlerStays, Zenon
        <2> QED
            BY <2>1, <2>2
    <1>5. \A q \in Requests : local[q].id # 0 => local[q].id \in Ids
        BY <1>3, DocumentsAssumption DEF TypeInv, Handlers, HandlerInv, Ids
    <1>6. unclean' \subseteq Ids
        BY <1>5 DEF Fails, Spoils, TypeInv, Handlers, Scalars
    <1> QED
        BY <1>1, <1>2, <1>4, <1>6 DEF Fails, Handlers

\* A handler takes up a document.
LEMMA HandlerTakesUp ==
    ASSUME TypeInv, NEW r \in Requests, NEW d \in Ids \cup {0}, NEW row \in {NoRow} \cup Document,
           TakeUp(r, d, row), NEW step \in PcValues, GoTo(r, step),
           plan' = plan, inserted' = inserted, HandlerInv(r)'
    PROVE  Handlers' /\ unclean' \subseteq Ids
    <1>1. pc \in [Requests -> PcValues] /\ local \in [Requests -> Locals]
        BY DEF TypeInv, Handlers, Tables
    <1>2. inserted \in Int
        BY DocumentsAssumption DEF TypeInv, Handlers, Scalars
    <1>3. \A q \in Requests : q # r =>
              \/ local'[q] = local[q]
              \/ local[q].id # 0 /\ local'[q] = [local[q] EXCEPT !.alone = FALSE]
        BY DEF TakeUp, At
    <1>4. ASSUME NEW q \in Requests, q # r
          PROVE  HandlerInv(q)' /\ local'[q] \in Locals
        <2>1. pc'[q] = pc[q]
            BY <1>1, <1>4 DEF GoTo
        <2>2. [local[q] EXCEPT !.alone = FALSE] \in Locals
            BY <1>1 DEF Locals
        <2> QED
            BY <1>1, <1>2, <1>3, <1>4, <2>1, <2>2, HandlerStays
    <1>5. local'[r] \in Locals
        <2>1. local'[r] = [local[r] EXCEPT !.id = d, !.read = row, !.alone = At(d) = {}]
            BY DEF TakeUp
        <2>2. local[r] \in Locals /\ d \in 0..MaxRows
            BY <1>1, DocumentsAssumption DEF Ids
        <2> QED
            BY <2>1, <2>2 DEF Locals
    <1>6. local' \in [Requests -> Locals]
        BY <1>4, <1>5 DEF TakeUp
    <1>7. unclean' \subseteq Ids
        <2>1. At(0) = {}
            BY DEF At
        <2> QED
            BY <2>1 DEF TakeUp, TypeInv, Handlers, Scalars
    <1> QED
        BY <1>1, <1>4, <1>6, <1>7 DEF GoTo, Handlers

\* A row as it is read is a document's, or none.
LEMMA RowsRead ==
    ASSUME TypeInv, NEW d, Exists(d), d \in Ids
    PROVE  rows[d] \in Document /\ d \in 1..inserted /\ d \in 0..MaxRows /\ d # 0
    BY DocumentsAssumption, NoRowIsNone DEF TypeInv, Handlers, Tables, Exists, Ids

\* A request arrives, or is turned away.
LEMMA TypeArrive ==
    ASSUME TypeInv, NEW r \in Requests, Arrive(r)
    PROVE  TypeInv'
    <1> USE DEF PcValues, Working, Ended
    <1>1. /\ local[r] \in Locals /\ local = [local EXCEPT ![r] = local[r]]
          /\ local \in [Requests -> Locals] /\ HandlerInv(r)
        BY DEF TypeInv, Handlers, Tables
    <1>2. inserted \in Int
        BY DEF TypeInv, Handlers, Scalars
    <1>3. /\ plan[r].kind = "run" => Len(plan[r].items) >= 1
          /\ plan[r].kind = "upload" => Len(plan[r].items) = 1
          /\ Len(plan[r].items) \in Nat
          /\ pc[r] = "absent" => /\ local[r].at = 1 /\ local[r].id = 0 /\ local[r].put = 0
                                 /\ local[r] = NoLocals
        BY <1>1, PlanFacts DEF TypeInv, Handlers, Scalars, HandlerInv, NoLocals
    <1>4. ASSUME NEW step \in PcValues, GoTo(r, step), NEW mine \in Locals,
                 local' = [local EXCEPT ![r] = mine], HandlerInv(r)',
                 UNCHANGED <<provider, plan, store, objects, trace, faults>>
          PROVE  TypeInv'
        <2>1. plan' = plan /\ inserted' \in Int /\ inserted <= inserted'
            BY <1>2, <1>4 DEF store
        <2>2. Handlers'
            BY <1>4, <2>1, HandlerMoves, Zenon
        <2> QED
            BY <1>4, <2>2 DEF TypeInv, Handlers, Tables, Scalars, Exists, store, trace
    <1>5. CASE StartRun(r)
        <2>1. HandlerInv(r)'
            BY <1>1, <1>3, <1>5
            DEF StartRun, HandlerInv, GoTo, Ingesting, Deleting, NoLocals, store, TypeInv, Handlers, Tables
        <2> QED
            BY <1>1, <1>4, <1>5, <2>1 DEF StartRun
    <1>6. CASE AcceptUpload(r)
        <2>1. HandlerInv(r)'
            <3>1. /\ pc'[r] = "upload" /\ plan[r].kind = "upload" /\ pc[r] = "absent"
                  /\ local' = local /\ plan' = plan /\ inserted' = inserted
                BY <1>6 DEF AcceptUpload, GoTo, store, TypeInv, Handlers, Tables
            <3>2. /\ local[r].at = 1 /\ local[r].id = 0 /\ local[r].put = 0
                  /\ Len(plan[r].items) = 1
                BY <1>3, <3>1
            <3>3. 0 \in 0..inserted /\ 1 \in 1..1 + 1 /\ 1 \in 1..1
                BY <1>1, <1>3, <3>1 DEF HandlerInv
            <3> QED
                BY <3>1, <3>2, <3>3 DEF HandlerInv, Ingesting, Deleting
        <2> QED
            BY <1>1, <1>4, <1>6, <2>1 DEF AcceptUpload
    <1>7. CASE RejectUpload(r)
        <2>1. HandlerInv(r)'
            BY <1>1, <1>3, <1>7
            DEF RejectUpload, HandlerInv, GoTo, Ingesting, Deleting, NoLocals, store, TypeInv, Handlers, Tables
        <2> QED
            BY <1>1, <1>4, <1>7, <2>1 DEF RejectUpload
    <1>8. ASSUME NEW d \in Ids, PickForDeletion(r, d)
          PROVE  TypeInv'
        <2>1. local[r] = NoLocals
            BY <1>1, <1>8 DEF HandlerInv, PickForDeletion
        <2>2. [local[r] EXCEPT !.id = d] \in Locals
            <3>1. d \in 0..MaxRows
                BY <1>8, RowsRead DEF PickForDeletion
            <3> QED
                BY <1>1, <3>1 DEF Locals
        <2>3. local' = [local EXCEPT ![r] = [local[r] EXCEPT !.id = d]]
            BY <1>8 DEF PickForDeletion
        <2>4. d \in 0..inserted /\ d # 0
            BY <1>2, <1>8, RowsRead DEF PickForDeletion
        <2>5. HandlerInv(r)'
            BY <1>1, <1>3, <1>8, <2>1, <2>3, <2>4
            DEF PickForDeletion, HandlerInv, GoTo, Ingesting, Deleting, NoLocals, store, TypeInv, Handlers,
                Tables, Locals
        <2> QED
            BY <1>4, <1>8, <2>2, <2>3, <2>5 DEF PickForDeletion
    <1> QED
        BY <1>5, <1>6, <1>7, <1>8 DEF Arrive

\* A handler goes on to its next item, or ends.
LEMMA HandlerDone ==
    ASSUME TypeInv, NEW r \in Requests, pc[r] \in {"save", "put"}, Done(r),
           plan' = plan, inserted' = inserted
    PROVE  Handlers'
    <1> USE DEF PcValues, Working, Ended
    <1>1. /\ HandlerInv(r) /\ local[r] \in Locals
          /\ inserted \in Int /\ 0 <= inserted /\ inserted <= MaxRows
        BY DocumentsAssumption DEF TypeInv, Handlers, Scalars
    <1>2. /\ plan[r].kind \in {"run", "upload"}
          /\ local[r].at \in Int /\ local[r].at >= 1 /\ local[r].at <= Len(plan[r].items)
          /\ Len(plan[r].items) \in Int
        <2>1. Len(plan[r].items) \in Nat
            BY PlanFacts DEF TypeInv, Scalars
        <2> QED
            BY <1>1, <2>1 DEF HandlerInv, Ingesting
    <1>3. inserted' \in Int /\ inserted <= inserted'
        BY <1>1
    <1>4. pc \in [Requests -> PcValues] /\ local \in [Requests -> Locals]
        BY DEF TypeInv, Handlers
    <1>5. NoLocals \in Locals
        BY DocumentsAssumption DEF NoLocals, Locals
    <1>6. CASE local[r].at < Len(plan[r].items)
        <2> DEFINE mine == [NoLocals EXCEPT !.at = local[r].at + 1]
        <2>1. GoTo(r, "find") /\ local' = [local EXCEPT ![r] = mine]
            BY <1>6 DEF Done
        <2>2. mine \in Locals
            BY <1>2, <1>5 DEF Locals
        <2>3. /\ mine.at = local[r].at + 1 /\ mine.id = 0 /\ mine.put = 0
              /\ local'[r] = mine /\ pc'[r] = "find"
            BY <1>4, <2>1 DEF NoLocals, GoTo
        <2> HIDE DEF mine
        <2>4. HandlerInv(r)'
            <3>1. /\ local[r].at + 1 \in 1..Len(plan[r].items)
                  /\ local[r].at + 1 \in 1..Len(plan[r].items) + 1
                  /\ 0 \in 0..inserted
                BY <1>1, <1>2, <1>6
            <3> QED
                BY <1>2, <2>3, <3>1 DEF HandlerInv, Ingesting, Deleting
        <2> QED
            BY <1>3, <2>1, <2>2, <2>4, HandlerMoves
    <1>7. CASE ~(local[r].at < Len(plan[r].items))
        <2>1. GoTo(r, "ok") /\ local' = [local EXCEPT ![r] = NoLocals]
            BY <1>7 DEF Done, Ends
        <2>2. HandlerInv(r)'
            <3>1. 1 \in 1..Len(plan[r].items) + 1 /\ 0 \in 0..inserted
                BY <1>1, <1>2
            <3>2. /\ local'[r].at = 1 /\ local'[r].id = 0 /\ pc'[r] = "ok"
                BY <1>4, <2>1 DEF NoLocals, GoTo
            <3> QED
                BY <3>1, <3>2 DEF HandlerInv, Ingesting, Deleting
        <2> QED
            BY <1>3, <1>5, <2>1, <2>2, HandlerMoves
    <1> QED
        BY <1>6, <1>7

\* A handler ends.
LEMMA HandlerEnds ==
    ASSUME TypeInv, NEW r \in Requests, NEW step \in Ended, GoTo(r, step),
           local' = [local EXCEPT ![r] = NoLocals], plan' = plan, inserted' = inserted
    PROVE  Handlers'
    <1>1. /\ NoLocals \in Locals /\ step \in PcValues
          /\ inserted' \in Int /\ inserted <= inserted'
        BY DocumentsAssumption DEF NoLocals, Locals, PcValues, TypeInv, Scalars
    <1>2. pc'[r] = step /\ local'[r] = NoLocals
        BY DEF GoTo, TypeInv, Handlers
    <1>3. 1 \in 1..Len(plan[r].items) + 1 /\ 0 \in 0..inserted
        <2>1. Len(plan[r].items) \in Nat
            BY PlanFacts DEF TypeInv, Scalars
        <2> QED
            BY <2>1, DocumentsAssumption DEF TypeInv, Scalars
    <1>4. HandlerInv(r)'
        <2>1. local'[r].at = 1 /\ local'[r].id = 0
            BY <1>2 DEF NoLocals
        <2> QED
            BY <1>2, <1>3, <2>1 DEF HandlerInv, Ingesting, Deleting, Ended
    <1> QED
        BY <1>1, <1>4, HandlerMoves

\* A handler goes on, at the same item and document.
LEMMA HandlerGoesOn ==
    ASSUME TypeInv, NEW r \in Requests, NEW step \in PcValues, GoTo(r, step), local' = local,
           plan' = plan, inserted' = inserted, HandlerInv(r)'
    PROVE  Handlers'
    <1>1. /\ local[r] \in Locals /\ local' = [local EXCEPT ![r] = local[r]]
          /\ inserted' \in Int /\ inserted <= inserted'
        BY DEF TypeInv, Handlers, Scalars
    <1> QED
        BY <1>1, HandlerMoves

\* Steps of an ingestion that are about its row.
LEMMA TypeSave ==
    ASSUME TypeInv, NEW r \in Requests,
           \/ SaveObject(r) \/ FindBySource(r) \/ UpdateRow(r) \/ InsertRow(r) \/ SaveFails(r)
    PROVE  TypeInv'
    <1> USE DEF PcValues, Working, Ended
    <1>1. /\ HandlerInv(r) /\ local[r] \in Locals
          /\ pc \in [Requests -> PcValues] /\ local \in [Requests -> Locals]
        BY DEF TypeInv, Handlers
    <1>2. inserted \in Int /\ 0 <= inserted /\ inserted <= MaxRows /\ MaxRows \in Nat
        BY DocumentsAssumption DEF TypeInv, Scalars
    <1>3. pc[r] \in Ingesting => Item(r).source \in Sources /\ Item(r).content \in Contents
        BY ItemFacts
    <1>4. CASE SaveObject(r)
        <2>1. HandlerInv(r)'
            <3>1. /\ pc'[r] = "find" /\ pc[r] = "upload"
                  /\ local' = local /\ plan' = plan /\ inserted' = inserted
                BY <1>1, <1>4 DEF SaveObject, GoTo, store
            <3> QED
                BY <1>1, <3>1 DEF HandlerInv, Ingesting, Deleting
        <2>2. Handlers'
            BY <1>4, <2>1, HandlerGoesOn DEF SaveObject, store
        <2>3. Scalars' /\ Tables'
            BY <1>4 DEF SaveObject, store, trace, TypeInv, Scalars, Tables, Exists
        <2> QED
            BY <2>2, <2>3 DEF TypeInv
    <1>5. CASE FindBySource(r)
        <2>1. plan' = plan /\ inserted' = inserted /\ rows' = rows /\ pc[r] = "find"
              /\ GoTo(r, "save") /\ pc'[r] = "save"
            BY <1>1, <1>5 DEF FindBySource, store, GoTo
        <2>2. \E d \in Ids \cup {0}, row \in {NoRow} \cup Document :
                  /\ TakeUp(r, d, row)
                  /\ d = 0 \/ (d \in Find(Item(r).source) /\ row = rows[d])
            <3>1. \A d \in Find(Item(r).source) : d \in Ids /\ rows[d] \in Document
                BY RowsRead DEF Find
            <3> QED
                BY <1>5, <3>1 DEF FindBySource
        <2>3. PICK d \in Ids \cup {0}, row \in {NoRow} \cup Document :
                  /\ TakeUp(r, d, row)
                  /\ d = 0 \/ (d \in Find(Item(r).source) /\ row = rows[d])
            BY <2>2
        <2>4. /\ local'[r].at = local[r].at /\ local'[r].put = local[r].put
              /\ local'[r].id = d /\ local'[r].read = row
              /\ d = 0 => local'[r].alone
            <3>1. local'[r] = [local[r] EXCEPT !.id = d, !.read = row, !.alone = At(d) = {}]
                BY <2>3 DEF TakeUp
            <3>2. At(0) = {}
                BY DEF At
            <3> QED
                BY <1>1, <3>1, <3>2 DEF Locals
        <2>5. Item(r)' = Item(r)
            BY <2>1, <2>4 DEF Item
        <2>6. d # 0 => rows[d] \in Document /\ d \in 1..inserted
                       /\ rows[d].source = Item(r).source /\ row = rows[d]
            BY <2>3, RowsRead DEF Find
        <2>7. d \in 0..inserted
            BY <1>2, <2>6
        <2>8. HandlerInv(r)'
            BY <1>1, <2>1, <2>4, <2>5, <2>6, <2>7 DEF HandlerInv, Ingesting, Deleting
        <2>9. Handlers' /\ unclean' \subseteq Ids
            BY <2>1, <2>3, <2>8, HandlerTakesUp
        <2> QED
            BY <1>5, <2>9 DEF FindBySource, store, TypeInv, Scalars, Tables, Exists
    <1>6. CASE UpdateRow(r)
        <2> DEFINE d == local[r].id
                   row == [rows[d] EXCEPT !.content = Item(r).content,
                                          !.version = local[r].read.version
                                                          + IF Changed(r) THEN 1 ELSE 0]
        <2>1. /\ pc[r] = "save" /\ Exists(d) /\ plan' = plan /\ inserted' = inserted
              /\ chunks' = chunks
              /\ IF Changed(r) THEN GoTo(r, "embed") /\ local' = local ELSE Done(r)
            BY <1>6 DEF UpdateRow
        <2>2. d \in Ids /\ rows[d] \in Document /\ d # 0
            <3>1. d \in 1..MaxRows
                BY <1>1, <1>2, <2>1 DEF HandlerInv, Exists
            <3> QED
                BY <2>1, <3>1, RowsRead DEF Ids
        <2>3. rows' = [rows EXCEPT ![d] = row]
            BY <1>6, <2>2 DEF UpdateRow, TypeInv, Tables
        <2>4. row \in Document
            <3>1. local[r].read \in Document /\ Item(r).content \in Contents
                BY <1>1, <1>3, <2>1, <2>2 DEF HandlerInv, Ingesting
            <3>2. local[r].read.version \in Nat \ {0}
                BY <3>1 DEF Document
            <3>3. local[r].read.version + (IF Changed(r) THEN 1 ELSE 0) \in Nat \ {0}
                BY <3>2
            <3> QED
                BY <2>2, <3>1, <3>3 DEF Document
        <2> HIDE DEF row
        <2>5. Tables'
            BY <2>1, <2>2, <2>3, <2>4 DEF TypeInv, Tables, Exists
        <2>6. Handlers'
            <3>1. CASE Changed(r)
                <4>1. pc'[r] = "embed" /\ local' = local
                    BY <1>1, <2>1, <3>1 DEF GoTo
                <4>2. HandlerInv(r)'
                    BY <1>1, <2>1, <2>2, <4>1 DEF HandlerInv, Ingesting, Deleting
                <4> QED
                    BY <2>1, <3>1, <4>2, HandlerGoesOn
            <3>2. CASE ~Changed(r)
                BY <2>1, <3>2, HandlerDone
            <3> QED
                BY <3>1, <3>2
        <2> QED
            BY <1>6, <2>5, <2>6 DEF UpdateRow, trace, TypeInv, Scalars
    <1>7. CASE InsertRow(r)
        <2> DEFINE row == [source |-> Item(r).source, version |-> 1, content |-> Item(r).content]
                   mine == [local[r] EXCEPT !.id = inserted + 1]
        <2>1. /\ pc[r] = "save" /\ local[r].id = 0 /\ plan' = plan /\ chunks' = chunks
              /\ inserted < MaxRows /\ inserted' = inserted + 1
              /\ rows' = [rows EXCEPT ![inserted + 1] = row]
              /\ local' = [local EXCEPT ![r] = mine]
              /\ GoTo(r, "embed")
            <3>1. inserted' = inserted + 1 /\ local' = [local EXCEPT ![r].id = inserted']
                BY <1>7 DEF InsertRow
            <3>2. local' = [local EXCEPT ![r] = mine]
                BY <1>1, <3>1
            <3> QED
                BY <1>7, <3>1, <3>2 DEF InsertRow
        <2>2. row \in Document
            BY <1>3, <2>1 DEF Document, Ingesting
        <2>3. /\ inserted' \in Int /\ inserted <= inserted' /\ inserted' \in 0..MaxRows
              /\ inserted' # 0 /\ inserted' \in Ids
            BY <1>2, <2>1 DEF Ids
        <2> HIDE DEF row
        <2>4. Tables'
            BY <1>2, <2>1, <2>2, <2>3 DEF TypeInv, Tables, Exists, Ids
        <2>5. /\ mine \in Locals /\ mine.at = local[r].at /\ mine.id = inserted'
              /\ mine.put = local[r].put
            BY <1>1, <2>1, <2>3 DEF Locals
        <2>6. local'[r] = mine /\ pc'[r] = "embed"
            BY <1>1, <2>1 DEF GoTo
        <2> HIDE DEF mine
        <2>7. HandlerInv(r)'
            <3>1. inserted' \in 0..inserted'
                BY <2>3
            <3> QED
                BY <1>1, <2>1, <2>3, <2>5, <2>6, <3>1 DEF HandlerInv, Ingesting, Deleting
        <2>8. Handlers'
            BY <2>1, <2>3, <2>5, <2>7, HandlerMoves
        <2> QED
            BY <1>7, <2>3, <2>4, <2>8 DEF InsertRow, trace, TypeInv, Scalars
    <1>8. CASE SaveFails(r)
        <2>1. Handlers' /\ unclean' \subseteq Ids
            <3>1. {r} \in SUBSET Requests /\ Fails({r}) /\ plan' = plan /\ inserted' = inserted
                BY <1>8 DEF SaveFails, store
            <3> QED
                BY <3>1, HandlersFail
        <2> QED
            BY <1>8, <2>1 DEF SaveFails, store, TypeInv, Scalars, Tables, Exists
    <1> QED
        BY <1>4, <1>5, <1>6, <1>7, <1>8

\* Whoever is at a document's chunks is at a document.
LEMMA AtDocument ==
    ASSUME TypeInv, NEW r \in Requests,
           pc[r] \in {"embed", "clear", "put", "unchunk", "unrow", "unstore"}
    PROVE  local[r].id \in Ids /\ local[r].id # 0 /\ local[r].id <= inserted
    <1>1. local[r].id \in 0..inserted /\ local[r].id # 0
        BY DEF TypeInv, Handlers, HandlerInv, Deleting
    <1> QED
        BY <1>1, DocumentsAssumption DEF TypeInv, Scalars, Ids

\* Steps of an ingestion that are about its chunks.
LEMMA TypePut ==
    ASSUME TypeInv, NEW r \in Requests,
           \/ EmbedBatch(r) \/ ClearChunks(r) \/ PutChunk(r) \/ PutFails(r) \/ PutChunks(r)
           \/ FinishIngest(r)
    PROVE  TypeInv'
    <1> USE DEF PcValues, Working, Ended
    <1>1. /\ HandlerInv(r) /\ local[r] \in Locals
          /\ pc \in [Requests -> PcValues] /\ local \in [Requests -> Locals]
        BY DEF TypeInv, Handlers
    <1>2. inserted \in Int /\ 0 <= inserted /\ inserted <= MaxRows /\ MaxRows \in Nat
        BY DocumentsAssumption DEF TypeInv, Scalars
    <1>3. pc[r] \in Ingesting => /\ Item(r).source \in Sources /\ Item(r).content \in Contents
                                 /\ Len(Chunked[Item(r).content]) \in Nat
                                 /\ MaxChunks \in Nat
        BY ItemFacts
    <1>4. CASE EmbedBatch(r)
        <2>1. HandlerInv(r)'
            <3>1. /\ pc'[r] = "clear" /\ pc[r] = "embed"
                  /\ local' = local /\ plan' = plan /\ inserted' = inserted
                BY <1>1, <1>4 DEF EmbedBatch, GoTo, store
            <3> QED
                BY <1>1, <3>1 DEF HandlerInv, Ingesting, Deleting
        <2>2. Handlers'
            BY <1>4, <2>1, HandlerGoesOn DEF EmbedBatch, store
        <2>3. Scalars' /\ Tables'
            BY <1>4 DEF EmbedBatch, store, trace, TypeInv, Scalars, Tables, Exists
        <2> QED
            BY <2>2, <2>3 DEF TypeInv
    <1>5. CASE ClearChunks(r)
        <2>1. HandlerInv(r)'
            <3>1. /\ pc'[r] = "put" /\ pc[r] = "clear"
                  /\ local' = local /\ plan' = plan /\ inserted' = inserted
                BY <1>1, <1>5 DEF ClearChunks, GoTo
            <3>2. Item(r)' = Item(r)
                BY <3>1 DEF Item
            <3>3. 0 \in 0..Len(Chunked[Item(r).content])
                BY <1>3, <3>1 DEF Ingesting
            <3> QED
                BY <1>1, <3>1, <3>2, <3>3 DEF HandlerInv, Ingesting, Deleting
        <2>2. Handlers'
            BY <1>5, <2>1, HandlerGoesOn DEF ClearChunks
        <2>3. Scalars' /\ Tables'
            BY <1>5 DEF ClearChunks, Cleared, NoChunks, trace, TypeInv, Scalars, Tables, Exists
        <2> QED
            BY <2>2, <2>3 DEF TypeInv
    <1>6. CASE PutChunk(r)
        <2> DEFINE n == local[r].put + 1
                   mine == [local[r] EXCEPT !.put = n]
        <2>1. /\ pc[r] = "put" /\ ~AllPut(r) /\ plan' = plan /\ inserted' = inserted
              /\ rows' = rows /\ pc' = pc /\ local' = [local EXCEPT ![r] = mine]
              /\ chunks' = [chunks EXCEPT ![local[r].id][n] = Item(r).content]
            BY <1>1, <1>6 DEF PutChunk
        <2>2. GoTo(r, "put")
            BY <1>1, <2>1 DEF GoTo
        <2>3. n \in 0..Len(Chunked[Item(r).content]) /\ n \in Nat
            BY <1>1, <1>3, <2>1 DEF HandlerInv, AllPut, Ingesting
        <2>4. /\ mine \in Locals /\ mine.at = local[r].at /\ mine.id = local[r].id
              /\ mine.put = n /\ local'[r] = mine
            BY <1>1, <2>1, <2>3 DEF Locals
        <2> HIDE DEF mine, n
        <2>5. HandlerInv(r)'
            <3>1. Item(r)' = Item(r)
                BY <2>1, <2>4 DEF Item
            <3> QED
                BY <1>1, <2>1, <2>3, <2>4, <3>1 DEF HandlerInv, Ingesting, Deleting
        <2>6. Handlers'
            <3>1. inserted' \in Int /\ inserted <= inserted' /\ "put" \in PcValues
                BY <1>2, <2>1
            <3> QED
                BY <2>1, <2>2, <2>4, <2>5, <3>1, HandlerMoves
        <2>7. Tables'
            BY <1>3, <2>1 DEF TypeInv, Tables, Exists, Ingesting
        <2> QED
            BY <1>6, <2>6, <2>7 DEF PutChunk, trace, TypeInv, Scalars
    <1>7. CASE PutFails(r)
        <2>1. Handlers' /\ unclean' \subseteq Ids
            <3>1. {r} \in SUBSET Requests /\ Fails({r}) /\ plan' = plan /\ inserted' = inserted
                BY <1>7 DEF PutFails, store
            <3> QED
                BY <3>1, HandlersFail
        <2> QED
            BY <1>7, <2>1 DEF PutFails, store, TypeInv, Scalars, Tables, Exists
    <1>8. CASE PutChunks(r)
        <2> DEFINE n == Len(Chunked[Item(r).content])
                   mine == [local[r] EXCEPT !.put = n]
        <2>1. /\ pc[r] = "put" /\ plan' = plan /\ inserted' = inserted
              /\ rows' = rows /\ pc' = pc /\ local' = [local EXCEPT ![r] = mine]
            BY <1>1, <1>8 DEF PutChunks
        <2>2. GoTo(r, "put")
            BY <1>1, <2>1 DEF GoTo
        <2>3. n \in 0..n /\ n \in Nat
            BY <1>3, <2>1 DEF Ingesting
        <2>4. /\ mine \in Locals /\ mine.at = local[r].at /\ mine.id = local[r].id
              /\ mine.put = n /\ local'[r] = mine
            BY <1>1, <2>1, <2>3 DEF Locals
        <2> HIDE DEF mine
        <2>5. HandlerInv(r)'
            <3>1. Item(r)' = Item(r)
                BY <2>1, <2>4 DEF Item
            <3> QED
                BY <1>1, <2>1, <2>3, <2>4, <3>1 DEF HandlerInv, Ingesting, Deleting
        <2>6. Handlers'
            <3>1. inserted' \in Int /\ inserted <= inserted' /\ "put" \in PcValues
                BY <1>2, <2>1
            <3> QED
                BY <2>1, <2>2, <2>4, <2>5, <3>1, HandlerMoves
        <2>7. Tables'
            <3>1. local[r].id \in Ids
                BY <2>1, AtDocument
            <3>2. [k \in 1..MaxChunks |-> IF ChunksOf(Item(r).content)[k] = NoChunk
                                          THEN chunks[local[r].id][k] ELSE Item(r).content]
                      \in [1..MaxChunks -> {NoChunk} \cup Contents]
                BY <1>3, <2>1, <3>1 DEF TypeInv, Tables, Ingesting
            <3> QED
                BY <1>8, <2>1, <3>1, <3>2 DEF PutChunks, TypeInv, Tables, Exists
        <2> QED
            BY <1>8, <2>6, <2>7 DEF PutChunks, trace, TypeInv, Scalars
    <1>9. CASE FinishIngest(r)
        <2>1. Handlers'
            BY <1>9, HandlerDone DEF FinishIngest, store
        <2> QED
            BY <1>9, <2>1 DEF FinishIngest, store, TypeInv, Scalars, Tables, Exists
    <1> QED
        BY <1>4, <1>5, <1>6, <1>7, <1>8, <1>9

\* Steps of a deletion.
LEMMA TypeDelete ==
    ASSUME TypeInv, NEW r \in Requests, Delete(r)
    PROVE  TypeInv'
    <1> USE DEF PcValues, Working, Ended
    <1>1. /\ HandlerInv(r) /\ local[r] \in Locals
          /\ pc \in [Requests -> PcValues] /\ local \in [Requests -> Locals]
        BY DEF TypeInv, Handlers
    <1>2. \A source : ObjectPath(source) \subseteq Requests
        BY DEF ObjectPath
    <1>3. CASE FindById(r)
        <2> DEFINE d == local[r].id
        <2>1. /\ pc[r] = "lookup" /\ Exists(d) /\ TakeUp(r, d, rows[d])
              /\ GoTo(r, "unchunk") /\ pc'[r] = "unchunk"
              /\ plan' = plan /\ inserted' = inserted /\ rows' = rows
            BY <1>1, <1>3 DEF FindById, GoTo, store
        <2>2. d \in Ids /\ rows[d] \in Document /\ d # 0
            <3>1. d \in 1..MaxRows
                BY <1>1, <2>1, DocumentsAssumption
                DEF HandlerInv, Exists, TypeInv, Scalars
            <3> QED
                BY <2>1, <3>1, RowsRead DEF Ids
        <2>3. /\ local'[r].at = local[r].at /\ local'[r].id = d /\ local'[r].read = rows[d]
            <3>1. local'[r] = [local[r] EXCEPT !.id = d, !.read = rows[d], !.alone = At(d) = {}]
                BY <2>1 DEF TakeUp
            <3> QED
                BY <1>1, <3>1 DEF Locals
        <2>4. HandlerInv(r)'
            BY <1>1, <2>1, <2>2, <2>3 DEF HandlerInv, Ingesting, Deleting
        <2>5. Handlers' /\ unclean' \subseteq Ids
            BY <2>1, <2>2, <2>4, HandlerTakesUp
        <2> QED
            BY <1>3, <2>5 DEF FindById, store, TypeInv, Scalars, Tables, Exists
    <1>4. CASE NotFound(r)
        <2>1. Handlers'
            BY <1>4, HandlerEnds DEF NotFound, store
        <2> QED
            BY <1>4, <2>1 DEF NotFound, store, trace, TypeInv, Scalars, Tables, Exists
    <1>5. CASE DeleteChunks(r)
        <2>1. HandlerInv(r)'
            <3>1. /\ pc'[r] = "unrow" /\ pc[r] = "unchunk"
                  /\ local' = local /\ plan' = plan /\ inserted' = inserted
                BY <1>1, <1>5 DEF DeleteChunks, GoTo
            <3> QED
                BY <1>1, <3>1 DEF HandlerInv, Ingesting, Deleting
        <2>2. Handlers'
            BY <1>5, <2>1, HandlerGoesOn DEF DeleteChunks
        <2>3. Scalars' /\ Tables'
            BY <1>5 DEF DeleteChunks, Cleared, NoChunks, trace, TypeInv, Scalars, Tables, Exists
        <2> QED
            BY <2>2, <2>3 DEF TypeInv
    <1>6. CASE DeleteRow(r)
        <2>1. HandlerInv(r)'
            <3>1. /\ pc'[r] = "unstore" /\ pc[r] = "unrow"
                  /\ local' = local /\ plan' = plan /\ inserted' = inserted
                BY <1>1, <1>6 DEF DeleteRow, GoTo
            <3> QED
                BY <1>1, <3>1 DEF HandlerInv, Ingesting, Deleting
        <2>2. Handlers'
            BY <1>6, <2>1, HandlerGoesOn DEF DeleteRow
        <2>3. Scalars'
            BY <1>6 DEF DeleteRow, TypeInv, Scalars
        <2>4. Tables'
            <3>1. rows' \in [Ids -> {NoRow} \cup Document]
                BY <1>6 DEF DeleteRow, TypeInv, Tables
            <3>2. chunks' \in [Ids -> [1..MaxChunks -> {NoChunk} \cup Contents]]
                BY <1>6 DEF DeleteRow, Cleared, NoChunks, TypeInv, Tables
            <3>3. \A d \in Ids : Exists(d)' => d <= inserted'
                BY <1>6 DEF DeleteRow, TypeInv, Tables, Exists
            <3> QED
                BY <3>1, <3>2, <3>3 DEF Tables
        <2> QED
            BY <2>2, <2>3, <2>4 DEF TypeInv
    <1>7. CASE DeleteObject(r)
        <2>1. Handlers'
            BY <1>7, HandlerEnds DEF DeleteObject, Ends, store
        <2> QED
            BY <1>7, <2>1 DEF DeleteObject, store, trace, TypeInv, Scalars, Tables, Exists
    <1>8. CASE DeleteObjectFails(r)
        <2>1. Handlers'
            BY <1>8, HandlerEnds DEF DeleteObjectFails, Ends, store
        <2>2. faults' \in 0..MaxFaults
            BY <1>8, DocumentsAssumption DEF DeleteObjectFails, Fault, TypeInv, Scalars
        <2> QED
            BY <1>2, <1>8, <2>1, <2>2
            DEF DeleteObjectFails, store, TypeInv, Scalars, Tables, Exists
    <1> QED
        BY <1>3, <1>4, <1>5, <1>6, <1>7, <1>8 DEF Delete

\* A call that fails, and a crash of the gateway.
LEMMA TypeFault ==
    ASSUME TypeInv, (\E r \in Requests : HandlerThrows(r)) \/ GatewayCrash
    PROVE  TypeInv'
    <1>1. \A source : ObjectPath(source) \subseteq Requests
        BY DEF ObjectPath
    <1>2. ASSUME NEW S \in SUBSET Requests, Fails(S), Fault, kept' \subseteq Requests,
                 UNCHANGED <<provider, plan, store, objects>>
          PROVE  TypeInv'
        <2>1. Handlers' /\ unclean' \subseteq Ids
            <3>1. plan' = plan /\ inserted' = inserted
                BY <1>2 DEF store
            <3> QED
                BY <1>2, <3>1, HandlersFail
        <2>2. faults' \in 0..MaxFaults
            BY <1>2, DocumentsAssumption DEF Fault, TypeInv, Scalars
        <2> QED
            BY <1>2, <2>1, <2>2 DEF store, TypeInv, Scalars, Tables, Exists
    <1>3. ASSUME NEW r \in Requests, HandlerThrows(r)
          PROVE  TypeInv'
        <2>1. {r} \in SUBSET Requests
            OBVIOUS
        <2> QED
            BY <1>2, <1>3, <2>1 DEF HandlerThrows, TypeInv, Scalars
    <1>4. CASE GatewayCrash
        <2> DEFINE lost == {r \in Requests : plan[r].kind # "run" /\ pc[r] \in Working}
        <2>1. lost \in SUBSET Requests
            OBVIOUS
        <2>2. kept' \subseteq Requests
            BY <1>1, <1>4 DEF GatewayCrash, TypeInv, Scalars
        <2>3. Fails(lost) /\ Fault /\ UNCHANGED <<provider, plan, store, objects>>
            BY <1>4 DEF GatewayCrash
        <2> HIDE DEF lost
        <2> QED
            BY <1>2, <2>1, <2>2, <2>3
    <1> QED
        BY <1>3, <1>4

\* Every step keeps the types.
LEMMA TypeNext == TypeInv /\ [Next]_vars => TypeInv'
    <1> SUFFICES ASSUME TypeInv, [Next]_vars PROVE TypeInv'
        OBVIOUS
    <1>1. CASE UNCHANGED vars
        BY <1>1
        DEF vars, store, trace, TypeInv, Scalars, Tables, Handlers, HandlerInv, Exists, Item
    <1>2. CASE Next
        BY <1>2, TypeArrive, TypeSave, TypePut, TypeDelete, TypeFault DEF Next, Ingest
    <1> QED
        BY <1>1, <1>2

\* The types are as TypeOK says.
LEMMA TypeInvIsTypeOK == TypeInv => TypeOK
    <1> SUFFICES ASSUME TypeInv PROVE TypeOK
        OBVIOUS
    <1>1. ASSUME NEW r \in Requests
          PROVE  /\ local[r].id \in 0..inserted /\ local[r].read \in {NoRow} \cup Document
                 /\ local[r].alone \in BOOLEAN
                 /\ local[r].at \in 1..Len(plan[r].items) + 1
                 /\ pc[r] = "put" => local[r].put \in 0..Len(Chunked[Item(r).content])
        <2>1. local[r] \in Locals /\ HandlerInv(r)
            BY DEF TypeInv, Handlers
        <2> QED
            BY <2>1 DEF Locals, HandlerInv
    <1>2. ASSUME NEW d \in Ids
          PROVE  /\ rows[d] \in {NoRow} \cup Document
                 /\ \A n \in 1..MaxChunks : chunks[d][n] \in {NoChunk} \cup Contents
        BY DEF TypeInv, Tables
    <1> QED
        BY <1>1, <1>2 DEF TypeOK, TypeInv, Scalars, Handlers, PcValues, Document

\* Every variable of Documents keeps its type: a handler is at an item there is
\* and at a row that was inserted, and puts no more chunks than there are.
THEOREM DocumentsTypeCorrect == Spec => []TypeOK
    <1>1. Spec => []TypeInv
        BY TypeInit, TypeNext, PTL DEF Spec
    <1> QED
        BY <1>1, TypeInvIsTypeOK, PTL

-----------------------------------------------------------------------------
(* Chunks and rows.  A request that is alone at a document knows its row   *)
(* and how many of its chunks are there; as soon as it is not alone the    *)
(* document is unclean until the next one that is.                         *)

Match(d) == chunks[d] = IF Exists(d) THEN ChunksOf(rows[d].content) ELSE NoChunks
\* The first k chunks of a content.
Partly(c, k) == [n \in 1..MaxChunks |-> IF n <= k THEN c ELSE NoChunk]

\* What a request that is alone at a document knows of it.
Knows(r, d) ==
    /\ pc[r] = "save" => Exists(d) /\ rows[d] = local[r].read
    /\ pc[r] \in {"embed", "clear", "put"} => Exists(d) /\ rows[d].content = Item(r).content
    /\ pc[r] = "put" => chunks[d] = Partly(Item(r).content, local[r].put)
    /\ pc[r] = "unchunk" => Exists(d)
    /\ pc[r] = "unrow" => Exists(d) /\ chunks[d] = NoChunks

\* Before its first write to a document, and after its last, a request leaves
\* it as it was.
Clean == {"save", "unchunk", "unstore"}

OneAlone(d) == \A r, q \in At(d) : local[r].alone => q = r
AloneKnow(d) == \A r \in At(d) : IF local[r].alone THEN Knows(r, d) ELSE d \in unclean
CleanMatch(d) == (d \notin unclean /\ \A r \in At(d) : pc[r] \in Clean) => Match(d)
MatchInv(d) == OneAlone(d) /\ AloneKnow(d) /\ CleanMatch(d)

\* Who is at a document.
LEMMA WhoIsAt ==
    ASSUME TypeInv, NEW d \in Ids, NEW r \in Requests
    PROVE  /\ r \in At(d) <=> /\ pc[r] \in Clean \cup {"embed", "clear", "put", "unrow"}
                              /\ local[r].id = d
           /\ d # 0
    <1>1. HandlerInv(r) /\ d # 0
        BY DEF TypeInv, Handlers, Ids
    <1>2. r \in At(d) <=> pc[r] \in Working \ {"lookup"} /\ local[r].id = d
        BY <1>1 DEF At
    <1>3. pc[r] \in {"upload", "find"} => local[r].id # d
        BY <1>1 DEF HandlerInv
    <1> QED
        BY <1>1, <1>2, <1>3 DEF Working, Clean

\* Nothing happens at the document.
LEMMA NothingHappens ==
    ASSUME NEW d, MatchInv(d), plan' = plan,
           rows'[d] = rows[d], chunks'[d] = chunks[d], d \in unclean' <=> d \in unclean,
           At(d)' = At(d), \A q \in At(d) : pc'[q] = pc[q] /\ local'[q] = local[q]
    PROVE  MatchInv(d)'
    <1>1. \A q \in At(d) : Item(q)' = Item(q)
        BY DEF Item
    <1>2. (Match(d)' <=> Match(d)) /\ (Exists(d)' <=> Exists(d))
        BY DEF Match, Exists
    <1>3. OneAlone(d)'
        BY DEF MatchInv, OneAlone
    <1>4. \A q \in At(d) : Knows(q, d) => Knows(q, d)'
        BY <1>1, <1>2 DEF Knows
    <1>5. AloneKnow(d)'
        BY <1>4 DEF MatchInv, AloneKnow
    <1>6. CleanMatch(d)'
        BY <1>2 DEF MatchInv, CleanMatch
    <1> QED
        BY <1>3, <1>5, <1>6 DEF MatchInv

\* Something happens at a document by one who is not alone there.
LEMMA NobodyAlone ==
    ASSUME NEW d, MatchInv(d), NEW r \in At(d), ~local[r].alone,
           d \in unclean => d \in unclean',
           \A q \in At(d)' : q \in At(d) /\ local'[q].alone = local[q].alone
    PROVE  MatchInv(d)'
    <1>1. d \in unclean'
        BY DEF MatchInv, AloneKnow
    <1>2. \A q \in At(d)' : ~local'[q].alone
        BY DEF MatchInv, OneAlone
    <1>3. OneAlone(d)'
        BY <1>2 DEF OneAlone
    <1>4. AloneKnow(d)'
        BY <1>1, <1>2 DEF AloneKnow
    <1>5. CleanMatch(d)'
        BY <1>1 DEF CleanMatch
    <1> QED
        BY <1>3, <1>4, <1>5 DEF MatchInv

\* Something happens at a document by one who is alone there, and stays.
LEMMA AloneStays ==
    ASSUME NEW d, NEW r, At(d)' = {r}, local'[r].alone, Knows(r, d)',
           d \notin unclean' /\ pc'[r] \in Clean => Match(d)'
    PROVE  MatchInv(d)'
    <1>1. OneAlone(d)'
        BY DEF OneAlone
    <1>2. AloneKnow(d)'
        BY DEF AloneKnow
    <1>3. CleanMatch(d)'
        BY DEF CleanMatch
    <1> QED
        BY <1>1, <1>2, <1>3 DEF MatchInv

\* Nobody is left at a document.
LEMMA NobodyLeft ==
    ASSUME NEW d, At(d)' = {}, d \notin unclean' => Match(d)'
    PROVE  MatchInv(d)'
    BY DEF MatchInv, OneAlone, AloneKnow, CleanMatch

\* A step of one handler, which the others do not notice.
OnlyMoves(r) ==
    /\ plan' = plan
    /\ \A q \in Requests \ {r} : pc'[q] = pc[q] /\ local'[q] = local[q]

\* A step of one handler keeps the documents that it is not at.
LEMMA MatchElsewhere ==
    ASSUME NEW d, MatchInv(d), NEW r \in Requests, OnlyMoves(r),
           r \notin At(d), r \notin At(d)',
           rows'[d] = rows[d], chunks'[d] = chunks[d], d \in unclean' <=> d \in unclean
    PROVE  MatchInv(d)'
    <1>1. At(d)' = At(d)
        BY DEF OnlyMoves, At
    <1>2. \A q \in At(d) : pc'[q] = pc[q] /\ local'[q] = local[q]
        BY DEF OnlyMoves, At
    <1> QED
        BY <1>1, <1>2, NothingHappens DEF OnlyMoves

\* And the one that it is at, if it does there what it should when it is alone.
LEMMA MatchHere ==
    ASSUME NEW d, MatchInv(d), NEW r \in At(d), OnlyMoves(r),
           r \in At(d)' => local'[r].alone = local[r].alone,
           d \in unclean /\ ~local[r].alone => d \in unclean',
           (local[r].alone /\ r \in At(d)') =>
               Knows(r, d)' /\ (d \notin unclean' /\ pc'[r] \in Clean => Match(d)'),
           (local[r].alone /\ r \notin At(d)') => (d \notin unclean' => Match(d)')
    PROVE  MatchInv(d)'
    <1>1. \A q \in At(d)' : q \in At(d) /\ local'[q].alone = local[q].alone
        BY DEF OnlyMoves, At
    <1>2. CASE ~local[r].alone
        BY <1>1, <1>2, NobodyAlone
    <1>3. CASE local[r].alone
        <2>1. At(d) = {r}
            BY <1>3 DEF MatchInv, OneAlone
        <2>2. CASE r \in At(d)'
            <3>1. At(d)' = {r}
                BY <1>1, <2>1, <2>2
            <3> QED
                BY <1>3, <2>2, <3>1, AloneStays
        <2>3. CASE r \notin At(d)'
            <3>1. At(d)' = {}
                BY <1>1, <2>1, <2>3
            <3> QED
                BY <1>3, <2>3, <3>1, NobodyLeft
        <2> QED
            BY <2>2, <2>3
    <1> QED
        BY <1>2, <1>3

\* A failure of some handlers: each of them spoils the document it was at unless
\* it was at a call before its first write or after its last.
LEMMA MatchFails ==
    ASSUME TypeInv, NEW d \in Ids, MatchInv(d), NEW S \in SUBSET Requests, Fails(S),
           plan' = plan, rows' = rows, chunks' = chunks
    PROVE  MatchInv(d)'
    <1>1. pc \in [Requests -> PcValues] /\ local \in [Requests -> Locals]
        BY DEF TypeInv, Handlers
    <1>2. \A q \in S : pc'[q] = "failed"
        BY DEF Fails
    <1>3. \A q \in Requests \ S : pc'[q] = pc[q] /\ local'[q] = local[q]
        BY DEF Fails
    <1>4. At(d)' = At(d) \ S
        BY <1>2, <1>3 DEF At, Working
    <1>5. d \in unclean' <=> d \in unclean \/ \E q \in S : Spoils(q) /\ local[q].id = d
        BY DEF Fails
    <1>6. \A q \in S : Spoils(q) /\ local[q].id = d => q \in At(d) /\ pc[q] \notin Clean
        BY WhoIsAt DEF Spoils, Clean
    <1>7. \A q \in S : q \in At(d) /\ ~Spoils(q) => pc[q] \in Clean
        BY WhoIsAt DEF Spoils
    <1>8. (Match(d)' <=> Match(d))
        BY DEF Match, Exists
    <1>9. CASE At(d) \cap S = {}
        <2>1. At(d)' = At(d) /\ (d \in unclean' <=> d \in unclean)
            BY <1>4, <1>5, <1>6, <1>9
        <2>2. \A q \in At(d) : pc'[q] = pc[q] /\ local'[q] = local[q]
            BY <1>3, <1>9 DEF At
        <2> QED
            BY <2>1, <2>2, NothingHappens
    <1>10. ASSUME NEW r \in At(d) \cap S, local[r].alone
           PROVE  MatchInv(d)'
        <2>1. At(d) = {r}
            BY <1>10 DEF MatchInv, OneAlone
        <2>2. At(d)' = {}
            BY <1>4, <2>1
        <2>3. d \notin unclean' => Match(d)'
            <3>1. d \notin unclean' => d \notin unclean /\ ~Spoils(r)
                BY <1>5, <1>10, WhoIsAt
            <3>2. d \notin unclean' => \A q \in At(d) : pc[q] \in Clean
                BY <1>7, <2>1, <3>1
            <3> QED
                BY <1>8, <3>1, <3>2 DEF MatchInv, CleanMatch
        <2> QED
            BY <2>2, <2>3, NobodyLeft
    <1>11. ASSUME NEW r \in At(d) \cap S, ~local[r].alone
           PROVE  MatchInv(d)'
        <2>1. \A q \in At(d)' : q \in At(d) /\ local'[q].alone = local[q].alone
            BY <1>3, <1>4 DEF At
        <2>2. d \in unclean => d \in unclean'
            BY <1>5
        <2> QED
            BY <1>11, <2>1, <2>2, NobodyAlone
    <1> QED
        BY <1>9, <1>10, <1>11

\* A request takes up a document whose row it read, or none.
LEMMA MatchTakesUp ==
    ASSUME TypeInv, NEW d \in Ids, MatchInv(d), NEW r \in Requests, pc[r] \in {"find", "lookup"},
           NEW e \in Ids \cup {0}, NEW row, TakeUp(r, e, row),
           e # 0 => Exists(e) /\ row = rows[e],
           NEW step \in {"save", "unchunk"}, GoTo(r, step),
           plan' = plan, rows' = rows, chunks' = chunks
    PROVE  MatchInv(d)'
    <1>1. pc \in [Requests -> PcValues] /\ local \in [Requests -> Locals]
        BY DEF TypeInv, Handlers
    <1>2. r \notin At(d) /\ d # 0
        BY WhoIsAt DEF Clean
    <1>3. /\ pc'[r] = step
          /\ local'[r].id = e /\ local'[r].read = row /\ local'[r].alone = (At(e) = {})
        <2>1. local'[r] = [local[r] EXCEPT !.id = e, !.read = row, !.alone = At(e) = {}]
            BY DEF TakeUp
        <2> QED
            BY <1>1, <2>1 DEF GoTo, Locals
    <1>4. \A q \in Requests \ {r} :
              /\ pc'[q] = pc[q]
              /\ q \notin At(e) => local'[q] = local[q]
              /\ q \in At(e) => /\ local'[q].id = local[q].id
                                /\ local'[q].alone = FALSE
        <2>1. \A q \in Requests \ {r} :
                  /\ q \in At(e) => local'[q] = [local[q] EXCEPT !.alone = FALSE]
                  /\ q \notin At(e) => local'[q] = local[q]
            BY DEF TakeUp
        <2>2. \A q \in Requests : LET less == [local[q] EXCEPT !.alone = FALSE]
                                  IN  less.id = local[q].id /\ less.alone = FALSE
            BY <1>1 DEF Locals
        <2>3. \A q \in Requests \ {r} : pc'[q] = pc[q]
            BY <1>1 DEF GoTo
        <2> QED
            BY <2>1, <2>2, <2>3
    <1>5. Match(d)' <=> Match(d)
        BY DEF Match, Exists
    <1>6. CASE d # e
        <2>1. \A q \in At(d) : q # r /\ q \notin At(e)
            BY <1>2, <1>6 DEF At
        <2>2. At(d)' = At(d)
            BY <1>2, <1>3, <1>4, <1>6 DEF At
        <2>3. \A q \in At(d) : pc'[q] = pc[q] /\ local'[q] = local[q]
            BY <1>4, <2>1 DEF At
        <2>4. d \in unclean' <=> d \in unclean
            BY <1>6 DEF TakeUp
        <2> QED
            BY <2>2, <2>3, <2>4, NothingHappens
    <1>7. CASE d = e
        <2>1. At(d)' = At(d) \cup {r}
            <3>1. r \in At(d)'
                BY <1>2, <1>3, <1>7 DEF At, Working
            <3>2. \A q \in Requests \ {r} : q \in At(d)' <=> q \in At(d)
                BY <1>4, <1>7 DEF At
            <3>3. At(d) \subseteq Requests /\ At(d)' \subseteq Requests
                BY DEF At
            <3> QED
                BY <3>1, <3>2, <3>3
        <2>2. CASE At(d) = {}
            <3>1. Knows(r, d)'
                BY <1>2, <1>3, <1>7 DEF Knows, Exists
            <3>2. d \notin unclean' => Match(d)'
                BY <1>5, <1>7, <2>2 DEF TakeUp, MatchInv, CleanMatch
            <3> QED
                BY <1>3, <1>7, <2>1, <2>2, <3>1, <3>2, AloneStays
        <2>3. CASE At(d) # {}
            <3>1. d \in unclean'
                BY <1>7, <2>3 DEF TakeUp
            <3>2. \A q \in At(d)' : ~local'[q].alone
                BY <1>3, <1>4, <1>7, <2>1, <2>3 DEF At
            <3> QED
                BY <3>1, <3>2 DEF MatchInv, OneAlone, AloneKnow, CleanMatch
        <2> QED
            BY <2>2, <2>3
    <1> QED
        BY <1>6, <1>7

\* A handler that is through with an item has left its document.
LEMMA DoneLeaves ==
    ASSUME TypeInv, NEW r \in Requests, Done(r), plan' = plan
    PROVE  OnlyMoves(r) /\ \A d \in Ids : r \notin At(d)'
    <1>1. pc \in [Requests -> PcValues] /\ local \in [Requests -> Locals]
        BY DEF TypeInv, Handlers
    <1>2. OnlyMoves(r)
        BY <1>1 DEF Done, Ends, GoTo, OnlyMoves
    <1>3. local'[r].id = 0
        BY <1>1 DEF Done, Ends, NoLocals
    <1> QED
        BY <1>2, <1>3 DEF At, Ids

\* Arrivals are at no document.
LEMMA MatchArrive ==
    ASSUME TypeInv, NEW r \in Requests, Arrive(r), NEW d \in Ids, MatchInv(d)
    PROVE  MatchInv(d)'
    <1>1. pc \in [Requests -> PcValues] /\ local \in [Requests -> Locals]
        BY DEF TypeInv, Handlers
    <1>2. pc[r] = "absent" /\ plan' = plan /\ rows' = rows /\ chunks' = chunks /\ unclean' = unclean
        BY DEF Arrive, StartRun, AcceptUpload, RejectUpload, PickForDeletion, store, trace
    <1>3. OnlyMoves(r)
        BY <1>1 DEF Arrive, StartRun, AcceptUpload, RejectUpload, PickForDeletion, GoTo, OnlyMoves
    <1>4. local[r].id = 0
        BY <1>2 DEF TypeInv, Handlers, HandlerInv, NoLocals
    <1>5. r \notin At(d) /\ r \notin At(d)'
        <2>1. d # 0
            BY DEF Ids
        <2>2. CASE local' = local
            BY <1>4, <2>1, <2>2 DEF At
        <2>3. CASE pc'[r] = "lookup"
            BY <1>2, <2>3 DEF At, Working
        <2>4. local' = local \/ pc'[r] = "lookup"
            BY <1>1 DEF Arrive, StartRun, AcceptUpload, RejectUpload, PickForDeletion, GoTo
        <2> QED
            BY <1>2, <2>2, <2>3, <2>4 DEF At, Working
    <1> QED
        BY <1>2, <1>3, <1>5, MatchElsewhere

\* Steps of an ingestion that are about its row.
LEMMA MatchSave ==
    ASSUME TypeInv, NEW r \in Requests, NEW d \in Ids, MatchInv(d),
           \/ SaveObject(r) \/ FindBySource(r) \/ UpdateRow(r) \/ InsertRow(r) \/ SaveFails(r)
    PROVE  MatchInv(d)'
    <1>1. /\ pc \in [Requests -> PcValues] /\ local \in [Requests -> Locals]
          /\ HandlerInv(r) /\ local[r] \in Locals
        BY DEF TypeInv, Handlers
    <1>2. rows \in [Ids -> {NoRow} \cup Document] /\ inserted \in Int
        BY DEF TypeInv, Tables, Scalars
    <1>3. CASE SaveObject(r)
        <2>1. /\ pc[r] = "upload" /\ plan' = plan /\ rows' = rows /\ chunks' = chunks
              /\ unclean' = unclean /\ local' = local
            BY <1>3 DEF SaveObject, store, trace
        <2>2. OnlyMoves(r)
            BY <1>1, <1>3 DEF SaveObject, GoTo, OnlyMoves
        <2>3. local[r].id = 0 /\ d # 0
            BY <1>1, <2>1 DEF HandlerInv, Ids
        <2>4. r \notin At(d) /\ r \notin At(d)'
            BY <2>1, <2>3 DEF At
        <2> QED
            BY <2>1, <2>2, <2>4, MatchElsewhere
    <1>4. CASE FindBySource(r)
        <2>1. /\ pc[r] = "find" /\ GoTo(r, "save") /\ plan' = plan
              /\ rows' = rows /\ chunks' = chunks
            BY <1>4 DEF FindBySource, store
        <2>2. \E e \in Ids \cup {0} : \E row :
                  TakeUp(r, e, row) /\ (e # 0 => Exists(e) /\ row = rows[e])
            BY <1>4 DEF FindBySource, Find
        <2> QED
            BY <2>1, <2>2, MatchTakesUp
    <1>5. CASE UpdateRow(r)
        <2> DEFINE e == local[r].id
        <2>1. /\ pc[r] = "save" /\ Exists(e) /\ plan' = plan /\ chunks' = chunks
              /\ unclean' = unclean /\ e # 0
              /\ IF Changed(r) THEN GoTo(r, "embed") /\ local' = local ELSE Done(r)
            BY <1>5 DEF UpdateRow, trace, Exists
        <2>2. OnlyMoves(r)
            BY <1>1, <2>1, DoneLeaves DEF GoTo, OnlyMoves
        <2>3. CASE d # e
            <3>1. rows'[d] = rows[d]
                BY <1>2, <1>5, <2>3 DEF UpdateRow
            <3>2. r \notin At(d) /\ r \notin At(d)'
                BY <2>1, <2>3, DoneLeaves DEF At
            <3> QED
                BY <2>1, <2>2, <3>1, <3>2, MatchElsewhere
        <2>4. CASE d = e
            <3>1. r \in At(d)
                BY <2>1, <2>4 DEF At, Working
            <3>2. rows[d] \in Document
                BY <2>1, <2>4, RowsRead
            <3>3. rows'[d].content = Item(r).content
                BY <1>2, <1>5, <2>4, <3>2 DEF UpdateRow, Document
            <3>4. rows'[d] # NoRow
                <4>1. rows'[d].version \in Nat \ {0}
                    <5>1. local[r].read.version \in Nat \ {0}
                        BY <1>1, <2>1 DEF HandlerInv, Document
                    <5>2. local[r].read.version + (IF Changed(r) THEN 1 ELSE 0) \in Nat \ {0}
                        BY <5>1
                    <5>3. rows'[d].version = local[r].read.version + (IF Changed(r) THEN 1 ELSE 0)
                        BY <1>2, <1>5, <2>4, <3>2 DEF UpdateRow, Document
                    <5> QED
                        BY <5>2, <5>3
                <4> QED
                    BY <4>1, NoRowHasNoVersion
            <3>5. Exists(d)'
                BY <2>1, <2>4, <3>4 DEF Exists
            <3>6. CASE Changed(r)
                <4>1. pc'[r] = "embed" /\ local' = local
                    BY <1>1, <2>1, <3>6 DEF GoTo
                <4>2. Item(r)' = Item(r)
                    BY <2>1, <4>1 DEF Item
                <4>3. Knows(r, d)'
                    BY <3>3, <3>5, <4>1, <4>2 DEF Knows
                <4>4. r \in At(d)'
                    BY <2>1, <2>4, <4>1 DEF At, Working
                <4> QED
                    BY <2>1, <2>2, <3>1, <4>1, <4>3, <4>4, MatchHere DEF Clean
            <3>7. CASE ~Changed(r)
                <4>1. r \notin At(d)'
                    BY <2>1, <3>7, DoneLeaves
                <4>2. local[r].alone /\ d \notin unclean => Match(d)'
                    <5> SUFFICES ASSUME local[r].alone, d \notin unclean
                                 PROVE  Match(d)'
                        OBVIOUS
                    <5>1. At(d) = {r} /\ Knows(r, d)
                        BY <3>1 DEF MatchInv, OneAlone, AloneKnow
                    <5>2. Match(d)
                        BY <2>1, <5>1 DEF MatchInv, CleanMatch, Clean
                    <5>3. rows'[d].content = rows[d].content
                        BY <2>1, <3>3, <3>7, <5>1 DEF Knows, Changed
                    <5> QED
                        BY <2>1, <2>4, <3>5, <5>2, <5>3 DEF Match
                <4> QED
                    BY <2>1, <2>2, <3>1, <4>1, <4>2, MatchHere
            <3> QED
                BY <3>6, <3>7
        <2> QED
            BY <2>3, <2>4
    <1>6. CASE InsertRow(r)
        <2> DEFINE e == inserted + 1
        <2>1. /\ pc[r] = "save" /\ local[r].id = 0 /\ plan' = plan /\ chunks' = chunks
              /\ unclean' = unclean /\ GoTo(r, "embed") /\ pc'[r] = "embed"
              /\ local' = [local EXCEPT ![r].id = e]
              /\ rows' = [rows EXCEPT ![e] = [source |-> Item(r).source, version |-> 1,
                                              content |-> Item(r).content]]
            BY <1>1, <1>6 DEF InsertRow, trace, GoTo
        <2>2. OnlyMoves(r)
            BY <1>1, <2>1 DEF GoTo, OnlyMoves
        <2>3. /\ local'[r].id = e /\ local'[r].at = local[r].at
              /\ local'[r].alone = local[r].alone /\ local[r].alone
            BY <1>1, <2>1 DEF Locals, HandlerInv
        <2>4. r \notin At(d)
            BY <2>1 DEF At
        <2>5. CASE d # e
            BY <1>2, <2>1, <2>2, <2>3, <2>4, <2>5, MatchElsewhere DEF At
        <2>6. CASE d = e
            <3>1. At(d) = {}
                <4>1. \A q \in Requests : local[q].id \in 0..inserted
                    BY DEF TypeInv, Handlers, HandlerInv
                <4>2. \A q \in Requests : local[q].id # d
                    BY <1>2, <2>6, <4>1
                <4> QED
                    BY <4>2 DEF At
            <3>2. At(d)' = {r}
                <4>1. r \in At(d)'
                    BY <2>1, <2>3, <2>6 DEF At, Working, Ids
                <4>2. \A q \in Requests \ {r} : q \notin At(d)'
                    BY <2>2, <3>1 DEF OnlyMoves, At
                <4> QED
                    BY <4>1, <4>2 DEF At
            <3>3. rows'[d].content = Item(r).content /\ Exists(d)'
                <4>1. rows'[d] = [source |-> Item(r).source, version |-> 1,
                                  content |-> Item(r).content]
                    BY <1>2, <2>1, <2>6
                <4>2. rows'[d].content = Item(r).content /\ rows'[d].version = 1
                    BY <4>1
                <4>3. rows'[d] # NoRow /\ d # 0
                    BY <4>2, NoRowHasNoVersion DEF Ids
                <4> QED
                    BY <4>2, <4>3 DEF Exists
            <3>4. Item(r)' = Item(r)
                BY <2>1, <2>3 DEF Item
            <3>5. Knows(r, d)'
                BY <2>1, <3>3, <3>4 DEF Knows
            <3> QED
                BY <2>1, <2>3, <3>2, <3>5, AloneStays DEF Clean
        <2> QED
            BY <2>5, <2>6
    <1>7. CASE SaveFails(r)
        <2>1. /\ {r} \in SUBSET Requests /\ Fails({r})
              /\ plan' = plan /\ rows' = rows /\ chunks' = chunks
            BY <1>7 DEF SaveFails, store
        <2> QED
            BY <2>1, MatchFails
    <1> QED
        BY <1>3, <1>4, <1>5, <1>6, <1>7

\* Steps of an ingestion that are about its chunks.
LEMMA MatchPut ==
    ASSUME TypeInv, NEW r \in Requests, NEW d \in Ids, MatchInv(d),
           \/ EmbedBatch(r) \/ ClearChunks(r) \/ PutChunk(r) \/ PutFails(r) \/ PutChunks(r)
           \/ FinishIngest(r)
    PROVE  MatchInv(d)'
    <1> DEFINE e == local[r].id
               c == Item(r).content
    <1>1. /\ pc \in [Requests -> PcValues] /\ local \in [Requests -> Locals]
          /\ HandlerInv(r) /\ local[r] \in Locals
        BY DEF TypeInv, Handlers
    <1>2. chunks \in [Ids -> [1..MaxChunks -> {NoChunk} \cup Contents]]
        BY DEF TypeInv, Tables
    <1>3. PutFails(r) \/ (pc[r] \in {"embed", "clear", "put"} /\ plan' = plan /\ rows' = rows)
        BY DEF EmbedBatch, ClearChunks, PutChunk, PutChunks, FinishIngest, store
    <1>4. ASSUME pc[r] \in {"embed", "clear", "put"}
          PROVE  /\ e \in Ids /\ (r \in At(d) <=> d = e)
                 /\ c \in Contents /\ Len(Chunked[c]) \in Nat /\ MaxChunks \in Nat
        BY <1>4, AtDocument, WhoIsAt, ItemFacts DEF Ingesting
    <1>5. ASSUME r \in At(d), local[r].alone
          PROVE  Knows(r, d) /\ At(d) = {r}
        BY <1>5 DEF MatchInv, AloneKnow, OneAlone
    <1>6. ASSUME rows' = rows
          PROVE  Exists(d)' <=> Exists(d)
        BY <1>6 DEF Exists
    <1>7. CASE EmbedBatch(r)
        <2>1. /\ pc[r] = "embed" /\ pc'[r] = "clear" /\ local' = local /\ plan' = plan
              /\ rows' = rows /\ chunks' = chunks /\ unclean' = unclean
            BY <1>1, <1>7 DEF EmbedBatch, GoTo, store, trace
        <2>2. OnlyMoves(r)
            BY <1>1, <1>7, <2>1 DEF EmbedBatch, GoTo, OnlyMoves
        <2>3. CASE d # e
            BY <1>4, <2>1, <2>2, <2>3, MatchElsewhere DEF At
        <2>4. CASE d = e
            <3>1. r \in At(d) /\ Item(r)' = Item(r)
                BY <1>4, <2>1, <2>4 DEF Item
            <3>2. r \in At(d)'
                BY <2>1, <3>1 DEF At, Working
            <3>3. local[r].alone => Knows(r, d)'
                BY <1>5, <1>6, <2>1, <3>1 DEF Knows
            <3> QED
                BY <2>1, <2>2, <3>1, <3>2, <3>3, MatchHere DEF Clean
        <2> QED
            BY <2>3, <2>4
    <1>8. CASE ClearChunks(r)
        <2>1. /\ pc[r] = "clear" /\ pc'[r] = "put" /\ local' = local /\ plan' = plan
              /\ rows' = rows /\ chunks' = [chunks EXCEPT ![e] = NoChunks] /\ unclean' = unclean
            BY <1>1, <1>8 DEF ClearChunks, Cleared, GoTo, trace
        <2>2. OnlyMoves(r)
            BY <1>1, <1>8, <2>1 DEF ClearChunks, GoTo, OnlyMoves
        <2>3. CASE d # e
            BY <1>2, <1>4, <2>1, <2>2, <2>3, MatchElsewhere DEF At
        <2>4. CASE d = e
            <3>1. r \in At(d) /\ Item(r)' = Item(r)
                BY <1>4, <2>1, <2>4 DEF Item
            <3>2. r \in At(d)'
                BY <2>1, <3>1 DEF At, Working
            <3>3. chunks'[d] = Partly(c, 0)
                <4>1. chunks'[d] = NoChunks
                    BY <1>2, <2>1, <2>4
                <4>2. MaxChunks \in Nat
                    BY <1>4, <2>1
                <4> QED
                    BY <4>1, <4>2 DEF NoChunks, Partly
            <3>4. local[r].put = 0
                BY <1>1, <2>1 DEF HandlerInv
            <3>5. local[r].alone => Knows(r, d)'
                <4>1. Partly(c, 0)' = Partly(c, 0)
                    BY <3>1 DEF Partly
                <4> QED
                    BY <1>5, <1>6, <2>1, <3>1, <3>3, <3>4, <4>1 DEF Knows
            <3> QED
                BY <2>1, <2>2, <3>1, <3>2, <3>5, MatchHere DEF Clean
        <2> QED
            BY <2>3, <2>4
    <1>9. ASSUME NEW k, pc[r] = "put", pc' = pc, local' = [local EXCEPT ![r].put = k],
                 plan' = plan, rows' = rows, unclean' = unclean,
                 \A i \in Ids : i # e => chunks'[i] = chunks[i],
                 chunks[e] = Partly(c, local[r].put) => chunks'[e] = Partly(c, k)
          PROVE  MatchInv(d)'
        <2>1. /\ local'[r].put = k /\ local'[r].id = e /\ local'[r].at = local[r].at
              /\ local'[r].alone = local[r].alone
            BY <1>1, <1>9 DEF Locals
        <2>2. OnlyMoves(r)
            BY <1>1, <1>9 DEF OnlyMoves
        <2>3. CASE d # e
            BY <1>4, <1>9, <2>1, <2>2, <2>3, MatchElsewhere DEF At
        <2>4. CASE d = e
            <3>1. r \in At(d) /\ Item(r)' = Item(r)
                BY <1>4, <1>9, <2>1, <2>4 DEF Item
            <3>2. r \in At(d)'
                BY <1>9, <2>1, <3>1 DEF At, Working
            <3>3. local[r].alone => Knows(r, d)'
                <4> SUFFICES ASSUME local[r].alone PROVE Knows(r, d)'
                    OBVIOUS
                <4>1. Knows(r, d)
                    BY <1>5, <3>1
                <4>2. Exists(d)' /\ rows'[d].content = c
                    BY <1>6, <1>9, <4>1 DEF Knows
                <4>3. chunks'[d] = Partly(c, k)
                    BY <1>9, <2>4, <4>1 DEF Knows
                <4>4. pc'[r] = "put" /\ Partly(c, k) = Partly(Item(r)'.content, local'[r].put)
                    BY <1>9, <2>1, <3>1
                <4> QED
                    BY <3>1, <4>2, <4>3, <4>4 DEF Knows, Partly
            <3> QED
                BY <1>9, <2>1, <2>2, <3>1, <3>2, <3>3, MatchHere DEF Clean
        <2> QED
            BY <2>3, <2>4
    <1>10. CASE PutChunk(r)
        <2> DEFINE k == local[r].put + 1
        <2>1. /\ pc[r] = "put" /\ pc' = pc /\ plan' = plan /\ rows' = rows /\ unclean' = unclean
              /\ local' = [local EXCEPT ![r].put = k]
              /\ chunks' = [chunks EXCEPT ![e][k] = c]
            BY <1>10 DEF PutChunk, trace
        <2>2. /\ MaxChunks \in Nat /\ local[r].put \in Nat /\ e \in Ids
            BY <1>1, <1>4, <2>1 DEF Locals
        <2>3. \A i \in Ids : i # e => chunks'[i] = chunks[i]
            BY <1>2, <2>1
        <2>4. ASSUME chunks[e] = Partly(c, local[r].put)
              PROVE  chunks'[e] = Partly(c, k)
            <3>1. chunks'[e] = [chunks[e] EXCEPT ![k] = c]
                BY <1>2, <2>1, <2>2
            <3>2. \A n \in 1..MaxChunks : (n = k \/ n <= local[r].put) <=> n <= k
                BY <2>2
            <3> HIDE DEF k, c, e
            <3> QED
                BY <2>4, <3>1, <3>2 DEF Partly
        <2> HIDE DEF k
        <2> QED
            BY <1>9, <2>1, <2>3, <2>4
    <1>11. CASE PutFails(r)
        <2>1. /\ {r} \in SUBSET Requests /\ Fails({r})
              /\ plan' = plan /\ rows' = rows /\ chunks' = chunks
            BY <1>11 DEF PutFails, store
        <2> QED
            BY <2>1, MatchFails
    <1>12. CASE PutChunks(r)
        <2> DEFINE k == Len(Chunked[c])
        <2>1. /\ pc[r] = "put" /\ pc' = pc /\ plan' = plan /\ rows' = rows /\ unclean' = unclean
              /\ local' = [local EXCEPT ![r].put = k]
            BY <1>12 DEF PutChunks, trace
        <2>2. /\ MaxChunks \in Nat /\ local[r].put \in 0..k /\ e \in Ids /\ c \in Contents
              /\ k \in Nat
            BY <1>1, <1>4, <2>1 DEF HandlerInv
        <2>3. chunks' = [chunks EXCEPT ![e] =
                            [n \in 1..MaxChunks |->
                                IF ChunksOf(c)[n] = NoChunk THEN chunks[e][n] ELSE c]]
            BY <1>2, <1>12, <2>2 DEF PutChunks
        <2>4. \A i \in Ids : i # e => chunks'[i] = chunks[i]
            BY <1>2, <2>3
        <2>5. ASSUME chunks[e] = Partly(c, local[r].put)
              PROVE  chunks'[e] = Partly(c, k)
            <3>1. chunks'[e] = [n \in 1..MaxChunks |->
                                   IF ChunksOf(c)[n] = NoChunk THEN chunks[e][n] ELSE c]
                BY <1>2, <2>2, <2>3
            <3>2. \A n \in 1..MaxChunks : ChunksOf(c)[n] = IF n <= k THEN c ELSE NoChunk
                BY DEF ChunksOf
            <3>3. \A n \in 1..MaxChunks : n <= local[r].put => n <= k
                BY <2>2
            <3> HIDE DEF k, c, e
            <3> QED
                BY <2>5, <3>1, <3>2, <3>3 DEF Partly
        <2> HIDE DEF k
        <2> QED
            BY <1>9, <2>1, <2>4, <2>5
    <1>13. CASE FinishIngest(r)
        <2>1. /\ pc[r] = "put" /\ local[r].put = Len(Chunked[c]) /\ plan' = plan /\ Done(r)
              /\ rows' = rows /\ chunks' = chunks
              /\ unclean' = IF local[r].alone THEN unclean \ {e} ELSE unclean
            BY <1>13 DEF FinishIngest, AllPut, store
        <2>2. OnlyMoves(r) /\ r \notin At(d)'
            BY <2>1, DoneLeaves
        <2>3. CASE d # e
            BY <1>4, <2>1, <2>2, <2>3, MatchElsewhere
        <2>4. CASE d = e
            <3>1. r \in At(d)
                BY <1>4, <2>1, <2>4
            <3>2. local[r].alone => Match(d)'
                <4> SUFFICES ASSUME local[r].alone PROVE Match(d)'
                    OBVIOUS
                <4>1. /\ Exists(d)' /\ rows'[d].content = c
                      /\ chunks'[d] = Partly(c, Len(Chunked[c]))
                    BY <1>5, <1>6, <2>1, <3>1 DEF Knows
                <4>2. Partly(c, Len(Chunked[c])) = ChunksOf(c)
                    BY DEF Partly, ChunksOf
                <4> HIDE DEF c
                <4> QED
                    BY <4>1, <4>2 DEF Match, ChunksOf
            <3> QED
                BY <2>1, <2>2, <3>1, <3>2, MatchHere
        <2> QED
            BY <2>3, <2>4
    <1> QED
        BY <1>7, <1>8, <1>10, <1>11, <1>12, <1>13

\* Steps of a deletion.
LEMMA MatchDelete ==
    ASSUME TypeInv, NEW r \in Requests, Delete(r), NEW d \in Ids, MatchInv(d)
    PROVE  MatchInv(d)'
    <1> DEFINE e == local[r].id
    <1>1. /\ pc \in [Requests -> PcValues] /\ local \in [Requests -> Locals]
          /\ HandlerInv(r)
        BY DEF TypeInv, Handlers
    <1>2. chunks \in [Ids -> [1..MaxChunks -> {NoChunk} \cup Contents]]
        BY DEF TypeInv, Tables
    <1>3. ASSUME pc[r] \in {"unchunk", "unrow", "unstore"}
          PROVE  e \in Ids /\ (r \in At(d) <=> d = e)
        BY <1>3, AtDocument, WhoIsAt DEF Clean
    <1>4. ASSUME r \in At(d), local[r].alone
          PROVE  Knows(r, d) /\ At(d) = {r}
        BY <1>4 DEF MatchInv, AloneKnow, OneAlone
    <1>5. ASSUME rows' = rows
          PROVE  Exists(d)' <=> Exists(d)
        BY <1>5 DEF Exists
    <1>6. CASE FindById(r)
        <2>1. /\ pc[r] = "lookup" /\ Exists(e) /\ TakeUp(r, e, rows[e]) /\ GoTo(r, "unchunk")
              /\ plan' = plan /\ rows' = rows /\ chunks' = chunks
            BY <1>6 DEF FindById, store
        <2>2. e \in Ids \cup {0}
            BY <1>1, DocumentsAssumption DEF HandlerInv, TypeInv, Scalars, Ids
        <2> QED
            BY <2>1, <2>2, MatchTakesUp
    <1>7. CASE NotFound(r)
        <2>1. /\ pc[r] = "lookup" /\ pc'[r] = "rejected"
              /\ plan' = plan /\ rows' = rows /\ chunks' = chunks /\ unclean' = unclean
            BY <1>1, <1>7 DEF NotFound, GoTo, store, trace
        <2>2. OnlyMoves(r)
            BY <1>1, <1>7 DEF NotFound, GoTo, OnlyMoves
        <2>3. r \notin At(d) /\ r \notin At(d)'
            BY <2>1 DEF At, Working
        <2> QED
            BY <2>1, <2>2, <2>3, MatchElsewhere
    <1>8. CASE DeleteChunks(r)
        <2>1. /\ pc[r] = "unchunk" /\ pc'[r] = "unrow" /\ local' = local /\ plan' = plan
              /\ rows' = rows /\ chunks' = [chunks EXCEPT ![e] = NoChunks] /\ unclean' = unclean
            BY <1>1, <1>8 DEF DeleteChunks, Cleared, GoTo, trace
        <2>2. OnlyMoves(r)
            BY <1>1, <1>8, <2>1 DEF DeleteChunks, GoTo, OnlyMoves
        <2>3. CASE d # e
            BY <1>2, <1>3, <2>1, <2>2, <2>3, MatchElsewhere DEF At
        <2>4. CASE d = e
            <3>1. r \in At(d)
                BY <1>3, <2>1, <2>4
            <3>2. r \in At(d)'
                BY <2>1, <3>1 DEF At, Working
            <3>3. chunks'[d] = NoChunks
                BY <1>2, <2>1, <2>4
            <3>4. local[r].alone => Knows(r, d)'
                BY <1>4, <1>5, <2>1, <3>1, <3>3 DEF Knows, NoChunks
            <3> QED
                BY <2>1, <2>2, <3>1, <3>2, <3>4, MatchHere DEF Clean
        <2> QED
            BY <2>3, <2>4
    <1>9. CASE DeleteRow(r)
        <2>1. /\ pc[r] = "unrow" /\ pc'[r] = "unstore" /\ local' = local /\ plan' = plan
              /\ rows' = [rows EXCEPT ![e] = NoRow]
              /\ chunks' = chunks \/ chunks' = [chunks EXCEPT ![e] = NoChunks]
              /\ unclean' = IF local[r].alone THEN unclean \ {e} ELSE unclean
            BY <1>1, <1>9 DEF DeleteRow, Cleared, GoTo
        <2>2. OnlyMoves(r)
            BY <1>1, <1>9, <2>1 DEF DeleteRow, GoTo, OnlyMoves
        <2>3. rows \in [Ids -> {NoRow} \cup Document]
            BY DEF TypeInv, Tables
        <2>4. CASE d # e
            <3>1. rows'[d] = rows[d] /\ chunks'[d] = chunks[d] /\ (d \in unclean' <=> d \in unclean)
                BY <1>2, <2>1, <2>3, <2>4
            <3>2. r \notin At(d) /\ r \notin At(d)'
                BY <1>3, <2>1, <2>4 DEF At
            <3> QED
                BY <2>2, <3>1, <3>2, MatchElsewhere
        <2>5. CASE d = e
            <3>1. r \in At(d)
                BY <1>3, <2>1, <2>5
            <3>2. r \in At(d)'
                BY <2>1, <3>1 DEF At, Working
            <3>3. rows'[d] = NoRow
                BY <2>1, <2>3, <2>5
            <3>4. local[r].alone => Match(d)'
                <4>1. local[r].alone => chunks[d] = NoChunks
                    BY <1>4, <2>1, <3>1 DEF Knows
                <4>2. local[r].alone => chunks'[d] = NoChunks
                    BY <1>2, <2>1, <2>5, <4>1
                <4> QED
                    BY <3>3, <4>2 DEF Match, Exists, NoChunks
            <3>5. Knows(r, d)'
                BY <2>1 DEF Knows
            <3> QED
                BY <2>1, <2>2, <3>1, <3>2, <3>4, <3>5, MatchHere
        <2> QED
            BY <2>4, <2>5
    <1>10. CASE DeleteObject(r) \/ DeleteObjectFails(r)
        <2>1. /\ pc[r] = "unstore" /\ pc'[r] = "ok" /\ plan' = plan
              /\ rows' = rows /\ chunks' = chunks /\ unclean' = unclean
            BY <1>1, <1>10 DEF DeleteObject, DeleteObjectFails, Ends, GoTo, store, trace
        <2>2. OnlyMoves(r)
            BY <1>1, <1>10 DEF DeleteObject, DeleteObjectFails, Ends, GoTo, OnlyMoves
        <2>3. r \notin At(d)'
            BY <2>1 DEF At, Working
        <2>4. CASE d # e
            BY <1>3, <2>1, <2>2, <2>3, <2>4, MatchElsewhere
        <2>5. CASE d = e
            <3>1. r \in At(d)
                BY <1>3, <2>1, <2>5
            <3>2. local[r].alone => (d \notin unclean' => Match(d)')
                BY <1>4, <1>5, <2>1, <3>1 DEF MatchInv, CleanMatch, Clean, Match
            <3> QED
                BY <2>1, <2>2, <2>3, <3>1, <3>2, MatchHere
        <2> QED
            BY <2>4, <2>5
    <1> QED
        BY <1>6, <1>7, <1>8, <1>9, <1>10 DEF Delete

\* The documents stay as they should be, whatever step is taken.
MatchAll == TypeInv /\ \A d \in Ids : MatchInv(d)

\* At first no document is there, and nobody is at one.
LEMMA MatchInit == Init => MatchAll
    <1> SUFFICES ASSUME Init PROVE MatchAll
        OBVIOUS
    <1>1. ASSUME NEW d \in Ids PROVE MatchInv(d)
        <2>1. At(d) = {}
            BY DEF Init, At, Working
        <2>2. Match(d)
            BY DEF Init, Match, Exists
        <2> QED
            BY <2>1, <2>2 DEF MatchInv, OneAlone, AloneKnow, CleanMatch
    <1> QED
        BY <1>1, TypeInit DEF MatchAll

\* Every step keeps the documents as they should be.
LEMMA MatchNext == MatchAll /\ [Next]_vars => MatchAll'
    <1> SUFFICES ASSUME MatchAll, [Next]_vars PROVE MatchAll'
        OBVIOUS
    <1>1. TypeInv /\ TypeInv'
        BY TypeNext DEF MatchAll
    <1>2. ASSUME NEW d \in Ids, MatchInv(d)
          PROVE  MatchInv(d)'
        <2>1. CASE UNCHANGED vars
            <3>1. At(d)' = At(d)
                BY <2>1 DEF vars, At
            <3> QED
                BY <1>2, <2>1, <3>1, NothingHappens DEF vars, store, trace
        <2>2. ASSUME NEW r \in Requests, Arrive(r) \/ Ingest(r) \/ Delete(r)
              PROVE  MatchInv(d)'
            BY <1>1, <1>2, <2>2, MatchArrive, MatchSave, MatchPut, MatchDelete DEF Ingest
        <2>3. ASSUME NEW r \in Requests, HandlerThrows(r)
              PROVE  MatchInv(d)'
            <3>1. /\ {r} \in SUBSET Requests /\ Fails({r})
                  /\ plan' = plan /\ rows' = rows /\ chunks' = chunks
                BY <2>3 DEF HandlerThrows, store
            <3> QED
                BY <1>1, <1>2, <3>1, MatchFails
        <2>4. CASE GatewayCrash
            <3>1. PICK lost \in SUBSET Requests : Fails(lost)
                BY <2>4 DEF GatewayCrash
            <3>2. plan' = plan /\ rows' = rows /\ chunks' = chunks
                BY <2>4 DEF GatewayCrash, store
            <3> QED
                BY <1>1, <1>2, <3>1, <3>2, MatchFails
        <2> QED
            BY <2>1, <2>2, <2>3, <2>4 DEF Next
    <1> QED
        BY <1>1, <1>2 DEF MatchAll

\* The chunks that a search can find of a document are those of its row's last
\* content, and none of a document that was deleted, unless requests overlapped
\* at it or one failed between its writes: ingestDocument and deleteDocument make
\* several calls, none of which is in a transaction with another.
THEOREM DocumentsChunksMatchRows == Spec => []ChunksMatchRows
    <1>1. MatchAll => ChunksMatchRows
        BY DEF MatchAll, MatchInv, CleanMatch, Match, ChunksMatchRows, Settled
    <1> QED
        BY <1>1, MatchInit, MatchNext, PTL DEF Spec

\* A search can find every paragraph of a document, but for those that are longer
\* than a chunk, in one piece: chunkText leaves out no unit and cuts none that fits,
\* and the chunks of its content are all in the vector store. No chunk is longer
\* than the limit, and each begins later in the text than the one before.
THEOREM DocumentsChunksCoverText == Spec => []ChunksCoverText
    <1>1. MatchAll => ChunksCoverText
        <2> SUFFICES ASSUME MatchAll, NEW d \in Ids, Settled(d), Exists(d)
                     PROVE  LET c == rows[d].content
                                list == Chunked[c]
                                paragraphs == SplitParagraphs(c)
                            IN  /\ \A n \in DOMAIN list : list[n].length <= MaxChunkChars
                                /\ \A n \in DOMAIN list \ {1} :
                                      Min(list[n - 1].chars) < Min(list[n].chars)
                                /\ \A k \in DOMAIN paragraphs : ~Oversized(paragraphs[k]) =>
                                      \E n \in DOMAIN list :
                                          /\ chunks[d][n] = c
                                          /\ paragraphs[k].from..paragraphs[k].to
                                                 \subseteq list[n].chars
            BY DEF ChunksCoverText
        <2> PICK c, list, paragraphs :
                c = rows[d].content /\ list = Chunked[c] /\ paragraphs = SplitParagraphs(c)
            OBVIOUS
        <2>1. c \in Contents /\ c \in Seq(Characters)
            <3>1. rows[d] \in Document
                BY DEF MatchAll, TypeInv, Tables, Exists
            <3> QED
                BY <3>1, DocumentsAssumption DEF Document
        <2>2. list = ChunkText(c)
            BY <2>1 DEF Chunked
        <2>3. chunks[d] = ChunksOf(c)
            BY DEF MatchAll, MatchInv, CleanMatch, Match, Settled
        <2>4. /\ Len(list) \in Nat /\ DOMAIN list = 1..Len(list)
              /\ \A n \in DOMAIN list : list[n].length <= MaxChunkChars
              /\ \A n \in DOMAIN list \ {1} : Min(list[n - 1].chars) < Min(list[n].chars)
              /\ \A k \in DOMAIN paragraphs : ~Oversized(paragraphs[k]) =>
                    \E n \in DOMAIN list :
                        paragraphs[k].from..paragraphs[k].to \subseteq list[n].chars
            BY <2>1, <2>2, ChunksOfText
        <2>5. \A n \in DOMAIN list : chunks[d][n] = c
            <3>1. Len(list) <= MaxChunks /\ MaxChunks \in Nat
                BY <2>1, ChunkCounts
            <3>2. \A n \in DOMAIN list : n \in 1..MaxChunks /\ n <= Len(list)
                BY <2>4, <3>1
            <3> QED
                BY <2>3, <3>2 DEF ChunksOf
        <2> QED
            BY <2>4, <2>5
    <1> QED
        BY <1>1, MatchInit, MatchNext, PTL DEF Spec

-----------------------------------------------------------------------------
(* Objects.  A row keeps its source and no two have the same; the row of   *)
(* an upload is inserted once, after its object, which goes only with it.  *)

\* An upload past the insertion of its row.
Inserted(o) == plan[o].kind = "upload" /\ pc[o] \in {"embed", "clear", "put", "ok", "failed"}
\* Whoever deletes a document and has read its row.
Deletes(r) == pc[r] \in {"unchunk", "unrow", "unstore"}

RowsAreNamed(o) == \A d \in Find(o) : o \in objects /\ Inserted(o)
OneRow(o) == \A d, e \in Find(o) : d = e
Uploading(o) ==
    plan[o].kind = "upload" =>
        /\ pc[o] \in {"find", "save"} => o \in objects
        /\ pc[o] = "save" => local[o].id = 0
DeletersKnow(o) ==
    \A r \in Requests : (Deletes(r) /\ local[r].read.source = o) =>
        /\ Inserted(o)
        /\ \A d \in Find(o) : local[r].id = d
        /\ pc[r] = "unstore" => Find(o) = {}
Accounted(o) ==
    o \in objects => /\ plan[o].kind = "upload"
                     /\ \/ Find(o) # {}
                        \/ pc[o] \in {"find", "save", "failed"}
                        \/ o \in kept
                        \/ \E r \in Requests : pc[r] = "unstore" /\ local[r].read.source = o
ObjectInv(o) ==
    RowsAreNamed(o) /\ OneRow(o) /\ Uploading(o) /\ DeletersKnow(o) /\ Accounted(o)

\* The source a deletion read is that of the row, as long as there is one.
SourceStays(r) ==
    Deletes(r) /\ Exists(local[r].id) => rows[local[r].id].source = local[r].read.source

ObjectAll == TypeInv /\ \A o \in Requests : ObjectInv(o) /\ SourceStays(o)

\* Nothing happens to the object of o or to its row.
LEMMA ObjectStays ==
    ASSUME NEW o \in Requests, ObjectInv(o), plan' = plan,
           Find(o)' = Find(o), o \in objects' <=> o \in objects, kept \subseteq kept',
           plan[o].kind = "upload" =>
               /\ Inserted(o) => Inserted(o)'
               /\ pc[o] \in {"find", "save", "failed"} => pc'[o] \in {"find", "save", "failed"}
               /\ pc'[o] \in {"find", "save"} => pc[o] \in {"find", "save"}
               /\ pc'[o] = "save" => local'[o].id = 0,
           \A q \in Requests :
               /\ (Deletes(q)' /\ local'[q].read.source = o) =>
                      /\ Deletes(q) /\ local[q].read.source = o /\ local'[q].id = local[q].id
                      /\ pc'[q] = "unstore" => pc[q] = "unstore"
               /\ (pc[q] = "unstore" /\ local[q].read.source = o) =>
                      (pc'[q] = "unstore" /\ local'[q].read.source = o) \/ o \in kept'
    PROVE  ObjectInv(o)'
    <1>1. RowsAreNamed(o)'
        BY DEF ObjectInv, RowsAreNamed, Inserted
    <1>2. OneRow(o)'
        BY DEF ObjectInv, OneRow
    <1>3. Uploading(o)'
        BY DEF ObjectInv, Uploading
    <1>4. DeletersKnow(o)'
        <2> SUFFICES ASSUME NEW r \in Requests, Deletes(r)', local'[r].read.source = o
                     PROVE  /\ Inserted(o)'
                            /\ \A d \in Find(o)' : local'[r].id = d
                            /\ pc'[r] = "unstore" => Find(o)' = {}
            BY DEF DeletersKnow
        <2>1. /\ Deletes(r) /\ local[r].read.source = o /\ local'[r].id = local[r].id
              /\ pc'[r] = "unstore" => pc[r] = "unstore"
            OBVIOUS
        <2>2. /\ Inserted(o) /\ \A d \in Find(o) : local[r].id = d
              /\ pc[r] = "unstore" => Find(o) = {}
            BY <2>1 DEF ObjectInv, DeletersKnow
        <2>3. Inserted(o)'
            BY <2>2 DEF Inserted
        <2> QED
            BY <2>1, <2>2, <2>3
    <1>5. Accounted(o)'
        <2> SUFFICES ASSUME o \in objects PROVE Accounted(o)'
            BY DEF Accounted
        <2>1. plan[o].kind = "upload"
            BY DEF ObjectInv, Accounted
        <2>2. \/ Find(o) # {}
              \/ pc[o] \in {"find", "save", "failed"}
              \/ o \in kept
              \/ \E r \in Requests : pc[r] = "unstore" /\ local[r].read.source = o
            BY DEF ObjectInv, Accounted
        <2>3. \/ Find(o)' # {}
              \/ pc'[o] \in {"find", "save", "failed"}
              \/ o \in kept'
              \/ \E r \in Requests : pc'[r] = "unstore" /\ local'[r].read.source = o
            BY <2>1, <2>2
        <2> QED
            BY <2>1, <2>3 DEF Accounted
    <1> QED
        BY <1>1, <1>2, <1>3, <1>4, <1>5 DEF ObjectInv

\* A step of one handler, of which the others notice at most that they are not
\* alone any more.
Quiet(r) ==
    /\ plan' = plan
    /\ \A q \in Requests \ {r} : /\ pc'[q] = pc[q]
                                 /\ local'[q].id = local[q].id /\ local'[q].read = local[q].read

\* Such a step keeps the object of o if it is not about it.
LEMMA ObjectKept ==
    ASSUME NEW o \in Requests, ObjectInv(o), NEW r \in Requests, Quiet(r),
           Find(o)' = Find(o), o \in objects' <=> o \in objects, kept \subseteq kept',
           (r = o /\ plan[o].kind = "upload") =>
               /\ Inserted(o) => Inserted(o)'
               /\ pc[o] \in {"find", "save", "failed"} => pc'[o] \in {"find", "save", "failed"}
               /\ pc'[o] \in {"find", "save"} => pc[o] \in {"find", "save"}
               /\ pc'[o] = "save" => local'[o].id = 0,
           (Deletes(r)' /\ local'[r].read.source = o) =>
               /\ Deletes(r) /\ local[r].read.source = o /\ local'[r].id = local[r].id
               /\ pc'[r] = "unstore" => pc[r] = "unstore",
           (pc[r] = "unstore" /\ local[r].read.source = o) =>
               (pc'[r] = "unstore" /\ local'[r].read.source = o) \/ o \in kept'
    PROVE  ObjectInv(o)'
    <1>1. plan[o].kind = "upload" =>
              /\ Inserted(o) => Inserted(o)'
              /\ pc[o] \in {"find", "save", "failed"} => pc'[o] \in {"find", "save", "failed"}
              /\ pc'[o] \in {"find", "save"} => pc[o] \in {"find", "save"}
              /\ pc'[o] = "save" => local'[o].id = 0
        <2>1. CASE r = o
            BY <2>1
        <2>2. CASE r # o
            <3>1. plan' = plan /\ pc'[o] = pc[o] /\ local'[o].id = local[o].id
                BY <2>2 DEF Quiet
            <3> QED
                BY <3>1 DEF Inserted, ObjectInv, Uploading
        <2> QED
            BY <2>1, <2>2
    <1>2. \A q \in Requests :
              /\ (Deletes(q)' /\ local'[q].read.source = o) =>
                     /\ Deletes(q) /\ local[q].read.source = o /\ local'[q].id = local[q].id
                     /\ pc'[q] = "unstore" => pc[q] = "unstore"
              /\ (pc[q] = "unstore" /\ local[q].read.source = o) =>
                     (pc'[q] = "unstore" /\ local'[q].read.source = o) \/ o \in kept'
        <2> SUFFICES ASSUME NEW q \in Requests, q # r
                     PROVE  /\ (Deletes(q)' /\ local'[q].read.source = o) =>
                                   /\ Deletes(q) /\ local[q].read.source = o
                                   /\ local'[q].id = local[q].id
                                   /\ pc'[q] = "unstore" => pc[q] = "unstore"
                            /\ (pc[q] = "unstore" /\ local[q].read.source = o) =>
                                   \/ pc'[q] = "unstore" /\ local'[q].read.source = o
                                   \/ o \in kept'
            OBVIOUS
        <2> QED
            BY DEF Quiet, Deletes
    <1> QED
        BY <1>1, <1>2, ObjectStays DEF Quiet

\* A step of one handler is quiet if it changes no other's variables.
LEMMA MovesAreQuiet ==
    ASSUME NEW r \in Requests, OnlyMoves(r)
    PROVE  Quiet(r)
    BY DEF OnlyMoves, Quiet

\* What was read is found again.
LEMMA RowsStay ==
    ASSUME rows' = rows, NEW o
    PROVE  Find(o)' = Find(o) /\ \A d : Exists(d)' <=> Exists(d)
    BY DEF Find, Exists

\* Arrivals are about no object.
LEMMA ObjectArrive ==
    ASSUME TypeInv, NEW o \in Requests, ObjectInv(o), NEW r \in Requests, Arrive(r)
    PROVE  ObjectInv(o)'
    <1>1. pc \in [Requests -> PcValues] /\ local \in [Requests -> Locals]
        BY DEF TypeInv, Handlers
    <1>2. /\ pc[r] = "absent" /\ rows' = rows /\ objects' = objects /\ kept' = kept
          /\ pc'[r] \in {"find", "upload", "rejected", "lookup"}
          /\ pc'[r] = "find" => plan[r].kind = "run"
        BY <1>1
        DEF Arrive, StartRun, AcceptUpload, RejectUpload, PickForDeletion, store, trace, GoTo
    <1>3. OnlyMoves(r)
        BY <1>1 DEF Arrive, StartRun, AcceptUpload, RejectUpload, PickForDeletion, GoTo, OnlyMoves
    <1>4. Quiet(r) /\ Find(o)' = Find(o)
        BY <1>2, <1>3, MovesAreQuiet, RowsStay
    <1> QED
        BY <1>2, <1>4, ObjectKept DEF Deletes, Inserted

\* Steps of an ingestion that are about its row.
LEMMA ObjectSave ==
    ASSUME TypeInv, NEW o \in Requests, ObjectInv(o), NEW r \in Requests,
           \/ SaveObject(r) \/ FindBySource(r) \/ UpdateRow(r) \/ InsertRow(r)
    PROVE  ObjectInv(o)'
    <1>1. /\ pc \in [Requests -> PcValues] /\ local \in [Requests -> Locals]
          /\ HandlerInv(r)
        BY DEF TypeInv, Handlers
    <1>2. rows \in [Ids -> {NoRow} \cup Document] /\ inserted \in Int
        BY DEF TypeInv, Tables, Scalars
    <1>3. CASE SaveObject(r)
        <2>1. /\ pc[r] = "upload" /\ pc'[r] = "find" /\ local' = local /\ rows' = rows
              /\ objects' = objects \cup {r} /\ kept' = kept /\ plan' = plan
              /\ plan[r].kind = "upload"
            BY <1>1, <1>3 DEF SaveObject, GoTo, store, trace, HandlerInv
        <2>2. OnlyMoves(r) /\ Find(o)' = Find(o)
            BY <1>1, <1>3, <2>1, RowsStay DEF SaveObject, GoTo, OnlyMoves
        <2>3. CASE r # o
            BY <2>1, <2>2, <2>3, MovesAreQuiet, ObjectKept DEF Deletes
        <2>4. CASE r = o
            <3>1. ~Inserted(o)
                BY <2>1, <2>4 DEF Inserted
            <3>2. Find(o) = {}
                BY <3>1 DEF ObjectInv, RowsAreNamed
            <3>3. \A q \in Requests : ~(Deletes(q) /\ local[q].read.source = o)
                BY <3>1 DEF ObjectInv, DeletersKnow
            <3>4. \A q \in Requests : ~(Deletes(q)' /\ local'[q].read.source = o)
                BY <2>1, <2>2, <3>3 DEF OnlyMoves, Deletes
            <3> QED
                BY <2>1, <2>2, <2>4, <3>2, <3>4
                DEF ObjectInv, RowsAreNamed, OneRow, Uploading, DeletersKnow, Accounted
        <2> QED
            BY <2>3, <2>4
    <1>4. CASE FindBySource(r)
        <2>1. /\ pc[r] = "find" /\ pc'[r] = "save" /\ rows' = rows /\ objects' = objects
              /\ kept' = kept /\ plan' = plan
            BY <1>1, <1>4 DEF FindBySource, GoTo, store
        <2>2. PICK e, row : /\ TakeUp(r, e, row)
                            /\ Find(Item(r).source) = {} => e = 0
            BY <1>4 DEF FindBySource
        <2>3. Quiet(r)
            <3>1. \A q \in Requests \ {r} :
                      local'[q] = local[q] \/ local'[q] = [local[q] EXCEPT !.alone = FALSE]
                BY <2>2 DEF TakeUp
            <3>2. \A q \in Requests : LET less == [local[q] EXCEPT !.alone = FALSE]
                                      IN  less.id = local[q].id /\ less.read = local[q].read
                BY <1>1 DEF Locals
            <3>3. \A q \in Requests \ {r} : pc'[q] = pc[q]
                BY <1>1, <1>4 DEF FindBySource, GoTo
            <3> QED
                BY <2>1, <3>1, <3>2, <3>3 DEF Quiet
        <2>4. (r = o /\ plan[o].kind = "upload") => local'[o].id = 0
            <3> SUFFICES ASSUME r = o, plan[o].kind = "upload" PROVE local'[o].id = 0
                OBVIOUS
            <3>1. Find(o) = {}
                BY <2>1 DEF ObjectInv, RowsAreNamed, Inserted
            <3>2. Item(r).source = o
                BY <2>1, ItemFacts DEF Ingesting
            <3>3. local'[r] = [local[r] EXCEPT !.id = e, !.read = row, !.alone = At(e) = {}]
                BY <2>2 DEF TakeUp
            <3>4. local'[r].id = e
                BY <1>1, <3>3 DEF Locals
            <3> QED
                BY <2>2, <3>1, <3>2, <3>4
        <2>5. Find(o)' = Find(o)
            BY <2>1, RowsStay
        <2> QED
            BY <2>1, <2>3, <2>4, <2>5, ObjectKept DEF Deletes, Inserted
    <1>5. CASE UpdateRow(r)
        <2> DEFINE e == local[r].id
        <2>1. /\ pc[r] = "save" /\ Exists(e) /\ plan' = plan /\ objects' = objects /\ kept' = kept
              /\ e # 0
              /\ IF Changed(r) THEN GoTo(r, "embed") /\ local' = local ELSE Done(r)
            BY <1>5 DEF UpdateRow, trace, Exists
        <2>2. Quiet(r)
            BY <1>1, <2>1, DoneLeaves, MovesAreQuiet DEF GoTo, OnlyMoves
        <2>3. pc'[r] \in {"embed", "find", "ok"}
            BY <1>1, <2>1 DEF GoTo, Done, Ends
        <2>4. r = o => plan[o].kind # "upload"
            BY <2>1 DEF ObjectInv, Uploading
        <2>5. Find(o)' = Find(o)
            <3>1. e \in Ids /\ rows[e] \in Document
                <4>1. e \in 1..MaxRows
                    BY <1>1, <1>2, <2>1, DocumentsAssumption
                    DEF HandlerInv, Exists, TypeInv, Scalars
                <4> QED
                    BY <2>1, <4>1, RowsRead DEF Ids
            <3>2. local[r].read.version \in Nat \ {0}
                BY <1>1, <2>1 DEF HandlerInv, Document
            <3>3. /\ rows'[e].source = rows[e].source
                  /\ rows'[e].version = local[r].read.version + (IF Changed(r) THEN 1 ELSE 0)
                BY <1>2, <1>5, <3>1 DEF UpdateRow, Document
            <3>4. rows'[e] # NoRow
                <4>1. rows'[e].version \in Nat \ {0}
                    BY <3>2, <3>3
                <4> QED
                    BY <4>1, NoRowHasNoVersion
            <3>5. \A d \in Ids : d # e => rows'[d] = rows[d]
                BY <1>2, <1>5 DEF UpdateRow
            <3>6. \A d \in Ids : d \in Find(o)' <=> d \in Find(o)
                BY <2>1, <3>1, <3>3, <3>4, <3>5 DEF Find, Exists
            <3> QED
                BY <3>6 DEF Find
        <2> QED
            BY <2>1, <2>2, <2>3, <2>4, <2>5, ObjectKept DEF Deletes
    <1>6. CASE InsertRow(r)
        <2> DEFINE e == inserted + 1
        <2>1. /\ pc[r] = "save" /\ local[r].id = 0 /\ plan' = plan /\ objects' = objects
              /\ kept' = kept /\ pc'[r] = "embed" /\ Find(Item(r).source) = {}
              /\ rows' = [rows EXCEPT ![e] = [source |-> Item(r).source, version |-> 1,
                                              content |-> Item(r).content]]
              /\ OnlyMoves(r) /\ inserted < MaxRows
              /\ \A q \in Requests \ {r} : pc'[q] = pc[q] /\ local'[q] = local[q]
            BY <1>1, <1>6 DEF InsertRow, trace, GoTo, OnlyMoves
        <2>2. e \in Ids /\ e # 0 /\ ~Exists(e)
            BY <1>2, <2>1, DocumentsAssumption DEF TypeInv, Tables, Scalars, Ids
        <2>3. rows'[e].source = Item(r).source /\ rows'[e] # NoRow
            <3>1. rows'[e] = [source |-> Item(r).source, version |-> 1,
                              content |-> Item(r).content]
                BY <1>2, <2>1, <2>2
            <3>2. rows'[e].source = Item(r).source /\ rows'[e].version = 1
                BY <3>1
            <3> QED
                BY <3>2, NoRowHasNoVersion
        <2>4. \A d \in Ids : d # e => rows'[d] = rows[d]
            BY <1>2, <2>1
        <2>5. Find(o)' = IF Item(r).source = o THEN {e} ELSE Find(o)
            <3>1. \A d \in Ids : d # e => (d \in Find(o)' <=> d \in Find(o))
                BY <2>4 DEF Find, Exists
            <3>2. e \in Find(o)' <=> Item(r).source = o
                BY <2>2, <2>3 DEF Find, Exists
            <3>3. e \notin Find(o)
                BY <2>2 DEF Find
            <3>4. Item(r).source = o => Find(o) = {}
                BY <2>1
            <3>5. Find(o) \subseteq Ids /\ Find(o)' \subseteq Ids
                BY DEF Find
            <3> HIDE DEF e
            <3> QED
                BY <2>2, <3>1, <3>2, <3>3, <3>4, <3>5
        <2>6. r = o /\ plan[o].kind = "upload" <=> Item(r).source = o
            BY <1>1, <2>1, ItemFacts, DocumentsAssumption DEF Ingesting, HandlerInv
        <2>7. CASE Item(r).source = o
            <3>1. plan[o].kind = "upload" /\ r = o
                BY <2>6, <2>7
            <3>2. ~Inserted(o) /\ Inserted(o)'
                BY <2>1, <3>1 DEF Inserted
            <3>3. \A q \in Requests : ~(Deletes(q) /\ local[q].read.source = o)
                BY <3>2 DEF ObjectInv, DeletersKnow
            <3>4. \A q \in Requests : ~(Deletes(q)' /\ local'[q].read.source = o)
                BY <2>1, <3>3 DEF Deletes
            <3>5. o \in objects'
                BY <2>1, <3>1 DEF ObjectInv, Uploading
            <3>6. Find(o)' = {e}
                BY <2>5, <2>7
            <3>7. /\ RowsAreNamed(o)' /\ OneRow(o)'
                BY <3>2, <3>5, <3>6 DEF RowsAreNamed, OneRow
            <3>8. Uploading(o)' /\ DeletersKnow(o)'
                BY <2>1, <3>1, <3>4 DEF Uploading, DeletersKnow
            <3>9. Accounted(o)'
                BY <2>1, <3>1, <3>6 DEF Accounted
            <3> QED
                BY <3>7, <3>8, <3>9 DEF ObjectInv
        <2>8. CASE Item(r).source # o
            <3>1. Find(o)' = Find(o) /\ ~(r = o /\ plan[o].kind = "upload")
                BY <2>5, <2>6, <2>8
            <3> QED
                BY <2>1, <3>1, MovesAreQuiet, ObjectKept DEF Deletes
        <2> QED
            BY <2>7, <2>8
    <1> QED
        BY <1>3, <1>4, <1>5, <1>6

\* Steps of an ingestion that are about its chunks.
LEMMA ObjectPut ==
    ASSUME TypeInv, NEW o \in Requests, ObjectInv(o), NEW r \in Requests,
           EmbedBatch(r) \/ ClearChunks(r) \/ PutChunk(r) \/ PutChunks(r) \/ FinishIngest(r)
    PROVE  ObjectInv(o)'
    <1>1. /\ pc \in [Requests -> PcValues] /\ local \in [Requests -> Locals]
          /\ HandlerInv(r)
        BY DEF TypeInv, Handlers
    <1>2. /\ pc[r] \in {"embed", "clear", "put"} /\ plan' = plan /\ rows' = rows
          /\ objects' = objects /\ kept' = kept
        BY DEF EmbedBatch, ClearChunks, PutChunk, PutChunks, FinishIngest, store, trace
    <1>3. OnlyMoves(r)
        <2>1. FinishIngest(r) => OnlyMoves(r)
            BY <1>2, DoneLeaves DEF FinishIngest
        <2>2. EmbedBatch(r) \/ ClearChunks(r) => OnlyMoves(r)
            BY <1>1, <1>2 DEF EmbedBatch, ClearChunks, GoTo, OnlyMoves
        <2>3. PutChunk(r) \/ PutChunks(r) => OnlyMoves(r)
            BY <1>1, <1>2 DEF PutChunk, PutChunks, OnlyMoves
        <2> QED
            BY <2>1, <2>2, <2>3
    <1>4. /\ pc'[r] \in {"clear", "put", "ok", "find"}
          /\ plan[r].kind = "upload" => pc'[r] # "find"
        <2>1. CASE FinishIngest(r)
            <3>1. plan[r].kind = "upload" => ~(local[r].at < Len(plan[r].items))
                <4>1. plan[r].kind = "upload" => local[r].at = 1 /\ Len(plan[r].items) = 1
                    BY <1>2, ItemFacts, PlanFacts DEF Ingesting, TypeInv, Scalars
                <4>2. ~(1 < 1)
                    OBVIOUS
                <4> QED
                    BY ZenonT(30), <4>1, <4>2
            <3>2. CASE local[r].at < Len(plan[r].items)
                <4>1. pc' = [pc EXCEPT ![r] = "find"]
                    BY <2>1, <3>2 DEF FinishIngest, Done, GoTo
                <4> QED
                    BY <1>1, <3>1, <3>2, <4>1
            <3>3. CASE ~(local[r].at < Len(plan[r].items))
                <4>1. pc' = [pc EXCEPT ![r] = "ok"]
                    BY <2>1, <3>3 DEF FinishIngest, Done, Ends, GoTo
                <4> QED
                    BY <1>1, <4>1
            <3> QED
                BY <3>2, <3>3
        <2>2. CASE EmbedBatch(r) \/ ClearChunks(r)
            BY <1>1, <2>2 DEF EmbedBatch, ClearChunks, GoTo
        <2>3. CASE PutChunk(r) \/ PutChunks(r)
            BY <2>3 DEF PutChunk, PutChunks
        <2> QED
            BY <2>1, <2>2, <2>3
    <1>5. Quiet(r) /\ Find(o)' = Find(o)
        BY <1>2, <1>3, MovesAreQuiet, RowsStay
    <1> QED
        BY <1>2, <1>4, <1>5, ObjectKept DEF Deletes, Inserted

\* Steps of a deletion.
LEMMA ObjectDelete ==
    ASSUME TypeInv, NEW o \in Requests, ObjectInv(o), NEW r \in Requests, SourceStays(r),
           Delete(r)
    PROVE  ObjectInv(o)'
    <1> DEFINE e == local[r].id
    <1>1. /\ pc \in [Requests -> PcValues] /\ local \in [Requests -> Locals]
          /\ HandlerInv(r)
        BY DEF TypeInv, Handlers
    <1>2. rows \in [Ids -> {NoRow} \cup Document]
        BY DEF TypeInv, Tables
    <1>3. CASE FindById(r)
        <2>1. /\ pc[r] = "lookup" /\ pc'[r] = "unchunk" /\ Exists(e) /\ TakeUp(r, e, rows[e])
              /\ plan' = plan /\ rows' = rows /\ objects' = objects /\ kept' = kept
              /\ plan[r].kind = "delete"
            BY <1>1, <1>3 DEF FindById, store, GoTo, HandlerInv, Deleting
        <2>2. Quiet(r)
            <3>1. \A q \in Requests \ {r} :
                      local'[q] = local[q] \/ local'[q] = [local[q] EXCEPT !.alone = FALSE]
                BY <2>1 DEF TakeUp
            <3>2. \A q \in Requests : LET less == [local[q] EXCEPT !.alone = FALSE]
                                      IN  less.id = local[q].id /\ less.read = local[q].read
                BY <1>1 DEF Locals
            <3>3. \A q \in Requests \ {r} : pc'[q] = pc[q]
                BY <1>1, <1>3 DEF FindById, GoTo
            <3> QED
                BY <2>1, <3>1, <3>2, <3>3 DEF Quiet
        <2>3. local'[r].read = rows[e] /\ local'[r].id = e
            <3>1. local'[r] = [local[r] EXCEPT !.id = e, !.read = rows[e], !.alone = At(e) = {}]
                BY <2>1 DEF TakeUp
            <3> QED
                BY <1>1, <3>1 DEF Locals
        <2>4. Find(o)' = Find(o)
            BY <2>1, RowsStay
        <2>5. CASE rows[e].source # o
            BY <2>1, <2>2, <2>3, <2>4, <2>5, ObjectKept DEF Deletes
        <2>6. CASE rows[e].source = o
            <3>1. e \in Find(o)
                <4>1. e \in Ids
                    BY <1>1, <2>1, DocumentsAssumption
                    DEF HandlerInv, Exists, TypeInv, Scalars, Ids
                <4> QED
                    BY <2>1, <2>6, <4>1 DEF Find
            <3>2. o \in objects /\ Inserted(o) /\ \A d \in Find(o) : d = e
                BY <3>1 DEF ObjectInv, RowsAreNamed, OneRow
            <3>3. Inserted(o)' /\ r # o
                BY <2>1, <2>2, <3>2 DEF Inserted, Quiet
            <3>4. RowsAreNamed(o)' /\ OneRow(o)' /\ Uploading(o)' /\ Accounted(o)'
                BY <2>1, <2>4, <3>1, <3>2, <3>3
                DEF RowsAreNamed, OneRow, Uploading, Accounted, Inserted
            <3>5. DeletersKnow(o)'
                <4> SUFFICES ASSUME NEW q \in Requests, Deletes(q)', local'[q].read.source = o
                             PROVE  /\ \A d \in Find(o)' : local'[q].id = d
                                    /\ pc'[q] = "unstore" => Find(o)' = {}
                    BY <3>3 DEF DeletersKnow
                <4>1. CASE q = r
                    BY <2>1, <2>3, <2>4, <3>2, <4>1
                <4>2. CASE q # r
                    BY <2>2, <2>4, <4>2 DEF ObjectInv, DeletersKnow, Quiet, Deletes
                <4> QED
                    BY <4>1, <4>2
            <3> QED
                BY <3>4, <3>5 DEF ObjectInv
        <2> QED
            BY <2>5, <2>6
    <1>4. CASE NotFound(r)
        <2>1. /\ pc[r] = "lookup" /\ pc'[r] = "rejected" /\ plan[r].kind = "delete"
              /\ plan' = plan /\ rows' = rows /\ objects' = objects /\ kept' = kept
            BY <1>1, <1>4 DEF NotFound, GoTo, store, trace, HandlerInv, Deleting
        <2>2. OnlyMoves(r)
            BY <1>1, <1>4 DEF NotFound, GoTo, OnlyMoves
        <2> QED
            BY <2>1, <2>2, MovesAreQuiet, RowsStay, ObjectKept DEF Deletes
    <1>5. CASE DeleteChunks(r)
        <2>1. /\ pc[r] = "unchunk" /\ pc'[r] = "unrow" /\ plan[r].kind = "delete" /\ local' = local
              /\ plan' = plan /\ rows' = rows /\ objects' = objects /\ kept' = kept
            BY <1>1, <1>5 DEF DeleteChunks, GoTo, store, trace, HandlerInv, Deleting
        <2>2. OnlyMoves(r)
            BY <1>1, <1>5 DEF DeleteChunks, GoTo, OnlyMoves
        <2> QED
            BY <2>1, <2>2, MovesAreQuiet, RowsStay, ObjectKept DEF Deletes
    <1>6. CASE DeleteRow(r)
        <2>1. /\ pc[r] = "unrow" /\ pc'[r] = "unstore" /\ plan[r].kind = "delete" /\ local' = local
              /\ plan' = plan /\ rows' = [rows EXCEPT ![e] = NoRow]
              /\ objects' = objects /\ kept' = kept
            BY <1>1, <1>6 DEF DeleteRow, GoTo, HandlerInv, Deleting
        <2>2. OnlyMoves(r)
            BY <1>1, <1>6 DEF DeleteRow, GoTo, OnlyMoves
        <2>3. e \in Ids
            BY <2>1, AtDocument
        <2>4. Find(o)' = Find(o) \ {e}
            <3>1. rows'[e] = NoRow /\ \A d \in Ids : d # e => rows'[d] = rows[d]
                BY <1>2, <2>1, <2>3
            <3>2. \A d \in Ids : d \in Find(o)' <=> d \in Find(o) /\ d # e
                BY <3>1 DEF Find, Exists
            <3>3. Find(o) \subseteq Ids /\ Find(o)' \subseteq Ids
                BY DEF Find
            <3> QED
                BY <3>2, <3>3
        <2>5. CASE local[r].read.source = o
            <3>1. Inserted(o) /\ \A d \in Find(o) : e = d
                BY <2>1, <2>5 DEF ObjectInv, DeletersKnow, Deletes
            <3>2. Find(o)' = {}
                BY <2>4, <3>1
            <3>3. r # o /\ pc'[o] = pc[o]
                BY <2>1, <2>2, <3>1 DEF Inserted, OnlyMoves
            <3>4. RowsAreNamed(o)' /\ OneRow(o)'
                BY <3>2 DEF RowsAreNamed, OneRow
            <3>5. Uploading(o)'
                BY <2>1, <3>1, <3>3 DEF Uploading, Inserted
            <3>6. DeletersKnow(o)'
                <4>1. Inserted(o)'
                    BY <2>1, <3>1, <3>3 DEF Inserted
                <4> QED
                    BY <3>2, <4>1 DEF DeletersKnow
            <3>7. Accounted(o)'
                BY <2>1, <2>5, <3>1 DEF Accounted, Inserted
            <3> QED
                BY <3>4, <3>5, <3>6, <3>7 DEF ObjectInv
        <2>6. CASE local[r].read.source # o
            <3>1. e \notin Find(o)
                BY <2>1, <2>6 DEF SourceStays, Deletes, Find
            <3>2. Find(o)' = Find(o)
                BY <2>4, <3>1
            <3> QED
                BY <2>1, <2>2, <2>6, <3>2, MovesAreQuiet, ObjectKept
        <2> QED
            BY <2>5, <2>6
    <1>7. CASE DeleteObject(r)
        <2>1. /\ pc[r] = "unstore" /\ pc'[r] = "ok" /\ plan[r].kind = "delete"
              /\ plan' = plan /\ rows' = rows /\ kept' = kept
              /\ objects' = objects \ ({local[r].read.source} \cap Requests)
            BY <1>1, <1>7 DEF DeleteObject, ObjectPath, Ends, GoTo, store, trace, HandlerInv, Deleting
        <2>2. OnlyMoves(r)
            BY <1>1, <1>7 DEF DeleteObject, Ends, GoTo, OnlyMoves
        <2>3. Find(o)' = Find(o)
            BY <2>1, RowsStay
        <2>4. CASE local[r].read.source = o
            <3>1. Inserted(o) /\ Find(o) = {}
                BY <2>1, <2>4 DEF ObjectInv, DeletersKnow, Deletes
            <3>2. r # o /\ pc'[o] = pc[o] /\ o \notin objects'
                BY <2>1, <2>2, <2>4, <3>1 DEF Inserted, OnlyMoves
            <3>3. RowsAreNamed(o)' /\ OneRow(o)'
                BY <2>3, <3>1 DEF RowsAreNamed, OneRow
            <3>4. Uploading(o)'
                BY <2>1, <3>1, <3>2 DEF Uploading, Inserted
            <3>5. DeletersKnow(o)'
                <4>1. Inserted(o)'
                    BY <2>1, <3>1, <3>2 DEF Inserted
                <4> QED
                    BY <2>3, <3>1, <4>1 DEF DeletersKnow
            <3>6. Accounted(o)'
                BY <3>2 DEF Accounted
            <3> QED
                BY <3>3, <3>4, <3>5, <3>6 DEF ObjectInv
        <2>5. CASE local[r].read.source # o
            <3>1. o \in objects' <=> o \in objects
                BY <2>1, <2>5
            <3> QED
                BY <2>1, <2>2, <2>3, <2>5, <3>1, MovesAreQuiet, ObjectKept DEF Deletes
        <2> QED
            BY <2>4, <2>5
    <1>8. CASE DeleteObjectFails(r)
        <2>1. /\ pc[r] = "unstore" /\ pc'[r] = "ok" /\ plan[r].kind = "delete"
              /\ plan' = plan /\ rows' = rows /\ objects' = objects
              /\ kept' = kept \cup ({local[r].read.source} \cap Requests)
            BY <1>1, <1>8 DEF DeleteObjectFails, ObjectPath, Ends, GoTo, store, HandlerInv, Deleting
        <2>2. OnlyMoves(r)
            BY <1>1, <1>8 DEF DeleteObjectFails, Ends, GoTo, OnlyMoves
        <2>3. local[r].read.source = o => o \in kept'
            BY <2>1
        <2> QED
            BY <2>1, <2>2, <2>3, MovesAreQuiet, RowsStay, ObjectKept DEF Deletes
    <1> QED
        BY <1>3, <1>4, <1>5, <1>6, <1>7, <1>8 DEF Delete

\* Failing requests end, and leave the objects where they are.
LEMMA ObjectFails ==
    ASSUME TypeInv, NEW o \in Requests, ObjectInv(o), NEW S \in SUBSET Requests, Fails(S),
           plan' = plan, rows' = rows, objects' = objects, kept \subseteq kept',
           \A q \in S : /\ pc[q] \in Working
                        /\ (pc[q] = "unstore" /\ local[q].read.source = o) => o \in kept'
    PROVE  ObjectInv(o)'
    <1>1. pc \in [Requests -> PcValues] /\ local \in [Requests -> Locals]
        BY DEF TypeInv, Handlers
    <1>2. \A q \in Requests : IF q \in S THEN pc'[q] = "failed"
                              ELSE pc'[q] = pc[q] /\ local'[q] = local[q]
        BY <1>1 DEF Fails
    <1>3. Find(o)' = Find(o)
        BY RowsStay
    <1>4. plan[o].kind = "upload" =>
              /\ Inserted(o) => Inserted(o)'
              /\ pc[o] \in {"find", "save", "failed"} => pc'[o] \in {"find", "save", "failed"}
              /\ pc'[o] \in {"find", "save"} => pc[o] \in {"find", "save"}
              /\ pc'[o] = "save" => local'[o].id = 0
        BY <1>2 DEF Inserted, ObjectInv, Uploading
    <1>5. \A q \in Requests :
              /\ (Deletes(q)' /\ local'[q].read.source = o) =>
                     /\ Deletes(q) /\ local[q].read.source = o /\ local'[q].id = local[q].id
                     /\ pc'[q] = "unstore" => pc[q] = "unstore"
              /\ (pc[q] = "unstore" /\ local[q].read.source = o) =>
                     (pc'[q] = "unstore" /\ local'[q].read.source = o) \/ o \in kept'
        BY <1>2 DEF Deletes
    <1> QED
        BY <1>3, <1>4, <1>5, ObjectStays

\* A document that was inserted keeps its source as long as it has a row.
KeepsSources == \A d \in 1..inserted : Exists(d)' => Exists(d) /\ rows'[d].source = rows[d].source

\* No step gives a document another source.
LEMMA SourcesKept == TypeInv /\ [Next]_vars => KeepsSources
    <1> SUFFICES ASSUME TypeInv, [Next]_vars PROVE KeepsSources
        OBVIOUS
    <1>1. rows \in [Ids -> {NoRow} \cup Document] /\ inserted \in 0..MaxRows
        BY DEF TypeInv, Tables, Scalars
    <1>2. 1..inserted \subseteq Ids
        BY <1>1, DocumentsAssumption DEF Ids
    <1>3. CASE rows' = rows
        BY <1>3 DEF KeepsSources, Exists
    <1>4. ASSUME NEW r \in Requests, UpdateRow(r)
          PROVE  KeepsSources
        <2> DEFINE e == local[r].id
        <2>1. rows' = [rows EXCEPT ![e] = [rows[e] EXCEPT
                           !.content = Item(r).content,
                           !.version = local[r].read.version + IF Changed(r) THEN 1 ELSE 0]]
            BY <1>1, <1>4 DEF UpdateRow
        <2>2. Exists(e)
            BY <1>4 DEF UpdateRow
        <2>3. \A d \in Ids : d # e => rows'[d] = rows[d]
            BY <1>1, <2>1
        <2>4. e \in Ids => rows[e] \in Document
            BY <1>1, <2>2 DEF Exists
        <2>5. e \in Ids => rows'[e].source = rows[e].source
            BY <1>1, <2>1, <2>4 DEF Document
        <2> HIDE DEF e
        <2> QED
            BY <1>2, <2>2, <2>3, <2>5 DEF KeepsSources, Exists
    <1>5. ASSUME NEW r \in Requests, InsertRow(r)
          PROVE  KeepsSources
        <2>1. \A d \in Ids : d # inserted + 1 => rows'[d] = rows[d]
            BY <1>1, <1>5 DEF InsertRow
        <2>2. \A d \in 1..inserted : d # inserted + 1
            BY <1>1
        <2> QED
            BY <1>2, <2>1, <2>2 DEF KeepsSources, Exists
    <1>6. ASSUME NEW r \in Requests, DeleteRow(r)
          PROVE  KeepsSources
        <2>1. \A d \in Ids : rows'[d] = NoRow \/ rows'[d] = rows[d]
            BY <1>1, <1>6 DEF DeleteRow
        <2> QED
            BY <1>2, <2>1 DEF KeepsSources, Exists
    <1>7. ASSUME NEW r \in Requests, Arrive(r)
          PROVE  rows' = rows
        BY <1>7 DEF Arrive, StartRun, AcceptUpload, RejectUpload, PickForDeletion, store
    <1>8. ASSUME NEW r \in Requests, Ingest(r), ~UpdateRow(r), ~InsertRow(r)
          PROVE  rows' = rows
        BY <1>8 DEF Ingest, SaveObject, FindBySource, SaveFails, EmbedBatch, ClearChunks,
                    PutChunk, PutChunks, PutFails, FinishIngest, store
    <1>9. ASSUME NEW r \in Requests, Delete(r), ~DeleteRow(r)
          PROVE  rows' = rows
        BY <1>9 DEF Delete, FindById, NotFound, DeleteChunks, DeleteObject, DeleteObjectFails,
                    store
    <1>10. ASSUME NEW r \in Requests, HandlerThrows(r)
           PROVE  rows' = rows
        BY <1>10 DEF HandlerThrows, store
    <1>11. CASE GatewayCrash
        BY <1>3, <1>11 DEF GatewayCrash, store
    <1>12. CASE UNCHANGED vars
        BY <1>3, <1>12 DEF vars, store
    <1> QED
        BY <1>3, <1>4, <1>5, <1>6, <1>7, <1>8, <1>9, <1>10, <1>11, <1>12 DEF Next

\* What a deletion has read it does not read again.
KeepsReading(r) ==
    Deletes(r)' => /\ local'[r].id = local[r].id
                   /\ IF Deletes(r) THEN local'[r].read = local[r].read
                      ELSE rows' = rows /\ local'[r].read = rows[local[r].id]

\* Every step leaves a deletion with what it has read.
LEMMA ReadingsKept ==
    ASSUME TypeInv, [Next]_vars, NEW r \in Requests
    PROVE  KeepsReading(r)
    <1>1. pc \in [Requests -> PcValues] /\ local \in [Requests -> Locals]
        BY DEF TypeInv, Handlers
    <1>2. ASSUME NEW q \in Requests, Quiet(q), q = r => ~Deletes(r)'
          PROVE  KeepsReading(r)
        BY <1>2 DEF Quiet, KeepsReading, Deletes
    <1>3. ASSUME NEW q \in Requests, Arrive(q) PROVE KeepsReading(r)
        <2>1. pc'[q] \in {"find", "upload", "rejected", "lookup"}
            BY <1>1, <1>3 DEF Arrive, StartRun, AcceptUpload, RejectUpload, PickForDeletion, GoTo
        <2>2. OnlyMoves(q)
            BY <1>1, <1>3
            DEF Arrive, StartRun, AcceptUpload, RejectUpload, PickForDeletion, GoTo, OnlyMoves
        <2> QED
            BY <1>2, <2>1, <2>2, MovesAreQuiet DEF Deletes
    <1>4. ASSUME NEW q \in Requests, NEW e, NEW row, TakeUp(q, e, row), plan' = plan,
                 \A p \in Requests \ {q} : pc'[p] = pc[p]
          PROVE  Quiet(q) /\ local'[q].id = e /\ local'[q].read = row
        <2>1. local'[q] = [local[q] EXCEPT !.id = e, !.read = row, !.alone = At(e) = {}]
            BY <1>4 DEF TakeUp
        <2>2. local'[q].id = e /\ local'[q].read = row
            BY <1>1, <2>1 DEF Locals
        <2>3. \A p \in Requests \ {q} :
                  local'[p] = local[p] \/ local'[p] = [local[p] EXCEPT !.alone = FALSE]
            BY <1>4 DEF TakeUp
        <2>4. \A p \in Requests : LET less == [local[p] EXCEPT !.alone = FALSE]
                                  IN  less.id = local[p].id /\ less.read = local[p].read
            BY <1>1 DEF Locals
        <2> QED
            BY <1>4, <2>2, <2>3, <2>4 DEF Quiet
    <1>5. ASSUME NEW q \in Requests, FindBySource(q) PROVE KeepsReading(r)
        <2>1. PICK e, row : TakeUp(q, e, row)
            BY <1>5 DEF FindBySource
        <2>2. pc' = [pc EXCEPT ![q] = "save"] /\ plan' = plan
            BY <1>5 DEF FindBySource, GoTo
        <2>3. Quiet(q)
            BY <1>1, <1>4, <2>1, <2>2
        <2> QED
            BY <1>1, <1>2, <2>2, <2>3 DEF Deletes
    <1>6. ASSUME NEW q \in Requests, FindById(q) PROVE KeepsReading(r)
        <2>1. /\ pc' = [pc EXCEPT ![q] = "unchunk"] /\ plan' = plan /\ rows' = rows
              /\ TakeUp(q, local[q].id, rows[local[q].id]) /\ pc[q] = "lookup"
            BY <1>6 DEF FindById, GoTo, store
        <2>2. Quiet(q) /\ local'[q].id = local[q].id /\ local'[q].read = rows[local[q].id]
            BY <1>1, <1>4, <2>1
        <2>3. q = r => KeepsReading(r)
            BY <2>1, <2>2 DEF KeepsReading, Deletes
        <2> QED
            BY <1>2, <2>2, <2>3
    <1>7. ASSUME NEW q \in Requests, UpdateRow(q) PROVE KeepsReading(r)
        <2>1. plan' = plan /\ pc[q] = "save"
            BY <1>7 DEF UpdateRow
        <2>2. OnlyMoves(q)
            BY <1>1, <1>7, <2>1, DoneLeaves DEF UpdateRow, GoTo, OnlyMoves
        <2>3. pc'[q] \in {"embed", "find", "ok"}
            BY <1>1, <1>7 DEF UpdateRow, GoTo, Done, Ends
        <2> QED
            BY <1>2, <2>2, <2>3, MovesAreQuiet DEF Deletes
    <1>8. ASSUME NEW q \in Requests, FinishIngest(q) PROVE KeepsReading(r)
        <2>1. OnlyMoves(q)
            BY <1>8, DoneLeaves DEF FinishIngest
        <2>2. pc'[q] \in {"find", "ok"}
            BY <1>1, <1>8 DEF FinishIngest, GoTo, Done, Ends
        <2> QED
            BY <1>2, <2>1, <2>2, MovesAreQuiet DEF Deletes
    <1>9. ASSUME NEW q \in Requests,
                 \/ SaveObject(q) \/ InsertRow(q) \/ EmbedBatch(q) \/ ClearChunks(q)
                 \/ PutChunk(q) \/ PutChunks(q) \/ NotFound(q)
          PROVE  KeepsReading(r)
        <2>1. SaveObject(q) \/ EmbedBatch(q) \/ ClearChunks(q) => OnlyMoves(q) /\ ~Deletes(q)'
            BY <1>1 DEF SaveObject, EmbedBatch, ClearChunks, GoTo, OnlyMoves, Deletes
        <2>2. InsertRow(q) \/ NotFound(q) => OnlyMoves(q) /\ ~Deletes(q)'
            BY <1>1 DEF InsertRow, NotFound, GoTo, OnlyMoves, Deletes
        <2>3. PutChunk(q) \/ PutChunks(q) => OnlyMoves(q) /\ ~Deletes(q)'
            BY <1>1 DEF PutChunk, PutChunks, OnlyMoves, Deletes
        <2> QED
            BY <1>2, <1>9, <2>1, <2>2, <2>3, MovesAreQuiet
    <1>10. ASSUME NEW q \in Requests, DeleteChunks(q) \/ DeleteRow(q)
           PROVE  KeepsReading(r)
        BY <1>1, <1>10 DEF DeleteChunks, DeleteRow, GoTo, KeepsReading, Deletes
    <1>11. ASSUME NEW q \in Requests, DeleteObject(q) \/ DeleteObjectFails(q)
           PROVE  KeepsReading(r)
        <2>1. OnlyMoves(q) /\ ~Deletes(q)'
            BY <1>1, <1>11 DEF DeleteObject, DeleteObjectFails, Ends, GoTo, OnlyMoves, Deletes
        <2> QED
            BY <1>2, <2>1, MovesAreQuiet
    <1>12. ASSUME NEW S \in SUBSET Requests, Fails(S) PROVE KeepsReading(r)
        BY <1>1, <1>12 DEF Fails, KeepsReading, Deletes
    <1>13. ASSUME NEW q \in Requests, SaveFails(q) \/ PutFails(q) \/ HandlerThrows(q)
           PROVE  KeepsReading(r)
        <2>1. Fails({q}) /\ {q} \in SUBSET Requests
            BY <1>13 DEF SaveFails, PutFails, HandlerThrows
        <2> QED
            BY <1>12, <2>1
    <1>14. CASE GatewayCrash
        <2>1. PICK lost \in SUBSET Requests : Fails(lost)
            BY <1>14 DEF GatewayCrash
        <2> QED
            BY <1>12, <2>1
    <1>15. CASE UNCHANGED vars
        BY <1>15 DEF vars, KeepsReading, Deletes
    <1> QED
        BY <1>3, <1>5, <1>6, <1>7, <1>8, <1>9, <1>10, <1>11, <1>13, <1>14, <1>15
        DEF Next, Ingest, Delete

\* The source a deletion read is that of the row.
LEMMA SourceNext ==
    ASSUME TypeInv, [Next]_vars, NEW r \in Requests, SourceStays(r)
    PROVE  SourceStays(r)'
    <1> SUFFICES ASSUME Deletes(r)', Exists(local[r].id)'
                 PROVE  rows'[local'[r].id].source = local'[r].read.source
        BY DEF SourceStays, Exists
    <1>1. KeepsSources /\ KeepsReading(r)
        BY SourcesKept, ReadingsKept
    <1>2. local'[r].id = local[r].id
        BY <1>1 DEF KeepsReading
    <1>3. local[r].id \in 1..inserted
        <2>1. local[r].id \in 0..inserted /\ inserted \in Nat
            BY DocumentsAssumption DEF TypeInv, Handlers, HandlerInv, Scalars
        <2>2. local[r].id # 0
            BY <1>2 DEF Exists
        <2> QED
            BY <2>1, <2>2
    <1>4. Exists(local[r].id) /\ rows'[local[r].id].source = rows[local[r].id].source
        BY <1>1, <1>2, <1>3 DEF KeepsSources, Exists
    <1>5. CASE Deletes(r)
        BY <1>1, <1>2, <1>4, <1>5 DEF KeepsReading, SourceStays
    <1>6. CASE ~Deletes(r)
        BY <1>1, <1>2, <1>4, <1>6 DEF KeepsReading
    <1> QED
        BY <1>5, <1>6

\* At first there are no objects and no rows.
LEMMA ObjectInit == Init => ObjectAll
    <1> SUFFICES ASSUME Init PROVE ObjectAll
        OBVIOUS
    <1>1. \A o : Find(o) = {}
        BY DEF Init, Find, Exists
    <1>2. \A r \in Requests : pc[r] = "absent"
        BY DEF Init
    <1>3. ASSUME NEW o \in Requests PROVE ObjectInv(o) /\ SourceStays(o)
        <2>1. ObjectInv(o)
            BY <1>1, <1>2
            DEF Init, ObjectInv, RowsAreNamed, OneRow, Uploading, DeletersKnow, Accounted, Deletes
        <2>2. SourceStays(o)
            BY <1>2 DEF SourceStays, Deletes
        <2> QED
            BY <2>1, <2>2
    <1> QED
        BY <1>3, TypeInit DEF ObjectAll

\* Every step keeps the objects accounted for.
LEMMA ObjectNext == ObjectAll /\ [Next]_vars => ObjectAll'
    <1> SUFFICES ASSUME ObjectAll, [Next]_vars PROVE ObjectAll'
        OBVIOUS
    <1>1. TypeInv /\ TypeInv'
        BY TypeNext DEF ObjectAll
    <1>2. \A r \in Requests : SourceStays(r) /\ SourceStays(r)'
        BY <1>1, SourceNext DEF ObjectAll
    <1>3. ASSUME NEW o \in Requests, ObjectInv(o)
          PROVE  ObjectInv(o)'
        <2>1. CASE UNCHANGED vars
            BY <1>3, <2>1
            DEF vars, store, trace, ObjectInv, RowsAreNamed, OneRow, Uploading, DeletersKnow,
                Accounted, Find, Exists, Inserted, Deletes
        <2>2. ASSUME NEW r \in Requests, SaveFails(r) \/ PutFails(r) \/ HandlerThrows(r)
              PROVE  ObjectInv(o)'
            <3>1. /\ {r} \in SUBSET Requests /\ Fails({r}) /\ pc[r] \in Working \ {"unstore"}
                  /\ plan' = plan /\ rows' = rows /\ objects' = objects /\ kept' = kept
                BY <2>2 DEF SaveFails, PutFails, HandlerThrows, store, Working
            <3>2. \A q \in {r} : /\ pc[q] \in Working
                                 /\ (pc[q] = "unstore" /\ local[q].read.source = o) => o \in kept'
                BY <3>1
            <3> QED
                BY <1>1, <1>3, <3>1, <3>2, ObjectFails
        <2>3. CASE GatewayCrash
            <3>1. PICK lost \in SUBSET Requests :
                      /\ Fails(lost) /\ \A q \in lost : pc[q] \in Working
                      /\ kept' = kept \cup UNION {ObjectPath(local[r].read.source) :
                                                     r \in {q \in lost : pc[q] = "unstore"}}
                BY <2>3 DEF GatewayCrash
            <3>2. plan' = plan /\ rows' = rows /\ objects' = objects
                BY <2>3 DEF GatewayCrash, store
            <3>3. ASSUME NEW q \in lost, pc[q] = "unstore", local[q].read.source = o
                  PROVE  o \in kept'
                <4>1. o \in ObjectPath(local[q].read.source)
                    BY <3>3 DEF ObjectPath
                <4> QED
                    BY <3>1, <3>3, <4>1
            <3> QED
                BY <1>1, <1>3, <3>1, <3>2, <3>3, ObjectFails
        <2>4. ASSUME NEW r \in Requests, Arrive(r) \/ Delete(r)
              PROVE  ObjectInv(o)'
            BY <1>1, <1>2, <1>3, <2>4, ObjectArrive, ObjectDelete
        <2>5. ASSUME NEW r \in Requests, Ingest(r)
              PROVE  ObjectInv(o)'
            BY <1>1, <1>3, <2>2, <2>5, ObjectSave, ObjectPut DEF Ingest
        <2> QED
            BY <2>1, <2>2, <2>3, <2>4, <2>5 DEF Next
    <1> QED
        BY <1>1, <1>2, <1>3 DEF ObjectAll

\* A file in cloud storage is named by a row, or belongs to an upload that has
\* yet to insert it or that failed, or to a deletion that removed it and has yet
\* to delete the file or could not: the route and deleteDocument keep it so,
\* whatever overlaps and whatever fails.
THEOREM DocumentsObjectsAccountedFor == Spec => []ObjectsAccountedFor
    <1>1. ObjectAll => ObjectsAccountedFor
        BY DEF ObjectAll, ObjectInv, RowsAreNamed, Accounted, ObjectsAccountedFor
    <1> QED
        BY <1>1, ObjectInit, ObjectNext, PTL DEF Spec
=============================================================================
