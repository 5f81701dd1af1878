------------------------------ MODULE Chunking ------------------------------
(***************************************************************************)
(* memory/chunking.ts: how the text of a document is cut into the chunks   *)
(* that are embedded one by one.  A text is a sequence of the kinds of     *)
(* character that the regular expressions tell apart; a unit is a part of  *)
(* it, by its first and last position.                                     *)
(***************************************************************************)
EXTENDS Integers, Sequences, FiniteSetsExt, SequencesExt

CONSTANTS MaxChunkChars, OverlapChars

ASSUME ChunkingAssumption ==
    /\ MaxChunkChars \in Nat \ {0}
    /\ OverlapChars \in 0..MaxChunkChars - 1

White == {" ", "nl"}
Terminators == {"."} \* or ! or ?
Characters == {"x"} \cup White \cup Terminators

Size(u) == u.to - u.from + 1
\* The unit, if any, that trimming leaves of a part of the text.
Trimmed(text, part) ==
    LET solid == {i \in part : text[i] \notin White}
    IN  IF solid = {} THEN <<>> ELSE <<[from |-> Min(solid), to |-> Max(solid)]>>

\* Paragraphs lie between runs of two newlines or more.
SplitParagraphs(text) ==
    LET newline(i) == i \in DOMAIN text /\ text[i] = "nl"
        inside == {i \in DOMAIN text :
                      newline(i) => ~newline(i - 1) /\ ~newline(i + 1)}
        begins == {i \in inside : i - 1 \notin inside}
        paragraph(i) == {j \in inside : i <= j /\ i..j \subseteq inside}
        starts == [n \in 1..Cardinality(begins) |->
                      CHOOSE i \in begins : Cardinality({j \in begins : j <= i}) = n]
    IN  FlattenSeq([n \in DOMAIN starts |-> Trimmed(text, paragraph(starts[n]))])

\* The last position of the run of characters of a kind that begins at p.
RunEnd(text, kind, p, last) ==
    Max({p - 1} \cup {k \in p..last : \A i \in p..k : text[i] \in kind})

\* The matches of /[^.!?]+[.!?]+(?:\s+|$)|[^.!?]+$/g.  Where neither alternative
\* matches, the search moves on by one character.
SplitSentences(text, u) ==
    LET sentences[p \in u.from..u.to + 1] ==
          IF p > u.to THEN <<>>
          ELSE LET words == RunEnd(text, Characters \ Terminators, p, u.to)
                   stop == RunEnd(text, Terminators, words + 1, u.to)
                   space == RunEnd(text, White, stop + 1, u.to)
               IN  IF words >= p /\ (stop = u.to \/ (stop > words /\ space > stop))
                   THEN Trimmed(text, p..space) \o sentences[space + 1]
                   ELSE sentences[p + 1]
    IN  IF sentences[u.from] = <<>> THEN <<u>> ELSE sentences[u.from]

HardSplit(u) ==
    [n \in 1..(Size(u) + MaxChunkChars - 1) \div MaxChunkChars |->
        [from |-> u.from + (n - 1) * MaxChunkChars,
         to |-> Min({u.to, u.from + n * MaxChunkChars - 1})]]

Oversized(u) == Size(u) > MaxChunkChars
SplitOversizedUnit(text, u) ==
    LET sentences == SplitSentences(text, u)
    IN  FlattenSeq([n \in DOMAIN sentences |->
            IF Oversized(sentences[n]) THEN HardSplit(sentences[n]) ELSE <<sentences[n]>>])

Units(text) ==
    LET paragraphs == SplitParagraphs(text)
    IN  FlattenSeq([n \in DOMAIN paragraphs |->
            IF Oversized(paragraphs[n]) THEN SplitOversizedUnit(text, paragraphs[n])
            ELSE <<paragraphs[n]>>])

Total(units, S) == MapThenSumSet(LAMBDA k : Size(units[k]), S)

\* Mutant of Joined: the two newlines between units are not counted.
JoinedBare(units, i, j) == Total(units, i..j - 1)
\* The length of units i to j - 1 in one chunk.
Joined(units, i, j) == Total(units, i..j - 1) + 2 * (j - 1 - i)

\* One past the last unit of the chunk that begins with unit i.
Filled(units, i) ==
    Max({i + 1} \cup {j \in i + 1..Len(units) + 1 : Joined(units, i, j) <= MaxChunkChars})

\* Where the chunk after units i to j - 1 begins.
NextStart(units, i, j) ==
    LET k == Max({i} \cup {n \in i..j : Total(units, n..j - 1) >= OverlapChars})
    IN  Max({k, i + 1})

\* Of a chunk, the positions of the text that are in it, and its length.
PackUnits(units) ==
    LET packed[i \in 1..Len(units) + 1] ==
          IF i > Len(units) THEN <<>>
          ELSE LET j == Filled(units, i)
               IN  <<[chars |-> UNION {units[k].from..units[k].to : k \in i..j - 1},
                      length |-> Total(units, i..j - 1) + 2 * (j - 1 - i)]>>
                   \o (IF j > Len(units) THEN <<>> ELSE packed[NextStart(units, i, j)])
    IN  packed[1]

ChunkText(text) == PackUnits(Units(text))
=============================================================================
