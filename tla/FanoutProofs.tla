----------------------------- MODULE FanoutProofs ---------------------------
(***************************************************************************)
(* Proofs of the properties of Fanout, for any number of recipients,       *)
(* messages, lanes and retries: types, what is reported, in which order    *)
(* and how often parts arrive, and that a fan-out keeps its contract.      *)
(***************************************************************************)
EXTENDS Fanout, FiniteSetTheorems, SequenceTheorems, TLAPS

\* A lane with a recipient in hand.
Working(l) == lane[l].step \in {"post", "backoff"}
Settled == SeqRange(sent) \cup SeqRange(failed)
Ended == {l \in Lanes : lane[l].step = "ended"}

LaneInv(l) ==
    /\ Working(l) => /\ lane[l].to \in Recipients /\ lane[l].part \in 1..Parts
                     /\ lane[l].to < nextIndex /\ lane[l].to \notin Settled
    /\ lane[l].step = "backoff" => lane[l].attempt < MaxRetries
    /\ lane[l].step = "ended" => nextIndex > Count

TypeInv ==
    /\ TypeOK
    /\ nextIndex <= Count + 1 + Cardinality(Ended)
    /\ \A l \in Lanes : LaneInv(l)
    /\ \A l, k \in Lanes : Working(l) /\ Working(k) /\ lane[l].to = lane[k].to => l = k

\* Every recipient that was taken is in hand or settled, and only those.
TakenInv ==
    /\ \A r \in Settled : r < nextIndex
    /\ \A r \in Recipients :
           r < nextIndex => r \in Settled \/ \E l \in Lanes : Working(l) /\ lane[l].to = r

\* What a lane has sent of its recipient's parts, and what nobody has sent yet.
ReceivedInv ==
    /\ \A l \in Lanes : Working(l) =>
           /\ \A k \in 1..Parts : k < lane[l].part => received[lane[l].to][k] > 0
           /\ \A k \in lane[l].part..Parts :
                  received[lane[l].to][k] <= lost[lane[l].to][k]
    /\ \A r \in Recipients : r >= nextIndex =>
           \A k \in 1..Parts : received[r][k] = 0 /\ lost[r][k] = 0

-----------------------------------------------------------------------------
(* Facts about the data.                                                   *)

\* The range of a sequence with an element more.
LEMMA RangeOfAppend ==
    ASSUME NEW S, NEW s \in Seq(S), NEW x \in S
    PROVE  /\ Append(s, x) \in Seq(S) /\ Len(Append(s, x)) = Len(s) + 1
           /\ SeqRange(Append(s, x)) = SeqRange(s) \cup {x}
    <1>1. /\ Append(s, x) \in Seq(S) /\ Len(Append(s, x)) = Len(s) + 1 /\ Len(s) \in Nat
          /\ \A i \in 1..Len(s) : Append(s, x)[i] = s[i]
          /\ Append(s, x)[Len(s) + 1] = x
        OBVIOUS
    <1>2. 1..Len(s) + 1 = (1..Len(s)) \cup {Len(s) + 1}
        BY <1>1
    <1> QED
        BY <1>1, <1>2 DEF SeqRange

\* A recipient is added to one of the two lists of the result.
Reports(r) ==
    \/ sent' = Append(sent, r) /\ failed' = failed
    \/ failed' = Append(failed, r) /\ sent' = sent

\* What reporting a recipient does to the two lists.
LEMMA ReportAdds ==
    ASSUME TypeOK, NEW r \in Recipients, Reports(r)
    PROVE  /\ sent' \in Seq(Recipients) /\ failed' \in Seq(Recipients)
           /\ Settled' = Settled \cup {r}
           /\ Len(sent') + Len(failed') = Len(sent) + Len(failed) + 1
    <1>1. /\ sent \in Seq(Recipients) /\ failed \in Seq(Recipients)
          /\ Len(sent) \in Nat /\ Len(failed) \in Nat
        BY DEF TypeOK
    <1>2. CASE sent' = Append(sent, r) /\ failed' = failed
        <2>1. /\ sent' \in Seq(Recipients) /\ Len(sent') = Len(sent) + 1
              /\ SeqRange(sent)' = SeqRange(sent) \cup {r}
            BY <1>1, <1>2, RangeOfAppend DEF SeqRange
        <2> QED
            BY <1>1, <1>2, <2>1 DEF Settled
    <1>3. CASE failed' = Append(failed, r) /\ sent' = sent
        <2>1. /\ failed' \in Seq(Recipients) /\ Len(failed') = Len(failed) + 1
              /\ SeqRange(failed)' = SeqRange(failed) \cup {r}
            BY <1>1, <1>3, RangeOfAppend DEF SeqRange
        <2> QED
            BY <1>1, <1>3, <2>1 DEF Settled
    <1> QED
        BY <1>2, <1>3 DEF Reports

\* Counting one more of a recipient's parts.
Up(counts, r, k) == [counts EXCEPT ![r][k] = @ + 1]

\* It adds one at that place and nothing elsewhere.
LEMMA CountUp ==
    ASSUME NEW counts \in Counts, NEW r \in Recipients, NEW k \in 1..Parts
    PROVE  /\ Up(counts, r, k) \in Counts
           /\ Up(counts, r, k)[r][k] = counts[r][k] + 1
           /\ \A s \in Recipients, j \in 1..Parts :
                  s # r \/ j # k => Up(counts, r, k)[s][j] = counts[s][j]
    <1> DEFINE row == [counts[r] EXCEPT ![k] = @ + 1]
    <1>1. counts[r] \in [1..Parts -> Nat]
        BY DEF Counts
    <1>2. /\ row \in [1..Parts -> Nat] /\ row[k] = counts[r][k] + 1
          /\ \A j \in 1..Parts : j # k => row[j] = counts[r][j]
        <2>1. counts[r][k] \in Nat
            BY <1>1
        <2>2. counts[r][k] + 1 \in Nat
            BY <2>1
        <2> QED
            BY <1>1, <2>2
    <1> DEFINE up == Up(counts, r, k)
    <1>3. up = [counts EXCEPT ![r] = row]
        BY DEF Up
    <1> HIDE DEF row, up
    <1>4. up \in Counts /\ up[r] = row /\ \A s \in Recipients : s # r => up[s] = counts[s]
        BY <1>2, <1>3 DEF Counts
    <1> USE DEF up
    <1> QED
        BY <1>2, <1>4

\* What becomes of what a lane is doing.
LEMMA LaneUpdates ==
    ASSUME NEW it \in Lane, NEW step \in LaneSteps, NEW k \in 0..Parts, NEW n \in 0..MaxRetries
    PROVE  /\ [it EXCEPT !.step = step] \in Lane
           /\ [it EXCEPT !.step = step, !.attempt = n] \in Lane
           /\ [it EXCEPT !.part = k, !.attempt = n] \in Lane
    BY DEF Lane

\* A lane between two recipients.
LEMMA NextRecipientIsLane == NextRecipient \in Lane /\ NextRecipient.step = "next"
    BY FanoutAssumption DEF Lane, NextRecipient, LaneSteps

\* The lanes are finitely many.
LEMMA LanesAreFinite ==
    /\ IsFiniteSet(Lanes) /\ Cardinality(Lanes) \in Nat
    /\ IsFiniteSet(Ended) /\ Cardinality(Ended) \in Nat
    /\ Cardinality(Ended) <= Cardinality(Lanes)
    <1>1. IsFiniteSet(Lanes)
        BY FanoutAssumption, FS_Interval DEF Lanes
    <1>2. Ended \subseteq Lanes
        BY DEF Ended
    <1> QED
        BY <1>1, <1>2, FS_Subset, FS_CardinalityType

-----------------------------------------------------------------------------
(* Types, and who is in hand.                                              *)

Inv == TypeInv /\ TakenInv

\* A lane goes on with the recipient it has.
GoesOn(l) ==
    /\ Working(l) /\ Working(l)'
    /\ lane' \in [Lanes -> Lane] /\ \A k \in Lanes \ {l} : lane'[k] = lane[k]
    /\ lane'[l].to = lane[l].to /\ lane'[l].part \in 1..Parts
    /\ lane'[l].step = "backoff" => lane'[l].attempt < MaxRetries
    /\ UNCHANGED <<nextIndex, sent, failed, resolved>>

\* Going on keeps the lanes and what is taken.
LEMMA GoingOnKeepsInv ==
    ASSUME Inv, NEW l \in Lanes, GoesOn(l), received' \in Counts, lost' \in Counts
    PROVE  Inv'
    <1> USE DEF GoesOn
    <1>0. TypeOK /\ \A k \in Lanes : LaneInv(k)
        BY DEF Inv, TypeInv
    <1>1. TypeOK'
        BY <1>0 DEF TypeOK
    <1>2. Settled' = Settled /\ nextIndex' = nextIndex
        BY DEF Settled, SeqRange
    <1>3. \A k \in Lanes : (Working(k)' <=> Working(k)) /\ lane'[k].to = lane[k].to
        BY DEF Working
    <1>4. Ended' = Ended
        BY DEF Ended, Working
    <1>5. ASSUME NEW k \in Lanes
          PROVE  LaneInv(k)'
        <2>1. CASE k = l
            BY <1>0, <1>2, <2>1 DEF LaneInv, Working
        <2>2. CASE k # l
            BY <1>0, <1>2, <2>2 DEF LaneInv, Working
        <2> QED
            BY <2>1, <2>2
    <1>6. TypeInv'
        BY <1>1, <1>2, <1>3, <1>4, <1>5 DEF TypeInv, Inv
    <1>7. TakenInv'
        BY <1>2, <1>3 DEF TakenInv, Inv
    <1> QED
        BY <1>6, <1>7 DEF Inv

\* A lane is done with its recipient, who is reported.
Settles(l) ==
    /\ Working(l)
    /\ lane' = [lane EXCEPT ![l] = NextRecipient]
    /\ Reports(lane[l].to)
    /\ UNCHANGED <<nextIndex, resolved>>

\* Settling keeps the lanes and what is taken.
LEMMA SettlingKeepsInv ==
    ASSUME Inv, NEW l \in Lanes, Settles(l), received' \in Counts, lost' \in Counts
    PROVE  Inv'
    <1> USE DEF Settles
    <1> DEFINE r == lane[l].to
    <1>0. /\ TypeOK /\ (\A k \in Lanes : LaneInv(k)) /\ r \in Recipients /\ r < nextIndex
          /\ lane \in [Lanes -> Lane]
        BY DEF Inv, TypeInv, TypeOK, LaneInv
    <1>1. /\ sent' \in Seq(Recipients) /\ failed' \in Seq(Recipients)
          /\ Settled' = Settled \cup {r}
        BY <1>0, ReportAdds
    <1>2. /\ lane' \in [Lanes -> Lane] /\ lane'[l].step = "next"
          /\ \A k \in Lanes \ {l} : lane'[k] = lane[k]
        BY <1>0, NextRecipientIsLane
    <1>3. TypeOK'
        BY <1>0, <1>1, <1>2 DEF TypeOK
    <1>4. ~Working(l)' /\ \A k \in Lanes \ {l} : Working(k)' <=> Working(k)
        BY <1>2 DEF Working
    <1>5. Ended' = Ended
        BY <1>2 DEF Ended, Working
    <1>6. ASSUME NEW k \in Lanes
          PROVE  LaneInv(k)'
        <2>1. CASE k = l
            BY <1>2, <1>4, <2>1 DEF LaneInv
        <2>2. CASE k # l
            <3>1. Working(k) => lane[k].to # r
                BY <2>2 DEF Inv, TypeInv
            <3> QED
                BY <1>0, <1>1, <1>2, <1>4, <2>2, <3>1 DEF LaneInv
        <2> QED
            BY <2>1, <2>2
    <1>7. TypeInv'
        BY <1>2, <1>3, <1>4, <1>5, <1>6 DEF TypeInv, Inv
    <1>8. TakenInv'
        BY <1>0, <1>1, <1>2, <1>4 DEF TakenInv, Inv
    <1> QED
        BY <1>7, <1>8 DEF Inv

\* A lane takes the next recipient, or there is none left.
LEMMA TakingKeepsInv ==
    ASSUME Inv, NEW l \in Lanes, TakeNext(l)
    PROVE  Inv'
    <1>0. /\ TypeOK /\ (\A k \in Lanes : LaneInv(k)) /\ lane \in [Lanes -> Lane]
          /\ nextIndex \in Nat /\ nextIndex >= 1 /\ Count \in Nat /\ Parts \in Nat
          /\ lane[l].step = "next" /\ nextIndex' = nextIndex + 1
        BY FanoutAssumption DEF Inv, TypeInv, TypeOK, TakeNext, Advance
    <1>1. ~Working(l) /\ l \notin Ended
        BY <1>0 DEF Working, Ended
    <1>2. CASE nextIndex > Count
        <2>1. /\ lane' = [lane EXCEPT ![l] = [@ EXCEPT !.step = "ended"]]
              /\ UNCHANGED <<sent, failed, resolved, received, lost>>
            BY <1>0, <1>2 DEF TakeNext, worldVars
        <2>2. /\ lane' \in [Lanes -> Lane] /\ lane'[l].step = "ended"
              /\ \A k \in Lanes \ {l} : lane'[k] = lane[k]
            <3>1. [lane[l] EXCEPT !.step = "ended"] \in Lane
                BY <1>0 DEF Lane, LaneSteps
            <3>2. [lane[l] EXCEPT !.step = "ended"].step = "ended"
                BY <1>0 DEF Lane
            <3> QED
                BY <1>0, <2>1, <3>1, <3>2
        <2>3. \A k \in Lanes : (Working(k)' <=> Working(k)) /\ (Working(k) => lane'[k] = lane[k])
            BY <1>1, <2>2 DEF Working
        <2>4. Ended' = Ended \cup {l}
            BY <2>2 DEF Ended
        <2>5. Cardinality(Ended') = Cardinality(Ended) + 1
            BY <1>1, <2>4, LanesAreFinite, FS_AddElement
        <2>6. Cardinality(Ended') <= Cardinality(Lanes) /\ Cardinality(Lanes) \in Nat
            <3>1. Ended' \subseteq Lanes
                BY DEF Ended
            <3> QED
                BY <3>1, LanesAreFinite, FS_Subset
        <2>7. nextIndex' <= Count + 1 + Cardinality(Ended')
            BY <1>0, <2>5, LanesAreFinite DEF Inv, TypeInv
        <2>8. nextIndex' \in 1..Count + 1 + Cardinality(Lanes)
            BY <1>0, <2>5, <2>6, <2>7, LanesAreFinite
        <2>9. TypeOK'
            BY <1>0, <2>1, <2>2, <2>8 DEF TypeOK
        <2>10. Settled' = Settled
            BY <2>1 DEF Settled, SeqRange
        <2>11. ASSUME NEW k \in Lanes
               PROVE  LaneInv(k)'
            <3>1. lane'[k].step = "ended" => nextIndex' > Count
                BY <1>0, <1>2
            <3>2. lane'[k].step = "backoff" => lane'[k].attempt < MaxRetries
                BY <1>0, <2>2 DEF LaneInv
            <3>3. ASSUME Working(k)'
                  PROVE  /\ lane'[k].to \in Recipients /\ lane'[k].part \in 1..Parts
                         /\ lane'[k].to < nextIndex' /\ lane'[k].to \notin Settled'
                <4>1. /\ lane[k].to \in Recipients /\ lane[k].part \in 1..Parts
                      /\ lane[k].to < nextIndex /\ lane[k].to \notin Settled
                      /\ lane'[k] = lane[k]
                    BY <1>0, <2>3, <3>3 DEF LaneInv
                <4>2. lane[k].to < nextIndex + 1
                    BY <1>0, <4>1 DEF Recipients
                <4> QED
                    BY <1>0, <2>10, <4>1, <4>2
            <3> QED
                BY <3>1, <3>2, <3>3 DEF LaneInv
        <2>12. TypeInv'
            BY <2>3, <2>7, <2>9, <2>11 DEF TypeInv, Inv
        <2>13. TakenInv'
            <3>1. \A r \in Settled : r \in Nat /\ r < nextIndex
                <4>1. Settled \subseteq Recipients
                    BY <1>0 DEF TypeOK, Settled, SeqRange
                <4>2. \A r \in Settled : r < nextIndex
                    BY DEF Inv, TakenInv
                <4>3. Recipients \subseteq Nat
                    BY DEF Recipients
                <4> QED
                    BY <4>1, <4>2, <4>3
            <3>2. \A r \in Recipients : r < nextIndex
                BY <1>0, <1>2 DEF Recipients
            <3> QED
                BY <1>0, <2>3, <2>10, <3>1, <3>2 DEF TakenInv, Inv
        <2> QED
            BY <2>12, <2>13 DEF Inv
    <1>3. CASE nextIndex <= Count
        <2>0. /\ nextIndex \in Recipients /\ nextIndex \notin Settled
              /\ \A k \in Lanes : Working(k) => lane[k].to < nextIndex
              /\ \A r \in Settled : r \in Nat /\ r < nextIndex
            <3>1. Settled \subseteq Recipients
                BY <1>0 DEF TypeOK, Settled, SeqRange
            <3> QED
                BY <1>0, <1>3, <3>1 DEF Inv, TakenInv, Recipients, LaneInv
        <2>1. nextIndex' <= Count + 1 + Cardinality(Ended)
            BY <1>0, <1>3, LanesAreFinite
        <2>2. nextIndex' \in 1..Count + 1 + Cardinality(Lanes)
            BY <1>0, <1>3, LanesAreFinite
        <2>3. \A k \in Lanes : lane[k].step # "ended"
            BY <1>0, <1>3 DEF LaneInv
        <2>4. CASE NothingToSend
            <3>1. lane' = [lane EXCEPT ![l] = lane[l]] /\ Reports(nextIndex)
                  /\ UNCHANGED <<resolved, received, lost>>
                <4>1. ~(nextIndex > Count)
                    BY <1>0, <1>3
                <4> QED
                    BY <1>3, <2>4, <4>1 DEF TakeNext, Reports, NothingToSend, worldVars
            <3>2. lane' = lane
                BY <1>0, <3>1
            <3>3. /\ sent' \in Seq(Recipients) /\ failed' \in Seq(Recipients)
                  /\ Settled' = Settled \cup {nextIndex}
                BY <1>0, <2>0, <3>1, ReportAdds
            <3>4. TypeOK'
                BY <1>0, <2>2, <3>1, <3>2, <3>3 DEF TypeOK
            <3>5. \A k \in Lanes : ~Working(k)
                BY <1>0, <2>4 DEF LaneInv, NothingToSend
            <3>6. TypeInv'
                BY <2>1, <2>3, <3>2, <3>4, <3>5 DEF TypeInv, LaneInv, Working, Ended
            <3>7. TakenInv'
                <4>1. \A r \in Settled' : r < nextIndex'
                    BY <1>0, <2>0, <3>3
                <4>2. \A r \in Recipients : r < nextIndex' => r \in Settled'
                    BY <1>0, <3>3, <3>5 DEF Inv, TakenInv, Recipients
                <4> QED
                    BY <4>1, <4>2 DEF TakenInv
            <3> QED
                BY <3>6, <3>7 DEF Inv
        <2>5. CASE ~NothingToSend
            <3> DEFINE task == [step |-> "post", to |-> nextIndex, part |-> 1, attempt |-> 0]
            <3>1. lane' = [lane EXCEPT ![l] = task]
                  /\ UNCHANGED <<sent, failed, resolved, received, lost>>
                <4>1. ~(nextIndex > Count)
                    BY <1>0, <1>3
                <4> QED
                    BY <1>3, <2>5, <4>1 DEF TakeNext, FirstPart, NothingToSend, worldVars
            <3>2. task \in Lane /\ 1 \in 1..Parts
                BY <1>0, <1>3, <2>5, FanoutAssumption DEF Lane, LaneSteps, NothingToSend
            <3>3. /\ lane' \in [Lanes -> Lane] /\ lane'[l] = task
                  /\ \A k \in Lanes \ {l} : lane'[k] = lane[k]
                BY <1>0, <3>1, <3>2
            <3>4. TypeOK'
                BY <1>0, <2>2, <3>1, <3>3 DEF TypeOK
            <3>5. Settled' = Settled
                BY <3>1 DEF Settled, SeqRange
            <3>6. Working(l)' /\ \A k \in Lanes \ {l} : Working(k)' <=> Working(k)
                BY <3>3 DEF Working
            <3>7. Ended' = Ended
                BY <2>3, <3>3 DEF Ended
            <3>8. ASSUME NEW k \in Lanes
                  PROVE  LaneInv(k)'
                <4>1. CASE k = l
                    BY <1>0, <2>0, <3>2, <3>3, <3>5, <4>1 DEF LaneInv
                <4>2. CASE k # l
                    <5>1. lane'[k] = lane[k] /\ LaneInv(k) /\ lane[k].step # "ended"
                        BY <1>0, <2>3, <3>3, <4>2
                    <5>2. Working(k) => lane[k].to < nextIndex'
                        BY <1>0, <5>1 DEF LaneInv, Recipients
                    <5> QED
                        BY <3>5, <5>1, <5>2 DEF LaneInv, Working
                <4> QED
                    BY <4>1, <4>2
            <3>9. ASSUME NEW j \in Lanes, NEW k \in Lanes, Working(j)', Working(k)',
                         lane'[j].to = lane'[k].to
                  PROVE  j = k
                <4>1. \A i \in Lanes \ {l} : Working(i) => lane[i].to # nextIndex
                    BY <1>0, <2>0 DEF LaneInv, Recipients
                <4>2. lane'[l].to = nextIndex
                    BY <3>3
                <4> QED
                    BY <3>3, <3>6, <3>9, <4>1, <4>2 DEF Inv, TypeInv
            <3>10. TypeInv'
                BY <2>1, <3>4, <3>7, <3>8, <3>9 DEF TypeInv
            <3>11. TakenInv'
                <4>1. \A r \in Settled' : r < nextIndex'
                    BY <1>0, <2>0, <3>5
                <4>2. ASSUME NEW r \in Recipients, r < nextIndex'
                      PROVE  r \in Settled' \/ \E k \in Lanes : Working(k)' /\ lane'[k].to = r
                    <5>1. CASE r = nextIndex
                        BY <3>3, <3>6, <5>1
                    <5>2. CASE r < nextIndex
                        <6>1. r \in Settled \/ \E k \in Lanes : Working(k) /\ lane[k].to = r
                            BY <5>2 DEF Inv, TakenInv
                        <6> QED
                            BY <1>1, <3>3, <3>5, <3>6, <6>1
                    <5> QED
                        BY <1>0, <4>2, <5>1, <5>2 DEF Recipients
                <4> QED
                    BY <4>1, <4>2 DEF TakenInv
            <3> QED
                BY <3>10, <3>11 DEF Inv
        <2> QED
            BY <2>4, <2>5
    <1> QED
        BY <1>0, <1>2, <1>3

-----------------------------------------------------------------------------
(* What the steps of a lane come to.                                       *)

\* The POST counts for the recipient and the part in hand.
LEMMA PostCounts ==
    ASSUME Inv, NEW l \in Lanes, NEW outcome \in Outcomes, Posted(l, outcome),
           NEW r, r = lane[l].to, NEW p, p = lane[l].part
    PROVE  /\ Working(l) /\ r \in Recipients /\ p \in 1..Parts
           /\ received' \in Counts /\ lost' \in Counts
           /\ \A s \in Recipients, j \in 1..Parts : s # r \/ j # p =>
                  received'[s][j] = received[s][j] /\ lost'[s][j] = lost[s][j]
           /\ received'[r][p] = received[r][p] + (IF outcome.arrives THEN 1 ELSE 0)
           /\ lost'[r][p] = lost[r][p] +
                  (IF outcome.arrives /\ outcome.answer \in Unanswered THEN 1 ELSE 0)
           /\ UNCHANGED <<nextIndex, resolved>>
    <1>0. /\ Working(l) /\ r \in Recipients /\ p \in 1..Parts
          /\ received \in Counts /\ lost \in Counts
          /\ UNCHANGED <<nextIndex, resolved>>
        BY DEF Inv, TypeInv, TypeOK, LaneInv, Posted, Working
    <1>1. /\ received' = IF outcome.arrives THEN [received EXCEPT ![r][p] = @ + 1] ELSE received
          /\ lost' = IF outcome.arrives /\ outcome.answer \in Unanswered
                     THEN [lost EXCEPT ![r][p] = @ + 1] ELSE lost
        BY DEF Posted
    <1>2. received[r][p] \in Nat /\ lost[r][p] \in Nat
        BY <1>0 DEF Counts
    <1>3. /\ received' \in Counts
          /\ received'[r][p] = received[r][p] + (IF outcome.arrives THEN 1 ELSE 0)
          /\ \A s \in Recipients, j \in 1..Parts : s # r \/ j # p =>
                 received'[s][j] = received[s][j]
        <2>1. CASE outcome.arrives
            <3>1. received' = Up(received, r, p)
                BY <1>1, <2>1 DEF Up
            <3>2. /\ Up(received, r, p) \in Counts /\ Up(received, r, p)[r][p] = received[r][p] + 1
                  /\ \A s \in Recipients, j \in 1..Parts :
                         s # r \/ j # p => Up(received, r, p)[s][j] = received[s][j]
                BY ONLY <1>0, CountUp, SMTT(30)
            <3> QED
                BY ONLY <2>1, <3>1, <3>2
        <2>2. CASE ~outcome.arrives
            BY <1>0, <1>1, <1>2, <2>2
        <2> QED
            BY <2>1, <2>2
    <1>4. /\ lost' \in Counts
          /\ lost'[r][p] = lost[r][p] +
                 (IF outcome.arrives /\ outcome.answer \in Unanswered THEN 1 ELSE 0)
          /\ \A s \in Recipients, j \in 1..Parts : s # r \/ j # p => lost'[s][j] = lost[s][j]
        <2>1. CASE outcome.arrives /\ outcome.answer \in Unanswered
            <3>1. lost' = Up(lost, r, p)
                BY <1>1, <2>1 DEF Up
            <3>2. /\ Up(lost, r, p) \in Counts /\ Up(lost, r, p)[r][p] = lost[r][p] + 1
                  /\ \A s \in Recipients, j \in 1..Parts :
                         s # r \/ j # p => Up(lost, r, p)[s][j] = lost[s][j]
                BY ONLY <1>0, CountUp
            <3> QED
                BY ONLY <2>1, <3>1, <3>2
        <2>2. CASE ~(outcome.arrives /\ outcome.answer \in Unanswered)
            BY <1>0, <1>1, <1>2, <2>2
        <2> QED
            BY <2>1, <2>2
    <1> QED
        BY <1>0, <1>3, <1>4

\* The timer of a retry goes off.
LEMMA BackoffGoesOn ==
    ASSUME Inv, NEW l \in Lanes, BackoffOver(l)
    PROVE  GoesOn(l) /\ lane'[l].part = lane[l].part /\ UNCHANGED <<received, lost>>
    <1>0. /\ lane \in [Lanes -> Lane] /\ lane[l] \in Lane /\ lane[l].step = "backoff"
          /\ Working(l) /\ lane[l].part \in 1..Parts
          /\ lane[l].attempt \in Nat /\ lane[l].attempt < MaxRetries
        BY DEF Inv, TypeInv, TypeOK, BackoffOver, LaneInv, Working, Lane
    <1> DEFINE it == [lane[l] EXCEPT !.step = "post", !.attempt = lane[l].attempt + 1]
    <1>1. lane' = [lane EXCEPT ![l] = it]
        BY DEF BackoffOver, Again
    <1>2. /\ it \in Lane /\ it.step = "post" /\ it.to = lane[l].to
          /\ it.part = lane[l].part
        <2>1. lane[l].attempt + 1 \in 0..MaxRetries /\ "post" \in LaneSteps
            BY <1>0, FanoutAssumption DEF LaneSteps
        <2>2. it \in Lane
            BY <1>0, <2>1 DEF Lane
        <2> QED
            BY <1>0, <2>2 DEF Lane
    <1>3. lane' \in [Lanes -> Lane] /\ lane'[l] = it /\ \A k \in Lanes \ {l} : lane'[k] = lane[k]
        BY <1>0, <1>1, <1>2
    <1> QED
        BY <1>0, <1>2, <1>3 DEF GoesOn, Working, BackoffOver, worldVars

\* An answer that asks for a retry.
LEMMA PutOffGoesOn ==
    ASSUME Inv, NEW l \in Lanes, NEW outcome \in Outcomes, PartPutOff(l, outcome)
    PROVE  GoesOn(l) /\ lane'[l].part = lane[l].part
    <1>0. /\ lane \in [Lanes -> Lane] /\ lane[l] \in Lane /\ lane[l].step = "post"
          /\ Working(l) /\ lane[l].part \in 1..Parts
          /\ lane[l].attempt \in 0..MaxRetries /\ lane[l].attempt # MaxRetries
        BY DEF Inv, TypeInv, TypeOK, PartPutOff, Posted, LaneInv, Working, Lane, OutOfRetries
    <1> DEFINE it == [lane[l] EXCEPT !.step = "backoff"]
    <1>1. lane' = [lane EXCEPT ![l] = it]
        BY DEF PartPutOff
    <1>2. /\ it \in Lane /\ it.step = "backoff" /\ it.to = lane[l].to
          /\ it.part = lane[l].part /\ it.attempt = lane[l].attempt
        <2>1. it \in Lane
            BY <1>0 DEF Lane, LaneSteps
        <2> QED
            BY <1>0, <2>1 DEF Lane
    <1>3. lane[l].attempt < MaxRetries
        BY <1>0, FanoutAssumption
    <1>4. lane' \in [Lanes -> Lane] /\ lane'[l] = it /\ \A k \in Lanes \ {l} : lane'[k] = lane[k]
        BY <1>0, <1>1, <1>2
    <1> QED
        BY <1>0, <1>2, <1>3, <1>4 DEF GoesOn, Working, PartPutOff, Posted

\* A part is sent: the next one is up, or the recipient is done with.
LEMMA PartSentGoesOn ==
    ASSUME Inv, NEW l \in Lanes, NEW outcome \in Outcomes, PartSent(l, outcome)
    PROVE  \/ /\ GoesOn(l) /\ lane[l].part < Parts /\ lane'[l].part = lane[l].part + 1
              /\ lane'[l].step = "post"
           \/ /\ Settles(l) /\ lane[l].part = Parts
              /\ sent' = Append(sent, lane[l].to)
    <1>0. /\ lane \in [Lanes -> Lane] /\ lane[l] \in Lane /\ lane[l].step = "post"
          /\ Working(l) /\ lane[l].part \in 1..Parts
          /\ Parts \in Nat /\ UNCHANGED <<nextIndex, resolved, failed>>
        BY FanoutAssumption
        DEF Inv, TypeInv, TypeOK, PartSent, Posted, LaneInv, Working, Lane
    <1>1. CASE lane[l].part = Parts
        BY <1>0, <1>1 DEF PartSent, LastPart, Settles, Reports
    <1>2. CASE lane[l].part # Parts
        <2> DEFINE it == [lane[l] EXCEPT !.part = lane[l].part + 1, !.attempt = 0]
        <2>1. lane' = [lane EXCEPT ![l] = it] /\ sent' = sent
            BY <1>2 DEF PartSent, LastPart
        <2>2. lane[l].part + 1 \in 1..Parts /\ lane[l].part < Parts
            BY <1>0, <1>2
        <2>3. /\ it \in Lane /\ it.step = "post" /\ it.to = lane[l].to
              /\ it.part = lane[l].part + 1
            <3>1. it \in Lane
                <4>1. lane[l].part + 1 \in 0..Parts /\ 0 \in 0..MaxRetries
                    BY <1>0, <2>2, FanoutAssumption
                <4> QED
                    BY <1>0, <4>1 DEF Lane
            <3> QED
                BY <1>0, <3>1 DEF Lane
        <2>4. /\ lane' \in [Lanes -> Lane] /\ lane'[l] = it
              /\ \A k \in Lanes \ {l} : lane'[k] = lane[k]
            BY <1>0, <2>1, <2>3
        <2> QED
            BY <1>0, <2>1, <2>2, <2>3, <2>4 DEF GoesOn, Working
    <1> QED
        BY <1>1, <1>2

\* A recipient who will not get the rest is done with.
LEMMA FailureSettles ==
    ASSUME Inv, NEW l \in Lanes, NEW outcome \in Outcomes, RecipientFails(l, outcome)
    PROVE  Settles(l) /\ failed' = Append(failed, lane[l].to) /\ sent' = sent
    BY DEF RecipientFails, Posted, Settles, Working, Reports

\* At first nobody is taken.
LEMMA InvInit == Init => Inv
    <1> SUFFICES ASSUME Init PROVE Inv
        OBVIOUS
    <1>1. Settled = {} /\ Ended = {} /\ \A l \in Lanes : ~Working(l)
        BY DEF Init, Settled, SeqRange, Ended, Working, NextRecipient
    <1>2. TypeOK
        <2>1. 1 \in 1..Count + 1 + Cardinality(Lanes)
            BY FanoutAssumption, LanesAreFinite
        <2>2. ZeroCounts \in Counts
            BY DEF ZeroCounts, Counts
        <2> QED
            <3>1. <<>> \in Seq(Recipients)
                OBVIOUS
            <3>2. lane \in [Lanes -> Lane]
                BY NextRecipientIsLane DEF Init
            <3> QED
                BY <2>1, <2>2, <3>1, <3>2 DEF Init, TypeOK
    <1>3. \A l \in Lanes : lane[l].step = "next"
        BY NextRecipientIsLane DEF Init
    <1>4. nextIndex <= Count + 1 + Cardinality(Ended)
        BY <1>1, FanoutAssumption, FS_EmptySet DEF Init
    <1>5. \A r \in Recipients : ~(r < nextIndex)
        BY DEF Init, Recipients
    <1> QED
        BY <1>1, <1>2, <1>3, <1>4, <1>5 DEF Inv, TypeInv, LaneInv, TakenInv

\* Every step keeps the lanes and what is taken.
LEMMA InvStep == Inv /\ [Next]_vars => Inv'
    <1> SUFFICES ASSUME Inv, [Next]_vars PROVE Inv'
        OBVIOUS
    <1>1. CASE UNCHANGED vars
        BY <1>1 DEF vars, Inv, TypeInv, TakenInv, TypeOK, LaneInv, Working, Settled, SeqRange, Ended
    <1>2. CASE Resolve
        <2>1. UNCHANGED <<nextIndex, lane, sent, failed, received, lost>> /\ resolved' = TRUE
            BY <1>2 DEF Resolve, worldVars
        <2>2. TypeOK'
            BY <2>1 DEF Inv, TypeInv, TypeOK
        <2>3. Settled' = Settled /\ Ended' = Ended
            BY <2>1 DEF Settled, SeqRange, Ended
        <2>4. \A l \in Lanes : LaneInv(l)'
            BY <2>1, <2>3 DEF Inv, TypeInv, LaneInv, Working
        <2>5. TypeInv'
            BY <2>1, <2>2, <2>3, <2>4 DEF Inv, TypeInv, Working
        <2>6. TakenInv'
            BY <2>1, <2>3 DEF Inv, TakenInv, Working
        <2> QED
            BY <2>5, <2>6 DEF Inv
    <1>3. ASSUME NEW l \in Lanes, BackoffOver(l)
          PROVE  Inv'
        <2>1. received \in Counts /\ lost \in Counts
            BY DEF Inv, TypeInv, TypeOK
        <2> QED
            BY <1>3, <2>1, BackoffGoesOn, GoingOnKeepsInv
    <1>4. ASSUME NEW l \in Lanes, NEW outcome \in Outcomes,
                 PartSent(l, outcome) \/ PartPutOff(l, outcome) \/ RecipientFails(l, outcome)
          PROVE  Inv'
        <2>1. received' \in Counts /\ lost' \in Counts
            BY <1>4, PostCounts DEF PartSent, PartPutOff, RecipientFails
        <2> QED
            BY <1>4, <2>1, PartSentGoesOn, PutOffGoesOn, FailureSettles, GoingOnKeepsInv,
               SettlingKeepsInv
    <1> QED
        BY <1>1, <1>2, <1>3, <1>4, TakingKeepsInv DEF Next, LaneStep

\* Every variable has its type, for any recipients, parts, lanes and retries.
THEOREM FanoutTypeCorrect == Spec => []TypeOK
    <1>1. Inv => TypeOK
        BY DEF Inv, TypeInv
    <1> QED
        BY InvInit, InvStep, <1>1, PTL DEF Spec

-----------------------------------------------------------------------------
(* Who is reported.                                                        *)

\* Whoever a step reports was not reported before.
LEMMA ReportsAreNew ==
    ASSUME Inv, [Next]_vars
    PROVE  \/ UNCHANGED <<sent, failed>>
           \/ \E r \in Recipients \ Settled : Reports(r)
    <1>1. ASSUME NEW l \in Lanes, Settles(l)
          PROVE  \E r \in Recipients \ Settled : Reports(r)
        BY <1>1 DEF Settles, Inv, TypeInv, LaneInv
    <1>2. ASSUME NEW l \in Lanes, TakeNext(l)
          PROVE  \/ UNCHANGED <<sent, failed>>
                 \/ \E r \in Recipients \ Settled : Reports(r)
        <2>1. nextIndex \in Nat /\ nextIndex >= 1 /\ Count \in Nat
            BY FanoutAssumption DEF Inv, TypeInv, TypeOK
        <2>2. CASE nextIndex <= Count /\ NothingToSend
            <3>1. Reports(nextIndex)
                BY <1>2, <2>2 DEF TakeNext, Reports
            <3>2. nextIndex \in Recipients /\ nextIndex \notin Settled
                BY <2>1, <2>2 DEF Inv, TakenInv, Recipients
            <3> QED
                BY <3>1, <3>2
        <2>3. CASE ~(nextIndex <= Count /\ NothingToSend)
            BY <1>2, <2>3 DEF TakeNext
        <2> QED
            BY <2>2, <2>3
    <1>3. ASSUME NEW l \in Lanes, NEW outcome \in Outcomes, PartSent(l, outcome)
          PROVE  UNCHANGED <<sent, failed>> \/ Settles(l)
        BY <1>3, PartSentGoesOn DEF GoesOn
    <1>4. ASSUME NEW l \in Lanes, NEW outcome \in Outcomes, RecipientFails(l, outcome)
          PROVE  Settles(l)
        BY <1>4, FailureSettles
    <1> QED
        BY <1>1, <1>2, <1>3, <1>4
        DEF Next, LaneStep, BackoffOver, PartPutOff, Resolve, vars

\* No recipient is reported twice, as sent or as failed or as both, in a
\* fan-out to any number of recipients by any number of lanes.
THEOREM RecipientsAreReportedOnce == Spec => []ReportedOnce
    <1>1. Init => ReportedOnce
        BY FS_EmptySet DEF Init, ReportedOnce, SeqRange
    <1>2. ASSUME Inv, ReportedOnce, [Next]_vars
          PROVE  ReportedOnce'
        <2>1. CASE UNCHANGED <<sent, failed>>
            BY <1>2, <2>1 DEF ReportedOnce, SeqRange
        <2>2. ASSUME NEW r \in Recipients \ Settled, Reports(r)
              PROVE  ReportedOnce'
            <3>1. /\ Settled' = Settled \cup {r}
                  /\ Len(sent') + Len(failed') = Len(sent) + Len(failed) + 1
                BY <1>2, <2>2, ReportAdds DEF Inv, TypeInv
            <3>2. IsFiniteSet(Settled)
                <4>1. IsFiniteSet(Recipients)
                    BY FanoutAssumption, FS_Interval DEF Recipients
                <4>2. Settled \subseteq Recipients
                    BY <1>2 DEF Inv, TypeInv, TypeOK, Settled, SeqRange
                <4> QED
                    BY <4>1, <4>2, FS_Subset
            <3>3. Cardinality(Settled') = Cardinality(Settled) + 1
                BY <2>2, <3>1, <3>2, FS_AddElement
            <3> QED
                BY <1>2, <3>1, <3>3 DEF ReportedOnce, Settled
        <2> QED
            BY <1>2, <2>1, <2>2, ReportsAreNew
    <1> QED
        BY InvInit, InvStep, <1>1, <1>2, PTL DEF Spec

-----------------------------------------------------------------------------
(* What arrives.                                                           *)

\* What taking a recipient does to the lanes.
LEMMA TakenLane ==
    ASSUME Inv, NEW l \in Lanes, TakeNext(l)
    PROVE  /\ nextIndex \in Nat /\ nextIndex' = nextIndex + 1 /\ UNCHANGED <<received, lost>>
           /\ \A k \in Lanes \ {l} : lane'[k] = lane[k]
           /\ Working(l)' => /\ lane'[l].to = nextIndex /\ lane'[l].part = 1
                             /\ nextIndex \in Recipients
    <1>0. /\ lane \in [Lanes -> Lane] /\ lane[l] \in Lane /\ lane[l].step = "next"
          /\ nextIndex \in Nat /\ nextIndex >= 1 /\ Count \in Nat
        BY FanoutAssumption DEF Inv, TypeInv, TypeOK, TakeNext
    <1>1. CASE nextIndex > Count
        <2> DEFINE it == [lane[l] EXCEPT !.step = "ended"]
        <2>1. lane' = [lane EXCEPT ![l] = it]
            BY <1>1 DEF TakeNext
        <2>2. it.step = "ended"
            BY <1>0 DEF Lane
        <2> QED
            BY <1>0, <2>1, <2>2 DEF TakeNext, Advance, worldVars, Working
    <1>2. CASE ~(nextIndex > Count)
        <2>1. nextIndex \in Recipients
            BY <1>0, <1>2 DEF Recipients
        <2>2. CASE NothingToSend
            BY <1>0, <1>2, <2>2 DEF TakeNext, Advance, worldVars, Working, NothingToSend
        <2>3. CASE ~NothingToSend
            <3> DEFINE it == [step |-> "post", to |-> nextIndex, part |-> 1, attempt |-> 0]
            <3>1. lane' = [lane EXCEPT ![l] = it]
                BY <1>2, <2>3 DEF TakeNext, FirstPart, NothingToSend
            <3> QED
                BY <1>0, <2>1, <3>1 DEF TakeNext, Advance, worldVars
        <2> QED
            BY <2>2, <2>3
    <1> QED
        BY <1>1, <1>2

\* At first nothing has arrived.
LEMMA ReceivedInit == Init => ReceivedInv
    <1> SUFFICES ASSUME Init PROVE ReceivedInv
        OBVIOUS
    <1>1. \A l \in Lanes : ~Working(l)
        BY NextRecipientIsLane DEF Init, Working
    <1>2. \A r \in Recipients, k \in 1..Parts : received[r][k] = 0 /\ lost[r][k] = 0
        BY DEF Init, ZeroCounts
    <1> QED
        BY <1>1, <1>2 DEF ReceivedInv

\* A POST keeps what is said of the lanes that are not its own.
LEMMA PostKeepsOthers ==
    ASSUME Inv, ReceivedInv, NEW l \in Lanes, NEW outcome \in Outcomes, Posted(l, outcome),
           GoesOn(l) \/ Settles(l)
    PROVE  /\ \A k \in Lanes \ {l} : Working(k)' =>
                  /\ \A j \in 1..Parts : j < lane'[k].part => received'[lane'[k].to][j] > 0
                  /\ \A j \in lane'[k].part..Parts :
                         received'[lane'[k].to][j] <= lost'[lane'[k].to][j]
           /\ \A s \in Recipients : s >= nextIndex' =>
                  \A j \in 1..Parts : received'[s][j] = 0 /\ lost'[s][j] = 0
    <1> DEFINE r == lane[l].to
    <1>1. /\ Working(l) /\ r \in Recipients /\ nextIndex' = nextIndex
          /\ \A s \in Recipients \ {r}, j \in 1..Parts :
                 received'[s][j] = received[s][j] /\ lost'[s][j] = lost[s][j]
        BY PostCounts
    <1>2. \A k \in Lanes \ {l} : lane'[k] = lane[k] /\ (Working(k)' <=> Working(k))
        BY DEF GoesOn, Settles, Inv, TypeInv, TypeOK, Working
    <1>3. \A k \in Lanes \ {l} : Working(k) =>
              /\ lane[k].to \in Recipients \ {r} /\ lane[k].part \in 1..Parts
        BY <1>1 DEF Inv, TypeInv, LaneInv
    <1>4. ASSUME NEW k \in Lanes \ {l}, Working(k)'
          PROVE  /\ \A j \in 1..Parts : j < lane'[k].part => received'[lane'[k].to][j] > 0
                 /\ \A j \in lane'[k].part..Parts :
                        received'[lane'[k].to][j] <= lost'[lane'[k].to][j]
        <2>1. PICK s \in Recipients \ {r} : s = lane[k].to
            BY <1>2, <1>3, <1>4
        <2>2. PICK p \in 1..Parts : p = lane[k].part
            BY <1>2, <1>3, <1>4
        <2>3. \A j \in p..Parts : j \in 1..Parts
            BY FanoutAssumption
        <2>4. /\ \A j \in 1..Parts : j < p => received[s][j] > 0
              /\ \A j \in p..Parts : received[s][j] <= lost[s][j]
            BY <1>2, <1>4, <2>1, <2>2 DEF ReceivedInv
        <2>5. lane'[k].to = s /\ lane'[k].part = p
            BY <1>2, <2>1, <2>2
        <2> QED
            BY <1>1, <2>3, <2>4, <2>5
    <1>5. ASSUME NEW s \in Recipients, s >= nextIndex', NEW j \in 1..Parts
          PROVE  received'[s][j] = 0 /\ lost'[s][j] = 0
        <2>1. s # r
            <3>1. r < nextIndex /\ nextIndex \in Nat /\ r \in Nat /\ s \in Nat
                BY <1>1 DEF Inv, TypeInv, TypeOK, LaneInv, Recipients
            <3> QED
                BY <1>1, <1>5, <3>1
        <2> QED
            BY <1>1, <1>5, <2>1 DEF ReceivedInv
    <1> QED
        BY <1>4, <1>5

\* The three ways a POST ends keep what is said of its lane, too.
LEMMA PostKeepsReceived ==
    ASSUME Inv, ReceivedInv, NEW l \in Lanes, NEW outcome \in Outcomes,
           PartSent(l, outcome) \/ PartPutOff(l, outcome) \/ RecipientFails(l, outcome)
    PROVE  ReceivedInv'
    <1>0. Posted(l, outcome) /\ (GoesOn(l) \/ Settles(l)) /\ lane \in [Lanes -> Lane]
        BY PartSentGoesOn, PutOffGoesOn, FailureSettles
        DEF PartSent, PartPutOff, RecipientFails, Inv, TypeInv, TypeOK
    <1>1. PICK r \in Recipients, p \in 1..Parts : r = lane[l].to /\ p = lane[l].part
        BY <1>0, PostCounts
    <1>2. /\ Working(l) /\ received \in Counts /\ lost \in Counts
          /\ \A j \in 1..Parts : j # p =>
                 received'[r][j] = received[r][j] /\ lost'[r][j] = lost[r][j]
          /\ received'[r][p] = received[r][p] + (IF outcome.arrives THEN 1 ELSE 0)
          /\ lost'[r][p] = lost[r][p] +
                 (IF outcome.arrives /\ outcome.answer \in Unanswered THEN 1 ELSE 0)
        BY <1>0, <1>1, PostCounts DEF Inv, TypeInv, TypeOK
    <1>3. \A j \in 1..Parts : received[r][j] \in Nat /\ lost[r][j] \in Nat
        BY <1>2 DEF Counts
    <1>4. /\ \A j \in 1..Parts : j < p => received[r][j] > 0
          /\ \A j \in p..Parts : received[r][j] <= lost[r][j]
        BY <1>1, <1>2 DEF ReceivedInv
    <1>5. p \in Nat /\ Parts \in Nat /\ p..Parts \subseteq 1..Parts
        BY FanoutAssumption
    <1>6. ASSUME Working(l)'
          PROVE  /\ \A j \in 1..Parts : j < lane'[l].part => received'[lane'[l].to][j] > 0
                 /\ \A j \in lane'[l].part..Parts :
                        received'[lane'[l].to][j] <= lost'[lane'[l].to][j]
        <2>1. CASE PartSent(l, outcome)
            <3>1. lane'[l].to = r /\ lane'[l].part = p + 1
                BY <1>0, <1>1, <1>6, <2>1, PartSentGoesOn, NextRecipientIsLane
                DEF GoesOn, Settles, Working
            <3>2. outcome.arrives
                BY <2>1 DEF PartSent, Outcomes
            <3>3. received'[r][p] > 0
                BY <1>2, <1>3, <3>2
            <3>4. \A j \in 1..Parts : j < p + 1 => received'[r][j] > 0
                BY <1>2, <1>4, <1>5, <3>3
            <3>5. \A j \in p + 1..Parts : received'[r][j] <= lost'[r][j]
                BY <1>2, <1>4, <1>5
            <3> QED
                BY <3>1, <3>4, <3>5
        <2>2. CASE PartPutOff(l, outcome)
            <3>1. lane'[l].to = r /\ lane'[l].part = p
                BY <1>1, <2>2, PutOffGoesOn DEF GoesOn
            <3>2. outcome.answer \in Unanswered
                BY <2>2 DEF PartPutOff, Retryable
            <3>3. received'[r][p] <= lost'[r][p]
                BY <1>2, <1>3, <1>4, <1>5, <3>2
            <3>4. \A j \in p..Parts : received'[r][j] <= lost'[r][j]
                BY <1>2, <1>4, <1>5, <3>3
            <3>5. \A j \in 1..Parts : j < p => received'[r][j] > 0
                BY <1>2, <1>4, <1>5
            <3> QED
                BY <3>1, <3>4, <3>5
        <2>3. CASE RecipientFails(l, outcome)
            BY <1>0, <1>6, <2>3, NextRecipientIsLane DEF RecipientFails, Working
        <2> QED
            BY <2>1, <2>2, <2>3
    <1>7. /\ \A k \in Lanes \ {l} : Working(k)' =>
                  /\ \A j \in 1..Parts : j < lane'[k].part => received'[lane'[k].to][j] > 0
                  /\ \A j \in lane'[k].part..Parts :
                         received'[lane'[k].to][j] <= lost'[lane'[k].to][j]
          /\ \A s \in Recipients : s >= nextIndex' =>
                 \A j \in 1..Parts : received'[s][j] = 0 /\ lost'[s][j] = 0
        BY <1>0, PostKeepsOthers
    <1> QED
        BY <1>6, <1>7 DEF ReceivedInv

\* Every step does.
LEMMA ReceivedStep == Inv /\ ReceivedInv /\ [Next]_vars => ReceivedInv'
    <1> SUFFICES ASSUME Inv, ReceivedInv, [Next]_vars PROVE ReceivedInv'
        OBVIOUS
    <1>1. CASE UNCHANGED vars \/ Resolve
        BY <1>1 DEF vars, Resolve, worldVars, ReceivedInv, Working
    <1>2. ASSUME NEW l \in Lanes, BackoffOver(l)
          PROVE  ReceivedInv'
        <2>1. /\ \A k \in Lanes : (Working(k)' <=> Working(k))
              /\ \A k \in Lanes : lane'[k].to = lane[k].to /\ lane'[k].part = lane[k].part
              /\ UNCHANGED <<nextIndex, received, lost>>
            BY <1>2, BackoffGoesOn DEF GoesOn, Working
        <2> QED
            BY <2>1 DEF ReceivedInv
    <1>3. ASSUME NEW l \in Lanes, TakeNext(l)
          PROVE  ReceivedInv'
        <2>1. /\ nextIndex \in Nat /\ nextIndex' = nextIndex + 1 /\ UNCHANGED <<received, lost>>
              /\ \A k \in Lanes \ {l} : lane'[k] = lane[k]
              /\ Working(l)' => /\ lane'[l].to = nextIndex /\ lane'[l].part = 1
                                /\ nextIndex \in Recipients
            BY <1>3, TakenLane
        <2>2. \A k \in Lanes \ {l} : Working(k)' <=> Working(k)
            BY <2>1 DEF Working
        <2>3. \A s \in Recipients : s >= nextIndex' =>
                  \A j \in 1..Parts : received'[s][j] = 0 /\ lost'[s][j] = 0
            BY <2>1 DEF ReceivedInv, Recipients
        <2>4. ASSUME Working(l)'
              PROVE  /\ \A j \in 1..Parts : j < lane'[l].part => received'[lane'[l].to][j] > 0
                     /\ \A j \in lane'[l].part..Parts :
                            received'[lane'[l].to][j] <= lost'[lane'[l].to][j]
            <3>1. \A j \in 1..Parts : received[nextIndex][j] = 0 /\ lost[nextIndex][j] = 0
                BY <2>1, <2>4 DEF ReceivedInv
            <3> QED
                BY <2>1, <2>4, <3>1
        <2> QED
            BY <2>1, <2>2, <2>3, <2>4 DEF ReceivedInv
    <1> QED
        BY <1>1, <1>2, <1>3, PostKeepsReceived DEF Next, LaneStep

\* A step other than a POST's end leaves the counts as they are.
LEMMA OnlyPostsCount ==
    ASSUME Inv, [Next]_vars
    PROVE  \/ UNCHANGED <<received, lost>>
           \/ \E l \in Lanes, outcome \in Outcomes : Posted(l, outcome)
    BY BackoffGoesOn, TakenLane
    DEF Next, LaneStep, PartSent, PartPutOff, RecipientFails, Resolve, worldVars, vars

\* A recipient gets the parts in order: what has arrived so far is a prefix of
\* the text and its attachments.
THEOREM PartsArriveInOrder == Spec => []PartsInOrder
    <1>1. Init => PartsInOrder
        <2> SUFFICES ASSUME Init, NEW r \in Recipients, NEW k \in 2..Parts
                     PROVE  received[r][k] = 0
            BY DEF PartsInOrder
        <2>1. k \in 1..Parts
            BY FanoutAssumption
        <2> QED
            BY <2>1 DEF Init, ZeroCounts
    <1>2. ASSUME Inv, ReceivedInv, PartsInOrder, [Next]_vars
          PROVE  PartsInOrder'
        <2>1. CASE UNCHANGED <<received, lost>>
            BY <1>2, <2>1 DEF PartsInOrder
        <2>2. ASSUME NEW l \in Lanes, NEW outcome \in Outcomes, Posted(l, outcome),
                     NEW s \in Recipients, NEW k \in 2..Parts, received'[s][k] > 0
              PROVE  received'[s][k - 1] > 0
            <3>1. PICK r \in Recipients, p \in 1..Parts : r = lane[l].to /\ p = lane[l].part
                BY <1>2, <2>2, PostCounts
            <3>2. /\ Working(l) /\ received \in Counts
                  /\ \A q \in Recipients, j \in 1..Parts : q # r \/ j # p =>
                         received'[q][j] = received[q][j]
                  /\ received'[r][p] = received[r][p] + (IF outcome.arrives THEN 1 ELSE 0)
                BY <1>2, <2>2, <3>1, PostCounts DEF Inv, TypeInv, TypeOK
            <3>3. /\ k \in 1..Parts /\ k - 1 \in 1..Parts /\ k - 1 # k /\ k - 1 < k
                  /\ received[s][k] \in Nat /\ received[s][k - 1] \in Nat
                <4>1. k \in 1..Parts /\ k - 1 \in 1..Parts /\ k - 1 # k /\ k - 1 < k
                    BY FanoutAssumption
                <4> QED
                    BY <3>2, <4>1 DEF Counts
            <3>4. received[s][k - 1] > 0
                <4>1. CASE s = r /\ k = p
                    BY <1>2, <3>1, <3>2, <3>3, <4>1 DEF ReceivedInv
                <4>2. CASE ~(s = r /\ k = p)
                    <5>1. received[s][k] > 0
                        BY <2>2, <3>2, <3>3, <4>2
                    <5> QED
                        BY <1>2, <5>1 DEF PartsInOrder
                <4> QED
                    BY <4>1, <4>2
            <3>5. received'[s][k - 1] >= received[s][k - 1]
                BY <3>2, <3>3
            <3> QED
                BY <3>3, <3>4, <3>5, <3>2
        <2> QED
            BY <1>2, <2>1, <2>2, OnlyPostsCount DEF PartsInOrder
    <1> QED
        BY InvInit, InvStep, ReceivedInit, ReceivedStep, <1>1, <1>2, PTL DEF Spec

\* A recipient sees a part once, and once more for each answer that was lost.
THEOREM RepeatsArePaidFor == Spec => []RepeatsAreLostAnswers
    <1>1. Init => RepeatsAreLostAnswers
        BY DEF Init, RepeatsAreLostAnswers, ZeroCounts
    <1>2. ASSUME Inv, ReceivedInv, RepeatsAreLostAnswers, [Next]_vars
          PROVE  RepeatsAreLostAnswers'
        <2>1. CASE UNCHANGED <<received, lost>>
            BY <1>2, <2>1 DEF RepeatsAreLostAnswers
        <2>2. ASSUME NEW l \in Lanes, NEW outcome \in Outcomes, Posted(l, outcome),
                     NEW s \in Recipients, NEW k \in 1..Parts
              PROVE  received'[s][k] <= 1 + lost'[s][k]
            <3>1. PICK r \in Recipients, p \in 1..Parts : r = lane[l].to /\ p = lane[l].part
                BY <1>2, <2>2, PostCounts
            <3>2. /\ Working(l) /\ received \in Counts /\ lost \in Counts
                  /\ \A q \in Recipients, j \in 1..Parts : q # r \/ j # p =>
                         received'[q][j] = received[q][j] /\ lost'[q][j] = lost[q][j]
                  /\ received'[r][p] = received[r][p] + (IF outcome.arrives THEN 1 ELSE 0)
                  /\ lost'[r][p] = lost[r][p] +
                         (IF outcome.arrives /\ outcome.answer \in Unanswered THEN 1 ELSE 0)
                BY <1>2, <2>2, <3>1, PostCounts DEF Inv, TypeInv, TypeOK
            <3>3. received[s][k] \in Nat /\ lost[s][k] \in Nat
                BY <3>2 DEF Counts
            <3>4. CASE s = r /\ k = p
                <4>1. p \in p..Parts
                    BY FanoutAssumption
                <4>2. received[r][p] <= lost[r][p]
                    BY <1>2, <3>1, <3>2, <4>1 DEF ReceivedInv
                <4> QED
                    BY <3>2, <3>3, <3>4, <4>2
            <3>5. CASE ~(s = r /\ k = p)
                BY <1>2, <3>2, <3>3, <3>5 DEF RepeatsAreLostAnswers
            <3> QED
                BY <3>4, <3>5
        <2> QED
            BY <1>2, <2>1, <2>2, OnlyPostsCount DEF RepeatsAreLostAnswers
    <1> QED
        BY InvInit, InvStep, ReceivedInit, ReceivedStep, <1>1, <1>2, PTL DEF Spec

-----------------------------------------------------------------------------
(* The contract.                                                           *)

\* What the contract sees: what the result says of each recipient, and who
\* has every part.
SettledAs == [r \in Recipients |-> IF r \in SeqRange(sent) THEN "sent"
                                   ELSE IF r \in SeqRange(failed) THEN "failed"
                                   ELSE "pending"]
Complete == {r \in Recipients : Parts > 0 /\ \A k \in 1..Parts : received[r][k] > 0}

\* Reporting a recipient settles him and nobody else.
LEMMA ReportSettles ==
    ASSUME Inv, NEW r \in Recipients \ Settled, Reports(r)
    PROVE  /\ SettledAs[r] = "pending"
           /\ \/ sent' = Append(sent, r) /\ SettledAs' = [SettledAs EXCEPT ![r] = "sent"]
              \/ failed' = Append(failed, r) /\ SettledAs' = [SettledAs EXCEPT ![r] = "failed"]
    <1>0. sent \in Seq(Recipients) /\ failed \in Seq(Recipients)
        BY DEF Inv, TypeInv, TypeOK
    <1>1. r \notin SeqRange(sent) /\ r \notin SeqRange(failed)
        BY DEF Settled
    <1>2. CASE sent' = Append(sent, r) /\ failed' = failed
        <2>1. SeqRange(sent)' = SeqRange(sent) \cup {r} /\ SeqRange(failed)' = SeqRange(failed)
            BY <1>0, <1>2, RangeOfAppend DEF SeqRange
        <2>2. SettledAs' = [SettledAs EXCEPT ![r] = "sent"]
            BY <2>1 DEF SettledAs
        <2> QED
            BY <1>1, <1>2, <2>2 DEF SettledAs
    <1>3. CASE failed' = Append(failed, r) /\ sent' = sent
        <2>1. SeqRange(failed)' = SeqRange(failed) \cup {r} /\ SeqRange(sent)' = SeqRange(sent)
            BY <1>0, <1>3, RangeOfAppend DEF SeqRange
        <2>2. SettledAs' = [SettledAs EXCEPT ![r] = "failed"]
            BY <1>1, <2>1 DEF SettledAs
        <2> QED
            BY <1>1, <1>3, <2>2 DEF SettledAs
    <1> QED
        BY <1>2, <1>3 DEF Reports

\* A POST completes its own recipient at most.
LEMMA PostCompletes ==
    ASSUME Inv, NEW l \in Lanes, NEW outcome \in Outcomes, Posted(l, outcome),
           NEW r \in Recipients, r = lane[l].to
    PROVE  Complete' \in {Complete, Complete \cup {r}}
    <1>1. PICK p \in 1..Parts : p = lane[l].part
        BY PostCounts
    <1>2. /\ received \in Counts
          /\ \A q \in Recipients, j \in 1..Parts : q # r \/ j # p =>
                 received'[q][j] = received[q][j]
          /\ received'[r][p] = received[r][p] + (IF outcome.arrives THEN 1 ELSE 0)
        BY <1>1, PostCounts DEF Inv, TypeInv, TypeOK
    <1>3. \A q \in Recipients \ {r} : q \in Complete' <=> q \in Complete
        BY <1>2 DEF Complete
    <1>4. r \in Complete => r \in Complete'
        <2>1. received[r][p] \in Nat
            BY <1>2 DEF Counts
        <2> QED
            BY <1>2, <2>1 DEF Complete
    <1>5. Complete \subseteq Recipients /\ Complete' \subseteq Recipients
        BY DEF Complete
    <1> QED
        BY <1>3, <1>4, <1>5

\* When all lanes have ended, everybody is settled.
LEMMA EndedMeansSettled ==
    ASSUME Inv, AllEnded, NEW r \in Recipients
    PROVE  SettledAs[r] # "pending"
    <1>1. nextIndex > Count /\ nextIndex \in Nat /\ Count \in Nat /\ Count >= 1
        <2>1. 1 \in Lanes /\ Count \in Nat /\ Count >= 1
            BY FanoutAssumption DEF Lanes, Recipients
        <2> QED
            BY <2>1 DEF Inv, TypeInv, TypeOK, LaneInv, AllEnded
    <1>2. r < nextIndex
        BY <1>1 DEF Recipients
    <1>3. \A l \in Lanes : ~Working(l)
        BY DEF AllEnded, Working
    <1>4. r \in Settled
        BY <1>2, <1>3 DEF Inv, TakenInv
    <1> QED
        BY <1>4 DEF SettledAs, Settled

\* Every step of the fan-out is one of the contract's, or none at all.
LEMMA ContractStep ==
    ASSUME Inv, ReceivedInv, [Next]_vars
    PROVE  [Contract!ContractNext]_(Contract!contractVars)
    <1> USE DEF Contract!contractVars
    <1>0. /\ SettledAs = [r \in Recipients |-> IF r \in SeqRange(sent) THEN "sent"
                                          ELSE IF r \in SeqRange(failed) THEN "failed"
                                          ELSE "pending"]
          /\ Complete = {r \in Recipients : Parts > 0 /\ \A k \in 1..Parts : received[r][k] > 0}
        BY DEF SettledAs, Complete
    <1>1. ASSUME UNCHANGED <<sent, failed, received, resolved>>
          PROVE  UNCHANGED <<SettledAs, Complete, resolved>>
        BY <1>1 DEF SettledAs, Complete, SeqRange
    <1>2. ASSUME NEW r \in Recipients \ Settled, Reports(r), resolved' = resolved,
                 Complete' \in {Complete, Complete \cup {r}},
                 sent' = Append(sent, r) => r \in Complete'
          PROVE  \E outcome \in {"sent", "failed"} : Contract!Settle(r, outcome)
        <2>1. CASE sent' = Append(sent, r) /\ SettledAs' = [SettledAs EXCEPT ![r] = "sent"]
            <3>1. Contract!Settle(r, "sent")
                BY <1>2, <2>1, ReportSettles DEF Contract!Settle, SettledAs, Complete
            <3> QED
                BY <3>1
        <2>2. CASE failed' = Append(failed, r) /\ SettledAs' = [SettledAs EXCEPT ![r] = "failed"]
            <3>1. Contract!Settle(r, "failed")
                BY <1>2, <2>2, ReportSettles DEF Contract!Settle, SettledAs, Complete
            <3> QED
                BY <3>1
        <2> QED
            BY <1>2, <2>1, <2>2, ReportSettles
    <1>3. ASSUME NEW r \in Recipients \ Settled, UNCHANGED <<sent, failed, resolved>>,
                 Complete' \in {Complete, Complete \cup {r}}
          PROVE  Contract!Receive(r) \/ UNCHANGED <<SettledAs, Complete, resolved>>
        <2>1. SettledAs' = SettledAs /\ SettledAs[r] = "pending"
            BY <1>3 DEF SettledAs, SeqRange, Settled
        <2> QED
            BY <1>3, <2>1 DEF Contract!Receive, SettledAs, Complete
    <1>4. CASE UNCHANGED vars \/ \E l \in Lanes : BackoffOver(l)
        BY <1>1, <1>4, BackoffGoesOn DEF vars, GoesOn, SettledAs, Complete
    <1>5. CASE Resolve
        <2>1. UNCHANGED <<SettledAs, Complete>> /\ ~resolved /\ resolved' = TRUE
            BY <1>5 DEF Resolve, worldVars, SettledAs, Complete, SeqRange
        <2>2. \A r \in Recipients : SettledAs[r] # "pending"
            BY <1>5, EndedMeansSettled DEF Resolve
        <2>3. Contract!Return
            BY <2>1, <2>2 DEF Contract!Return, SettledAs, Complete
        <2> QED
            BY <2>3 DEF Contract!ContractNext
    <1>6. ASSUME NEW l \in Lanes, TakeNext(l)
          PROVE  [Contract!ContractNext]_(Contract!contractVars)
        <2>1. resolved' = resolved /\ Complete' = Complete /\ received' = received
            BY <1>6 DEF TakeNext, worldVars, Complete
        <2>2. CASE UNCHANGED <<sent, failed>>
            BY <1>1, <2>1, <2>2 DEF SettledAs, Complete
        <2>3. ASSUME NEW r \in Recipients \ Settled, Reports(r)
              PROVE  [Contract!ContractNext]_(Contract!contractVars)
            <3>1. sent' = sent
                BY <1>6 DEF TakeNext
            <3>2. sent' # Append(sent, r)
                BY <3>1, RangeOfAppend DEF Inv, TypeInv, TypeOK
            <3>3. \E outcome \in {"sent", "failed"} : Contract!Settle(r, outcome)
                BY <1>2, <2>1, <2>3, <3>2
            <3> QED
                BY <3>3 DEF Contract!ContractNext
        <2> QED
            BY <2>2, <2>3, ReportsAreNew
    <1>7. ASSUME NEW l \in Lanes, NEW outcome \in Outcomes,
                 PartSent(l, outcome) \/ PartPutOff(l, outcome) \/ RecipientFails(l, outcome)
          PROVE  [Contract!ContractNext]_(Contract!contractVars)
        <2>0. Posted(l, outcome) /\ resolved' = resolved
            BY <1>7 DEF PartSent, PartPutOff, RecipientFails, Posted
        <2>1. PICK r \in Recipients : r = lane[l].to
            BY <2>0, PostCounts
        <2>2. r \notin Settled /\ Complete' \in {Complete, Complete \cup {r}}
            BY <2>0, <2>1, PostCompletes, PostCounts DEF Inv, TypeInv, LaneInv
        <2>3. CASE GoesOn(l)
            <3>1. Contract!Receive(r) \/ UNCHANGED <<SettledAs, Complete, resolved>>
                BY <1>3, <2>2, <2>3 DEF GoesOn
            <3> QED
                BY <3>1 DEF Contract!ContractNext, SettledAs, Complete
        <2>4. CASE Settles(l)
            <3>1. Reports(r)
                BY <2>1, <2>4 DEF Settles
            <3>2. sent' = Append(sent, r) => r \in Complete'
                <4>1. CASE RecipientFails(l, outcome)
                    <5>1. sent' = sent /\ Append(sent, r) # sent
                        BY <4>1, RangeOfAppend DEF RecipientFails, Inv, TypeInv, TypeOK
                    <5> QED
                        BY <5>1
                <4>2. CASE PartPutOff(l, outcome)
                    <5>1. sent' = sent /\ Append(sent, r) # sent
                        BY <4>2, RangeOfAppend DEF PartPutOff, Inv, TypeInv, TypeOK
                    <5> QED
                        BY <5>1
                <4>3. CASE PartSent(l, outcome)
                    <5>1. lane[l].part = Parts /\ outcome.arrives /\ Parts \in Nat /\ Parts > 0
                        <6>1. Working(l)' => ~Settles(l)
                            BY NextRecipientIsLane DEF Settles, Working, Inv, TypeInv, TypeOK
                        <6>2. lane[l].part = Parts
                            BY <2>4, <4>3, <6>1, PartSentGoesOn DEF GoesOn
                        <6>3. lane[l].part \in 1..Parts
                            BY <2>0, PostCounts
                        <6>4. outcome.arrives
                            BY <4>3 DEF PartSent, Outcomes
                        <6> QED
                            BY <6>2, <6>3, <6>4, FanoutAssumption
                    <5>2. /\ received'[r][Parts] = received[r][Parts] + 1
                          /\ received[r][Parts] \in Nat
                          /\ \A j \in 1..Parts : j # Parts => received'[r][j] = received[r][j]
                        <6>1. Parts \in 1..Parts /\ received \in Counts
                            BY <5>1 DEF Inv, TypeInv, TypeOK
                        <6>2. received[r][Parts] \in Nat
                            BY <6>1 DEF Counts
                        <6> QED
                            BY <2>0, <2>1, <5>1, <6>2, PostCounts
                    <5>3. \A j \in 1..Parts : j < Parts => received[r][j] > 0
                        BY <2>0, <2>1, <5>1, PostCounts DEF ReceivedInv
                    <5>4. \A j \in 1..Parts : received'[r][j] > 0
                        BY <5>1, <5>2, <5>3
                    <5> QED
                        BY <5>1, <5>4 DEF Complete
                <4> QED
                    BY <1>7, <4>1, <4>2, <4>3
            <3>3. \E given \in {"sent", "failed"} : Contract!Settle(r, given)
                BY <1>2, <2>0, <2>2, <3>1, <3>2
            <3> QED
                BY <3>3 DEF Contract!ContractNext
        <2> QED
            BY <1>7, <2>3, <2>4, PartSentGoesOn, PutOffGoesOn, FailureSettles
    <1> QED
        BY <1>4, <1>5, <1>6, <1>7 DEF Next, LaneStep

\* A fan-out of any size, over any number of lanes, keeps the promise of
\* broadcastMessage: everyone is settled once, whoever is settled as sent has
\* every part, and the result comes when all are settled.
THEOREM FanoutKeepsContract == Spec => KeepsContract
    <1>1. Init => Contract!ContractInit
        <2> SUFFICES ASSUME Init PROVE Contract!ContractInit
            OBVIOUS
        <2>1. SeqRange(sent) = {} /\ SeqRange(failed) = {}
            BY DEF Init, SeqRange
        <2>2. ~(\E r \in Recipients : Parts > 0 /\ \A k \in 1..Parts : received[r][k] > 0)
            BY FanoutAssumption DEF Init, ZeroCounts
        <2> QED
            BY <2>1, <2>2 DEF Init, Contract!ContractInit
    <1> QED
        BY InvInit, InvStep, ReceivedInit, ReceivedStep, ContractStep, <1>1, PTL
        DEF Spec, KeepsContract, Contract!ContractSpec
=============================================================================
