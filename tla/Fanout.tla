------------------------------- MODULE Fanout -------------------------------
(***************************************************************************)
(* The fan-out of one announcement (tools/whatsappTool.ts): at most        *)
(* broadcastConcurrency lanes take recipients from a shared index, each    *)
(* recipient gets the text and then the attachments one by one, and each   *)
(* message is POSTed to the Cloud API with retries.  A lane's code between *)
(* two awaits is one step.                                                 *)
(***************************************************************************)
EXTENDS Integers, Sequences, FiniteSets

CONSTANTS Count,       \* number of recipients
          Parts,       \* messages per recipient: the text and the attachments
          Limit,       \* WHATSAPP_BROADCAST_CONCURRENCY
          MaxRetries   \* WHATSAPP_MAX_RETRIES

ASSUME FanoutAssumption ==
    /\ Count \in Nat /\ Parts \in Nat
    /\ Limit \in Nat \ {0} /\ MaxRetries \in Nat

Recipients == 1..Count
Lanes == 1..(IF Limit < Count THEN Limit ELSE Count)

VARIABLES nextIndex,  \* the recipient the next free lane takes
          lane,       \* what each lane is doing
          sent,       \* the recipients of the result's sent list
          failed,     \* the recipients of its failed list
          resolved,   \* Promise.all has resolved
          received,   \* how often each recipient got each part
          lost        \* those whose message arrived and whose answer did not

vars == <<nextIndex, lane, sent, failed, resolved, received, lost>>
worldVars == <<received, lost>>

LaneSteps == {"next", "post", "backoff", "ended"}
Lane == [step : LaneSteps, to : 0..Count, part : 0..Parts, attempt : 0..MaxRetries]
NextRecipient == [step |-> "next", to |-> 0, part |-> 0, attempt |-> 0]

\* What a POST can come to: whether the message arrives, and the answer.
\* Meta accepts it (ok), accepts it without an id (odd), refuses it for now
\* (429, 5xx) or for good (4xx); or no answer comes (network error).
Outcomes == [arrives : {TRUE}, answer : {"ok", "odd"}]
            \cup [arrives : {FALSE}, answer : {"refused"}]
            \cup [arrives : BOOLEAN, answer : {"unavailable", "none"}]

ZeroCounts == [r \in Recipients |-> [k \in 1..Parts |-> 0]]

Init ==
    /\ nextIndex = 1
    /\ lane = [l \in Lanes |-> NextRecipient]
    /\ sent = <<>>
    /\ failed = <<>>
    /\ resolved = FALSE
    /\ received = ZeroCounts
    /\ lost = ZeroCounts

-----------------------------------------------------------------------------
(* mapWithConcurrency and the loop over a recipient's messages.            *)

\* Mutant of Advance: the index does not move past a recipient in hand.
AdvanceOnIdle == nextIndex' = IF \E l \in Lanes : lane[l].step = "post"
                              THEN nextIndex ELSE nextIndex + 1
Advance == nextIndex' = nextIndex + 1

\* Text and attachments both missing: broadcastMessage throws for everyone.
NothingToSend == Parts = 0

\* Mutant of FirstPart: the last attachment goes first.
StartAtTheEnd == Parts
FirstPart == 1

\* Mutant of LastPart: the text alone counts.
TextAlone(part) == part = 1
LastPart(part) == part = Parts

TakeNext(l) ==
    /\ lane[l].step = "next"
    /\ Advance
    /\ lane' = [lane EXCEPT ![l] =
                   IF nextIndex > Count THEN [@ EXCEPT !.step = "ended"]
                   ELSE IF NothingToSend THEN @
                   ELSE [step |-> "post", to |-> nextIndex, part |-> FirstPart, attempt |-> 0]]
    /\ failed' = IF nextIndex <= Count /\ NothingToSend
                 THEN Append(failed, nextIndex) ELSE failed
    /\ UNCHANGED <<sent, resolved, worldVars>>

Unanswered == {"unavailable", "none"}
\* Mutant of Retryable: an accepted message without an id is sent again.
RetryableIfOdd(answer) == answer \in Unanswered \cup {"odd"}
Retryable(answer) == answer \in Unanswered
\* Mutant of OutOfRetries: one retry too many.
RetriesOnceMore(attempt) == attempt = MaxRetries + 1
OutOfRetries(attempt) == attempt = MaxRetries

\* What the answer to the POST of lane l says of its recipient and part.
Posted(l, outcome) ==
    /\ lane[l].step = "post"
    /\ LET count(counts, yes) ==
             IF yes THEN [counts EXCEPT ![lane[l].to][lane[l].part] = @ + 1] ELSE counts
       IN /\ received' = count(received, outcome.arrives)
          /\ lost' = count(lost, outcome.arrives /\ outcome.answer \in Unanswered)
    /\ UNCHANGED <<nextIndex, resolved>>

PartSent(l, outcome) ==
    /\ outcome.answer = "ok"
    /\ Posted(l, outcome)
    /\ UNCHANGED failed
    /\ IF LastPart(lane[l].part)
       THEN /\ lane' = [lane EXCEPT ![l] = NextRecipient]
            /\ sent' = Append(sent, lane[l].to)
       ELSE /\ lane' = [lane EXCEPT ![l].part = @ + 1, ![l].attempt = 0]
            /\ UNCHANGED sent

PartPutOff(l, outcome) ==
    /\ Retryable(outcome.answer) /\ ~OutOfRetries(lane[l].attempt)
    /\ Posted(l, outcome)
    /\ lane' = [lane EXCEPT ![l].step = "backoff"]
    /\ UNCHANGED <<sent, failed>>

\* A message that will not do drops the recipient's remaining ones.
RecipientFails(l, outcome) ==
    /\ outcome.answer # "ok"
    /\ ~Retryable(outcome.answer) \/ OutOfRetries(lane[l].attempt)
    /\ Posted(l, outcome)
    /\ lane' = [lane EXCEPT ![l] = NextRecipient]
    /\ failed' = Append(failed, lane[l].to)
    /\ UNCHANGED sent

\* Mutant of Again: the attempts are counted anew.
AgainFromZero(attempt) == 0
Again(attempt) == attempt + 1

BackoffOver(l) ==
    /\ lane[l].step = "backoff"
    /\ lane' = [lane EXCEPT ![l].step = "post", ![l].attempt = Again(@)]
    /\ UNCHANGED <<nextIndex, sent, failed, resolved, worldVars>>

AllEnded == \A l \in Lanes : lane[l].step = "ended"

Resolve ==
    /\ ~resolved
    /\ AllEnded
    /\ resolved' = TRUE
    /\ UNCHANGED <<nextIndex, lane, sent, failed, worldVars>>

LaneStep(l) ==
    \/ TakeNext(l)
    \/ BackoffOver(l)
    \/ \E outcome \in Outcomes : \/ PartSent(l, outcome)
                                \/ PartPutOff(l, outcome)
                                \/ RecipientFails(l, outcome)

Next == (\E l \in Lanes : LaneStep(l)) \/ Resolve

Spec == Init /\ [][Next]_vars

\* Every POST is answered or fails, and every timer goes off.
FairSpec == Spec /\ (\A l \in Lanes : WF_vars(LaneStep(l))) /\ WF_vars(Resolve)

-----------------------------------------------------------------------------
(* Properties.                                                             *)

SeqRange(s) == {s[i] : i \in 1..Len(s)}
Counts == [Recipients -> [1..Parts -> Nat]]

\* Types, with a sent or failed list no longer than the recipients.
TypeOK ==
    /\ nextIndex \in 1..Count + 1 + Cardinality(Lanes)
    /\ lane \in [Lanes -> Lane]
    /\ sent \in Seq(Recipients)
    /\ failed \in Seq(Recipients)
    /\ resolved \in BOOLEAN
    /\ received \in Counts /\ lost \in Counts

\* No recipient is reported twice, as sent or as failed or as both.
ReportedOnce ==
    Cardinality(SeqRange(sent) \cup SeqRange(failed)) = Len(sent) + Len(failed)

\* A recipient gets the parts in order: what has arrived so far is a prefix of
\* the text and its attachments, so no part comes without all those before it.
PartsInOrder ==
    \A r \in Recipients, k \in 2..Parts : received[r][k] > 0 => received[r][k - 1] > 0

\* A recipient sees a part twice only if an answer of Meta's went missing.
RepeatsAreLostAnswers ==
    \A r \in Recipients, k \in 1..Parts : received[r][k] <= 1 + lost[r][k]

\* The fan-out of any announcement ends, whatever Meta answers.
FanoutEnds == <>resolved

Contract == INSTANCE FanoutContract
    WITH settled <- [r \in Recipients |-> IF r \in SeqRange(sent) THEN "sent"
                                          ELSE IF r \in SeqRange(failed) THEN "failed"
                                          ELSE "pending"],
         complete <- {r \in Recipients : Parts > 0 /\ \A k \in 1..Parts : received[r][k] > 0},
         returned <- resolved

\* The result names every recipient, and those it calls sent have every part.
KeepsContract == Contract!ContractSpec
=============================================================================
