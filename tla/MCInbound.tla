----------------------------- MODULE MCInbound ------------------------------
(* Constants for model-checking Inbound.                                   *)
EXTENDS Inbound, TLC

CONSTANTS p1, p2, \* the payloads
          a       \* a phone

\* A text that begins like the reason of a search that found nothing.
Says(words) ==
    [from |-> a, type |-> "text", wellFormed |-> TRUE, blank |-> FALSE,
     token |-> "unknown_answer", says |-> words]
Photo == [Says({}) EXCEPT !.type = "image", !.blank = TRUE]
Anonymous == [Says({"approve_refund"}) EXCEPT !.from = Absent]
To(number, raws) == [number |-> number, messages |-> raws]
Request(changes) ==
    [signature |-> "right", json |-> TRUE, shaped |-> TRUE, changes |-> changes]

Command == To("secretary", <<Says({})>>)
DeliveryReport == Request(<<To("residents", <<>>)>>)
Forged == [Request(<<To("residents", <<Says({"complaint"})>>)>>) EXCEPT !.signature = "wrong"]

\* Two complaints, whose handlers may draw the same ticket; a text that a
\* guardrail must catch before it is a suggestion; a suggestion or a photo before
\* a command of the secretary's, or a question, beside a delivery report, a
\* request with a wrong signature, a message that names no sender; a ticket's
\* status, asked for in words that are a complaint's.
SomeRequests ==
    {<<Request(<<To("residents", <<Says({"complaint"})>>)>>),
       Request(<<To("residents", <<Says({"complaint"})>>)>>)>>,
     <<Request(<<To(Absent, <<Says({"harassment", "suggestion", "security"})>>)>>),
       DeliveryReport>>,
     <<Request(<<To("residents", <<Says({"suggestion"})>>), Command>>), DeliveryReport>>,
     <<Request(<<To("residents", <<Photo>>), Command>>), Forged>>,
     <<Request(<<To("residents", <<Says({})>>)>>), Request(<<To("residents", <<Anonymous>>)>>)>>,
     <<Request(<<To("residents", <<Says({"ticket id", "complaint"})>>)>>), DeliveryReport>>}

\* Either payload is either request, so that the payloads may be exchanged.
SomeContents ==
    UNION {{p1 :> r[1] @@ p2 :> r[2], p1 :> r[2] @@ p2 :> r[1]} : r \in SomeRequests}
PayloadSymmetry == Permutations(Payloads)
=============================================================================
