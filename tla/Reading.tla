------------------------------ MODULE Reading -------------------------------
(***************************************************************************)
(* What the request of a webhook is read as (gateway/webhook.ts,           *)
(* tools/whatsappTool.ts), and what the text of a message is taken for     *)
(* (agent/guardrails.ts, agent/intentRouter.ts, modules/escalation.ts,     *)
(* modules/suggestions.ts).  Of a text only the patterns matter that it    *)
(* matches, and the token that it begins with when its first word is one   *)
(* before a colon.                                                         *)
(***************************************************************************)
EXTENDS Integers, SequencesExt

CONSTANT Phones \* the numbers messages come from

-----------------------------------------------------------------------------
(* Patterns, each list in the order it is tried.                           *)

ForbiddenActions ==
    <<"make_financial_decision", "approve_refund", "change_maintenance_amount",
      "change_resident_information", "create_committee_decision", "remove_complaint">>
Triggers == <<"legal_issue", "police_complaint", "harassment", "financial_dispute">>
Intents == <<"complaint", "suggestion", "broadcast", "escalation">>
ReasonWords == <<"legal words", "abuse words", "money words">>
SuggestionWords == <<"security", "finance", "amenities">>
GuardPatterns == ToSet(ForbiddenActions) \cup ToSet(Triggers)
Patterns ==
    {"ticket id"} \cup GuardPatterns \cup ToSet(Intents)
        \cup ToSet(ReasonWords) \cup ToSet(SuggestionWords)

None == "none"
FirstIn(order, says) ==
    LET i == SelectInSeq(order, LAMBDA pattern : pattern \in says)
    IN  IF i = 0 THEN None ELSE order[i]

DetectForbiddenActionRequest(says) == FirstIn(ForbiddenActions, says)
DetectEscalationTrigger(says) == FirstIn(Triggers, says)
DetectIntent(says) == IF FirstIn(Intents, says) = None THEN "faq" ELSE FirstIn(Intents, says)

\* Categories of an escalation, by the token its reason begins with.
TokenCategory ==
    [legal_issue |-> "legal_matter", police_complaint |-> "abuse", harassment |-> "abuse",
     financial_dispute |-> "financial_dispute", unknown_answer |-> "unknown_question",
     make_financial_decision |-> "financial_dispute", approve_refund |-> "financial_dispute",
     change_maintenance_amount |-> "financial_dispute",
     change_resident_information |-> "committee_decision",
     create_committee_decision |-> "committee_decision",
     remove_complaint |-> "committee_decision"]
WordCategory == [w \in ToSet(ReasonWords) |->
    CASE w = "legal words" -> "legal_matter"
      [] w = "abuse words" -> "abuse"
      [] w = "money words" -> "financial_dispute"]
EscalationCategories == {"financial_dispute", "legal_matter", "committee_decision", "abuse",
                         "unknown_question"}

CategorizeEscalation(token, says) ==
    LET word == FirstIn(ReasonWords, says)
    IN  CASE token \in DOMAIN TokenCategory -> TokenCategory[token]
          [] token \notin DOMAIN TokenCategory /\ word # None -> WordCategory[word]
          [] OTHER -> "committee_decision"

SuggestionCategories == ToSet(SuggestionWords) \cup {"maintenance"}
CategorizeSuggestion(says) ==
    IF FirstIn(SuggestionWords, says) = None THEN "maintenance" ELSE FirstIn(SuggestionWords, says)
\* What Gemini answers is a category, or taken for "maintenance".
Classified(answer) == IF answer \in SuggestionCategories THEN answer ELSE "maintenance"

-----------------------------------------------------------------------------
(* Requests and the events in them.                                        *)

KnownTypes == {"text", "image", "document", "reaction"}
Absent == "absent"

\* "wellFormed" but for its sender; "blank" when it has no text, or no caption.
RawMessages ==
    [from : Phones \cup {Absent}, type : KnownTypes \cup {"other"}, wellFormed : BOOLEAN,
     blank : BOOLEAN, token : DOMAIN TokenCategory \cup {None}, says : SUBSET Patterns]
\* The changes of its entries, in order; a delivery report carries no message.
Requests ==
    [signature : {"right", "wrong", Absent}, json : BOOLEAN, shaped : BOOLEAN,
     changes : Seq([number : {"residents", "secretary", Absent}, messages : Seq(RawMessages)])]

VerifySignature(request) == request.signature = "right"
\* Anything else is answered 401 or 400 and leaves no trace.
Accepted(request) == VerifySignature(request) /\ request.json

Events ==
    [from : Phones \cup {"unknown"}, to : {"residents", "secretary", Absent},
     type : KnownTypes \cup {"unsupported"},
     blank : BOOLEAN, token : DOMAIN TokenCategory \cup {None}, says : SUBSET Patterns]

KnownMessage(raw) == raw.type \in KnownTypes /\ raw.wellFormed /\ raw.from # Absent
ToInboundEvent(raw, number) ==
    [from |-> IF raw.from = Absent THEN "unknown" ELSE raw.from,
     to |-> number,
     type |-> IF KnownMessage(raw) THEN raw.type ELSE "unsupported",
     blank |-> raw.blank, token |-> raw.token, says |-> raw.says]

ReceiveMessage(request) ==
    IF ~(request.json /\ request.shaped) THEN <<>>
    ELSE FlattenSeq([i \in DOMAIN request.changes |->
             LET change == request.changes[i]
             IN  [k \in DOMAIN change.messages |->
                     ToInboundEvent(change.messages[k], change.number)]])

\* eventText, trimmed, is empty for anything else.
HasText(event) == event.type \in KnownTypes \ {"reaction"} /\ ~event.blank
=============================================================================
