---------------------------- MODULE InboundProofs ---------------------------
(***************************************************************************)
(* Proofs about the way of a message, for any number of payloads, phones,  *)
(* residents, deliveries, handlers and faults, whatever the payloads hold. *)
(* Threads are private: a removed resident's handlers go on with an id     *)
(* that nobody has any more, and must not write it into a thread of the    *)
(* next one.  The types of the state rest on that, and on the types what   *)
(* attempts and repeats cost, what a completed job leaves behind it, and   *)
(* where a message goes that a guardrail matches.                          *)
(***************************************************************************)
EXTENDS Inbound, JobsProofs, SequenceProofs

-----------------------------------------------------------------------------
(* What Reading computes.                                                  *)

\* The first pattern of a list that a text matches is one it matches.
LEMMA FirstMatch ==
    ASSUME NEW T, NEW order \in Seq(T), NEW says, None \notin ToSet(order)
    PROVE  /\ FirstIn(order, says) = None <=> ToSet(order) \cap says = {}
           /\ FirstIn(order, says) # None => FirstIn(order, says) \in ToSet(order) \cap says
    <1> DEFINE I == {i \in 1..Len(order) : order[i] \in says}
    <1>1. CASE I = {}
        <2>1. FirstIn(order, says) = None
            BY <1>1 DEF FirstIn, SelectInSeq
        <2> QED
            BY <1>1, <2>1 DEF ToSet
    <1>2. CASE I # {}
        <2>1. Min(I) \in I
            <3>1. I \in SUBSET Nat
                OBVIOUS
            <3> HIDE DEF I
            <3> QED
                BY <1>2, <3>1, LeastElement DEF Min
        <2>2. FirstIn(order, says) = order[Min(I)]
            BY <1>2, <2>1 DEF FirstIn, SelectInSeq
        <2>3. \E i \in 1..Len(order) : FirstIn(order, says) = order[i] /\ order[i] \in says
            BY <2>1, <2>2
        <2>4. FirstIn(order, says) \in ToSet(order) \cap says
            BY <2>3 DEF ToSet
        <2> QED
            BY <2>4
    <1> QED
        BY <1>1, <1>2

\* What the lists hold.
LEMMA PatternLists ==
    /\ \A order \in {ForbiddenActions, Triggers, ReasonWords, SuggestionWords} :
           order \in Seq(ToSet(order)) /\ None \notin ToSet(order)
    /\ ToSet(ReasonWords) = {"legal words", "abuse words", "money words"}
    /\ GuardPatterns \subseteq DOMAIN TokenCategory
    /\ \A w \in GuardPatterns : TokenCategory[w] # "unknown_question"
    <1>1. ForbiddenActions \in Seq(ToSet(ForbiddenActions)) /\ ToSet(ForbiddenActions) =
              {"make_financial_decision", "approve_refund", "change_maintenance_amount",
               "change_resident_information", "create_committee_decision",
               "remove_complaint"}
        <2>1. /\ DOMAIN ForbiddenActions = {1, 2, 3, 4, 5, 6}
              /\ ForbiddenActions[1] = "make_financial_decision"
              /\ ForbiddenActions[2] = "approve_refund"
              /\ ForbiddenActions[3] = "change_maintenance_amount"
              /\ ForbiddenActions[4] = "change_resident_information"
              /\ ForbiddenActions[5] = "create_committee_decision"
              /\ ForbiddenActions[6] = "remove_complaint"
            BY DEF ForbiddenActions
        <2>2. ForbiddenActions \in Seq({"make_financial_decision", "approve_refund",
                                       "change_maintenance_amount",
                                       "change_resident_information",
                                       "create_committee_decision", "remove_complaint"})
            BY DEF ForbiddenActions
        <2> QED
            BY <2>1, <2>2 DEF ToSet
    <1>2. Triggers \in Seq(ToSet(Triggers)) /\ ToSet(Triggers) =
              {"legal_issue", "police_complaint", "harassment", "financial_dispute"}
        <2>1. /\ DOMAIN Triggers = {1, 2, 3, 4}
              /\ Triggers[1] = "legal_issue"
              /\ Triggers[2] = "police_complaint"
              /\ Triggers[3] = "harassment"
              /\ Triggers[4] = "financial_dispute"
            BY DEF Triggers
        <2>2. Triggers \in Seq({"legal_issue", "police_complaint", "harassment",
                               "financial_dispute"})
            BY DEF Triggers
        <2> QED
            BY <2>1, <2>2 DEF ToSet
    <1>3. ReasonWords \in Seq(ToSet(ReasonWords)) /\ ToSet(ReasonWords) =
              {"legal words", "abuse words", "money words"}
        <2>1. /\ DOMAIN ReasonWords = {1, 2, 3}
              /\ ReasonWords[1] = "legal words"
              /\ ReasonWords[2] = "abuse words"
              /\ ReasonWords[3] = "money words"
            BY DEF ReasonWords
        <2>2. ReasonWords \in Seq({"legal words", "abuse words", "money words"})
            BY DEF ReasonWords
        <2> QED
            BY <2>1, <2>2 DEF ToSet
    <1>4. SuggestionWords \in Seq(ToSet(SuggestionWords)) /\ ToSet(SuggestionWords) =
              {"security", "finance", "amenities"}
        <2>1. /\ DOMAIN SuggestionWords = {1, 2, 3}
              /\ SuggestionWords[1] = "security"
              /\ SuggestionWords[2] = "finance"
              /\ SuggestionWords[3] = "amenities"
            BY DEF SuggestionWords
        <2>2. SuggestionWords \in Seq({"security", "finance", "amenities"})
            BY DEF SuggestionWords
        <2> QED
            BY <2>1, <2>2 DEF ToSet
    <1>5. /\ GuardPatterns \subseteq DOMAIN TokenCategory
          /\ \A w \in GuardPatterns : TokenCategory[w] # "unknown_question"
        BY <1>1, <1>2 DEF GuardPatterns, TokenCategory
    <1>6. /\ None \notin ToSet(ForbiddenActions) /\ None \notin ToSet(Triggers)
          /\ None \notin ToSet(ReasonWords) /\ None \notin ToSet(SuggestionWords)
        BY <1>1, <1>2, <1>3, <1>4 DEF None
    <1>7. ASSUME NEW order \in {ForbiddenActions, Triggers, ReasonWords, SuggestionWords}
          PROVE  order \in Seq(ToSet(order)) /\ None \notin ToSet(order)
        BY <1>1, <1>2, <1>3, <1>4, <1>6, <1>7, Zenon
    <1> QED
        BY <1>3, <1>5, <1>7

\* Whatever is categorised gets one of the categories.
LEMMA CategoriesAreKnown ==
    ASSUME NEW token, NEW says
    PROVE  /\ CategorizeEscalation(token, says) \in EscalationCategories
           /\ CategorizeSuggestion(says) \in SuggestionCategories
           /\ Classified(token) \in SuggestionCategories
    <1>1. CategorizeSuggestion(says) \in SuggestionCategories
        BY FirstMatch, PatternLists DEF CategorizeSuggestion, SuggestionCategories
    <1>2. Classified(token) \in SuggestionCategories
        BY DEF Classified, SuggestionCategories
    <1>3. CASE token \in DOMAIN TokenCategory
        <2>1. TokenCategory[token] \in EscalationCategories
            BY <1>3 DEF TokenCategory, EscalationCategories
        <2> QED
            BY <1>1, <1>2, <1>3, <2>1 DEF CategorizeEscalation
    <1>4. CASE token \notin DOMAIN TokenCategory
        <2>1. \A w \in ToSet(ReasonWords) : WordCategory[w] \in EscalationCategories
            BY PatternLists DEF WordCategory, EscalationCategories
        <2>2. FirstIn(ReasonWords, says) # None => FirstIn(ReasonWords,
        says) \in ToSet(ReasonWords)
            BY FirstMatch, PatternLists
        <2>3. "committee_decision" \in EscalationCategories
            BY DEF EscalationCategories
        <2> QED
            BY <1>1, <1>2, <1>4, <2>1, <2>2, <2>3 DEF CategorizeEscalation
    <1> QED
        BY <1>3, <1>4

\* A guardrail finds something exactly in the texts that match one.
LEMMA GuardsFind ==
    ASSUME NEW says
    PROVE  LET action == DetectForbiddenActionRequest(says)
               trigger == DetectEscalationTrigger(says)
           IN  /\ action # None \/ trigger # None <=> says \cap GuardPatterns # {}
               /\ action # None => action \in says \cap GuardPatterns
               /\ trigger # None => trigger \in says \cap GuardPatterns
    BY FirstMatch, PatternLists DEF DetectForbiddenActionRequest, DetectEscalationTrigger,
       GuardPatterns

\* A request is read as a sequence of events.
LEMMA RequestsAreRead ==
    ASSUME NEW request \in Requests
    PROVE  ReceiveMessage(request) \in Seq(Events)
    <1> DEFINE Raws == [number : {"residents", "secretary", Absent}, messages : Seq(RawMessages)]
    <1>1. request.changes \in Seq(Raws)
        BY DEF Requests
    <1>2. ASSUME NEW raw \in RawMessages, NEW number \in {"residents", "secretary", Absent}
          PROVE  ToInboundEvent(raw, number) \in Events
        BY DEF ToInboundEvent, Events, RawMessages, KnownMessage, KnownTypes, Absent
    <1> DEFINE Read(i) == [k \in DOMAIN request.changes[i].messages |->
                              ToInboundEvent(request.changes[i].messages[k],
                                             request.changes[i].number)]
    <1>3. ASSUME NEW i \in DOMAIN request.changes
          PROVE  Read(i) \in Seq(Events)
        <2>1. request.changes[i] \in Raws
            <3> HIDE DEF Raws
            <3> QED
                BY <1>1
        <2>2. /\ request.changes[i].messages \in Seq(RawMessages)
              /\ request.changes[i].number \in {"residents", "secretary", Absent}
            BY <2>1
        <2> QED
            BY <1>2, <2>2
    <1>4. [i \in DOMAIN request.changes |-> Read(i)] \in Seq(Seq(Events))
        <2> HIDE DEF Raws, Read
        <2> QED
            BY <1>1, <1>3
    <1>5. FlattenSeq([i \in DOMAIN request.changes |-> Read(i)]) \in Seq(Events)
        BY <1>4, FlatIsSequence
    <1> QED
        BY <1>5 DEF ReceiveMessage

-----------------------------------------------------------------------------
(* The invariant.                                                          *)

\* Ids are given once, and to one phone each.
RegistryInv ==
    /\ registered \in Nat
    /\ owner \in [Phones -> 0..registered]
    /\ \A ph, other \in Phones : owner[ph] = owner[other] /\ owner[ph] # 0 => ph = other

ThreadsInv ==
    /\ opened \in Nat
    /\ threads \in [Phones -> [id : 0..opened, resident : Nat, authors : SUBSET Nat]]
    /\ \A ph \in Phones : threads[ph] # NoThread => threads[ph].id # 0

IsLocals(r) ==
    \E at, who, thread, seen, ticket, category :
        r = [at |-> at, who |-> who, thread |-> thread, seen |-> seen, ticket |-> ticket,
             category |-> category]

LocalsInv ==
    /\ pc \in [JobIds -> Steps]
    /\ local = [j \in JobIds |-> local[j]]
    /\ \A j \in JobIds : IsLocals(local[j])

AtWork(j) == pc[j] \notin {"idle", "event"}
Inserting(j) == pc[j] \in {"insert", "out insert"}

\* A handler's resident has the phone of the message at hand or none; the
\* conversation it is about to insert into, if there still is one of that id,
\* is that resident's.
HandlerInv(j) ==
    /\ AtWork(j) =>
           /\ From(j) \in Phones
           /\ local[j].who \in 1..registered
           /\ \A ph \in Phones : owner[ph] = local[j].who => ph = From(j)
    /\ Inserting(j) =>
           /\ local[j].thread \in 1..opened
           /\ threads[From(j)].id = local[j].thread =>
                  threads[From(j)].resident = local[j].who

PrivacyInv ==
    /\ RegistryInv /\ ThreadsInv /\ LocalsInv
    /\ PrivateThreads
    /\ \A j \in JobIds : HandlerInv(j)

\* The initial state: nobody is registered, there are no threads.
LEMMA PrivacyInit == Init => PrivacyInv
    <1> SUFFICES ASSUME Init PROVE PrivacyInv
        OBVIOUS
    <1> USE DEF Init
    <1>1. RegistryInv
        BY DEF RegistryInv, NobodyRegistered
    <1>2. ThreadsInv /\ PrivateThreads
        BY DEF ThreadsInv, NoThread, PrivateThreads
    <1>3. LocalsInv
        <2>1. IsLocals(NoLocals)
            BY DEF IsLocals, NoLocals
        <2> QED
            BY <2>1 DEF LocalsInv, Steps
    <1>4. \A j \in JobIds : HandlerInv(j)
        BY DEF HandlerInv, AtWork, Inserting
    <1> QED
        BY <1>1, <1>2, <1>3, <1>4 DEF PrivacyInv

-----------------------------------------------------------------------------
(* Handlers that go on.                                                    *)

\* Setting one local variable leaves the others.
LEMMA LocalUpdates ==
    ASSUME NEW r, IsLocals(r), NEW v
    PROVE  /\ LET s == [r EXCEPT !.who = v]
              IN  IsLocals(s) /\ s.who = v /\ s.at = r.at /\ s.thread = r.thread
           /\ LET s == [r EXCEPT !.thread = v]
              IN  IsLocals(s) /\ s.thread = v /\ s.at = r.at /\ s.who = r.who
           /\ LET s == [r EXCEPT !.seen = v]
              IN  IsLocals(s) /\ s.at = r.at /\ s.who = r.who /\ s.thread = r.thread
           /\ LET s == [r EXCEPT !.category = v]
              IN  IsLocals(s) /\ s.at = r.at /\ s.who = r.who /\ s.thread = r.thread
           /\ LET s == [r EXCEPT !.ticket = v]
              IN  IsLocals(s) /\ s.at = r.at /\ s.who = r.who /\ s.thread = r.thread
           /\ IsLocals([NoLocals EXCEPT !.at = v])
    <1>1. PICK at, who, thread, seen, ticket, category :
              r = [at |-> at, who |-> who, thread |-> thread, seen |-> seen, ticket |-> ticket,
                   category |-> category]
        BY DEF IsLocals
    <1>2. IsLocals([r EXCEPT !.who = v])
        <2>1. [r EXCEPT !.who = v] = [at |-> at, who |-> v, thread |-> thread, seen |-> seen,
                 ticket |-> ticket, category |-> category]
            BY <1>1
        <2> QED
            BY <2>1 DEF IsLocals
    <1>3. IsLocals([r EXCEPT !.thread = v])
        <2>1. [r EXCEPT !.thread = v] = [at |-> at, who |-> who, thread |-> v, seen |-> seen,
                 ticket |-> ticket, category |-> category]
            BY <1>1
        <2> QED
            BY <2>1 DEF IsLocals
    <1>4. IsLocals([r EXCEPT !.seen = v])
        <2>1. [r EXCEPT !.seen = v] = [at |-> at, who |-> who, thread |-> thread, seen |-> v,
                 ticket |-> ticket, category |-> category]
            BY <1>1
        <2> QED
            BY <2>1 DEF IsLocals
    <1>5. IsLocals([r EXCEPT !.category = v])
        <2>1. [r EXCEPT !.category = v] = [at |-> at, who |-> who, thread |-> thread,
                 seen |-> seen, ticket |-> ticket, category |-> v]
            BY <1>1
        <2> QED
            BY <2>1 DEF IsLocals
    <1>6. IsLocals([r EXCEPT !.ticket = v])
        <2>1. [r EXCEPT !.ticket = v] = [at |-> at, who |-> who, thread |-> thread, seen |-> seen,
                 ticket |-> v, category |-> category]
            BY <1>1
        <2> QED
            BY <2>1 DEF IsLocals
    <1>7. IsLocals([NoLocals EXCEPT !.at = v])
        <2>1. [NoLocals EXCEPT !.at = v] = [at |-> v, who |-> 0, thread |-> 0, seen |-> 0,
                 ticket |-> 0, category |-> None]
            BY DEF NoLocals
        <2> QED
            BY <2>1 DEF IsLocals
    <1> QED
        BY <1>1, <1>2, <1>3, <1>4, <1>5, <1>6, <1>7

\* What a step of one handler that changes no table has to show.
Walks(j) ==
    /\ UNCHANGED <<content, owner, registered, memory>>
    /\ \A k \in JobIds \ {j} : pc'[k] = pc[k] /\ local'[k] = local[k]
    /\ LocalsInv'
    /\ HandlerInv(j)'

\* Such a step keeps the invariant.
LEMMA WalksKeepPrivacy ==
    ASSUME PrivacyInv, NEW j \in JobIds, Walks(j)
    PROVE  PrivacyInv'
    <1> USE DEF PrivacyInv, Walks, memory
    <1>1. RegistryInv' /\ ThreadsInv' /\ PrivateThreads'
        BY DEF RegistryInv, ThreadsInv, PrivateThreads
    <1>2. ASSUME NEW k \in JobIds, k # j
          PROVE  HandlerInv(k)'
        <2>1. /\ UNCHANGED <<content, owner, registered, threads, opened>>
              /\ pc'[k] = pc[k] /\ local'[k] = local[k] /\ HandlerInv(k)
            BY <1>2
        <2>2. From(k)' = From(k)
            BY <2>1 DEF From, Event
        <2> QED
            BY ONLY <2>1, <2>2 DEF HandlerInv, AtWork, Inserting
    <1> QED
        BY <1>1, <1>2

\* A handler at work that only moves on keeps its resident, whatever it sets.
LEMMA Wanders ==
    ASSUME PrivacyInv, NEW j \in JobIds, AtWork(j),
           UNCHANGED <<content, owner, registered, memory>>,
           NEW step \in Steps \ {"insert", "out insert"}, GoTo(j, step),
           NEW after, local' = [local EXCEPT ![j] = after],
           IsLocals(after), after.at = local[j].at, after.who = local[j].who
    PROVE  PrivacyInv'
    <1>1. LocalsInv'
        BY DEF PrivacyInv, LocalsInv, GoTo
    <1>2. \A k \in JobIds \ {j} : pc'[k] = pc[k] /\ local'[k] = local[k]
        BY DEF PrivacyInv, LocalsInv, GoTo
    <1>3. pc'[j] = step /\ local'[j] = after
        BY DEF PrivacyInv, LocalsInv, GoTo
    <1>4. From(j)' = From(j)
        BY <1>3 DEF From, Event
    <1>5. HandlerInv(j)'
        BY <1>3, <1>4 DEF PrivacyInv, HandlerInv, AtWork, Inserting
    <1> QED
        BY <1>1, <1>2, <1>5, WalksKeepPrivacy DEF Walks

\* So does one that only has the handlers of the jobs in S begin, end or go on
\* with the next event.
LEMMA RestsKeepPrivacy ==
    ASSUME PrivacyInv, NEW S \in SUBSET JobIds,
           UNCHANGED <<content, owner, registered, memory>>, LocalsInv',
           \A k \in S : pc'[k] \in {"idle", "event"},
           \A k \in JobIds \ S : pc'[k] = pc[k] /\ local'[k] = local[k]
    PROVE  PrivacyInv'
    <1> USE DEF PrivacyInv, memory
    <1>1. RegistryInv' /\ ThreadsInv' /\ PrivateThreads'
        BY DEF RegistryInv, ThreadsInv, PrivateThreads
    <1>2. ASSUME NEW k \in S
          PROVE  HandlerInv(k)'
        BY <1>2 DEF HandlerInv, AtWork, Inserting
    <1>3. ASSUME NEW k \in JobIds \ S
          PROVE  HandlerInv(k)'
        <2>1. /\ UNCHANGED <<content, owner, registered, threads, opened>>
              /\ pc'[k] = pc[k] /\ local'[k] = local[k] /\ HandlerInv(k)
            BY <1>3
        <2>2. From(k)' = From(k)
            BY <2>1 DEF From, Event
        <2> QED
            BY ONLY <2>1, <2>2 DEF HandlerInv, AtWork, Inserting
    <1> QED
        BY <1>1, <1>2, <1>3

\* And so does one that concerns none of it.
LEMMA IdleKeepsPrivacy ==
    ASSUME PrivacyInv, UNCHANGED <<content, owner, registered, memory, pc, local>>
    PROVE  PrivacyInv'
    <1>1. RegistryInv' /\ ThreadsInv' /\ PrivateThreads' /\ LocalsInv'
        BY DEF PrivacyInv, memory, RegistryInv, ThreadsInv, PrivateThreads, LocalsInv
    <1>2. ASSUME NEW k \in JobIds
          PROVE  HandlerInv(k)'
        <2>1. /\ UNCHANGED <<content, owner, registered, threads, opened, pc, local>>
              /\ HandlerInv(k)
            BY DEF PrivacyInv, memory
        <2>2. From(k)' = From(k)
            BY <2>1 DEF From, Event
        <2> QED
            BY ONLY <2>1, <2>2 DEF HandlerInv, AtWork, Inserting
    <1> QED
        BY <1>1, <1>2 DEF PrivacyInv

\* Steps to an event, past one, or out of a job.
LEMMA RestStepKeepsPrivacy ==
    ASSUME PrivacyInv,
           \/ \E j \in JobIds :
                 \/ TakeJob(j) \/ CompleteJob(j)
                 \/ HandleSecretaryEvent(j) \/ SkipUnregistered(j)
                 \/ ForeignKeyFails(j) \/ TicketCollides(j) \/ HandlerThrows(j)
                 \/ pc[j] = "out bump" /\ BumpLastMessageAt(j)
           \/ Crash
    PROVE  PrivacyInv'
    <1>0. LocalsInv /\ IsLocals(NoLocals) /\ \A at : IsLocals([NoLocals EXCEPT !.at = at])
        <2>1. IsLocals(NoLocals)
            BY DEF IsLocals, NoLocals
        <2> QED
            BY <2>1, LocalUpdates DEF PrivacyInv
    <1> USE DEF registry, trace, sent
    <1>1. ASSUME NEW j \in JobIds, TakeJob(j)
          PROVE  PrivacyInv'
        <2>1. GoTo(j, "event") /\ UNCHANGED <<content, owner, registered, memory, local>>
            BY <1>1 DEF TakeJob
        <2>2. /\ LocalsInv' /\ {j} \in SUBSET JobIds
              /\ \A k \in {j} : pc'[k] \in {"idle", "event"}
              /\ \A k \in JobIds \ {j} : pc'[k] = pc[k] /\ local'[k] = local[k]
            BY <1>0, <2>1 DEF GoTo, LocalsInv, Steps
        <2> QED
            BY <2>1, <2>2, RestsKeepPrivacy
    <1>2. ASSUME NEW j \in JobIds, NextEvent(j), UNCHANGED <<content, owner, registered, memory>>
          PROVE  PrivacyInv'
        <2> DEFINE next == [NoLocals EXCEPT !.at = local[j].at + 1]
        <2>1. IsLocals(next)
            BY <1>0
        <2>2. local' = [local EXCEPT ![j] = next] /\ GoTo(j, "event")
            BY <1>2 DEF NextEvent
        <2> HIDE DEF next
        <2>3. /\ LocalsInv' /\ {j} \in SUBSET JobIds
              /\ \A k \in {j} : pc'[k] \in {"idle", "event"}
              /\ \A k \in JobIds \ {j} : pc'[k] = pc[k] /\ local'[k] = local[k]
            BY <1>0, <2>1, <2>2 DEF GoTo, LocalsInv, Steps
        <2> QED
            BY <1>2, <2>3, RestsKeepPrivacy
    <1>3. ASSUME NEW S \in SUBSET JobIds, End(S), UNCHANGED <<content, owner, registered, memory>>
          PROVE  PrivacyInv'
        <2>1. /\ LocalsInv' /\ \A k \in S : pc'[k] = "idle"
              /\ \A k \in JobIds \ S : pc'[k] = pc[k] /\ local'[k] = local[k]
            BY <1>0, <1>3 DEF End, LocalsInv, Steps
        <2> QED
            BY <1>3, <2>1, RestsKeepPrivacy
    <1>4. ASSUME NEW j \in JobIds,
                 \/ HandleSecretaryEvent(j) \/ SkipUnregistered(j)
                 \/ pc[j] = "out bump" /\ BumpLastMessageAt(j)
          PROVE  PrivacyInv'
        BY <1>2, <1>4 DEF HandleSecretaryEvent, SkipUnregistered, BumpLastMessageAt
    <1>5. ASSUME NEW j \in JobIds,
                 CompleteJob(j) \/ ForeignKeyFails(j) \/ TicketCollides(j) \/ HandlerThrows(j)
          PROVE  PrivacyInv'
        <2>1. End({j}) /\ UNCHANGED <<content, owner, registered, memory>>
            BY <1>5 DEF CompleteJob, ForeignKeyFails, TicketCollides, HandlerThrows, Throws
        <2> QED
            BY <1>3, <2>1
    <1>6. CASE Crash
        <2>1. PICK S \in SUBSET JobIds : End(S)
            BY <1>6 DEF Crash
        <2> QED
            BY <1>3, <1>6, <2>1 DEF Crash
    <1> QED
        BY <1>1, <1>4, <1>5, <1>6

\* Steps of a handler between its appends.
LEMMA WorkStepKeepsPrivacy ==
    ASSUME PrivacyInv, NEW j \in JobIds,
           \/ pc[j] = "bump" /\ BumpLastMessageAt(j)
           \/ GetSession(j) \/ SetSession(j) \/ Work(j)
    PROVE  PrivacyInv'
    <1>0. /\ LocalsInv /\ IsLocals(local[j]) /\ local = [local EXCEPT ![j] = local[j]]
        BY DEF PrivacyInv, LocalsInv
    <1> USE DEF registry, trace, sent
    <1>1. ASSUME NEW step \in Steps \ {"insert", "out insert"}, AtWork(j), GoTo(j, step),
                 UNCHANGED <<content, owner, registered, memory, local>>
          PROVE  PrivacyInv'
        BY <1>0, <1>1, Wanders
    <1> USE DEF AtWork, Steps
    <1>2. CASE pc[j] = "bump" /\ BumpLastMessageAt(j)
        BY <1>1, <1>2 DEF BumpLastMessageAt
    <1>3. CASE GetSession(j)
        <2>1. PICK s : local' = [local EXCEPT ![j].seen = s]
            BY <1>3 DEF GetSession
        <2>2. local' = [local EXCEPT ![j] = [local[j] EXCEPT !.seen = s]]
            BY <2>1
        <2> QED
            BY <1>0, <1>3, <2>2, LocalUpdates, Wanders DEF GetSession
    <1>4. CASE SetSession(j)
        <2>1. Route(Event(j)) \in {"reply", "escalate", "status", "complain", "classify",
        "history"}
            BY DEF Route
        <2>2. local' = [local EXCEPT ![j] = [local[j] EXCEPT !.who = local[j].who]]
            BY <1>4 DEF SetSession, Resident
        <2> DEFINE after == [local[j] EXCEPT !.who = local[j].who]
        <2>3. IsLocals(after) /\ after.at = local[j].at /\ after.who = local[j].who
            BY <1>0, LocalUpdates
        <2>4. /\ local' = [local EXCEPT ![j] = after]
              /\ GoTo(j, Route(Event(j))) /\ pc[j] = "set session"
              /\ UNCHANGED <<content, owner, registered, memory>>
            BY <1>4, <2>2 DEF SetSession
        <2> HIDE DEF after
        <2> QED
            BY <2>1, <2>3, <2>4, Wanders
    <1>5. CASE Classify(j)
        <2>1. PICK c : local' = [local EXCEPT ![j].category = c]
            BY <1>5 DEF Classify
        <2>2. local' = [local EXCEPT ![j] = [local[j] EXCEPT !.category = c]]
            BY <2>1
        <2> QED
            BY <1>0, <1>5, <2>2, LocalUpdates, Wanders DEF Classify
    <1>6. CASE SearchKnowledge(j)
        <2>1. PICK score : GoTo(j, Gate(score))
            BY <1>6 DEF SearchKnowledge
        <2>2. Gate(score) \in {"unknown", "ask"}
            BY DEF Gate
        <2> QED
            BY <1>1, <1>6, <2>1, <2>2 DEF SearchKnowledge
    <1>7. CASE DrawTicket(j)
        <2>1. PICK n : local' = [local EXCEPT ![j].ticket = n]
            BY <1>7 DEF DrawTicket
        <2> DEFINE after == [local[j] EXCEPT !.ticket = n]
        <2>2. local' = [local EXCEPT ![j] = after]
            BY <2>1
        <2>3. IsLocals(after) /\ after.at = local[j].at /\ after.who = local[j].who
            BY <1>0, LocalUpdates
        <2>4. /\ GoTo(j, "file") /\ AtWork(j) /\ "file" \in Steps \ {"insert", "out insert"}
              /\ UNCHANGED <<content, owner, registered, memory>>
            BY <1>7 DEF DrawTicket
        <2> HIDE DEF after
        <2> QED
            BY <2>2, <2>3, <2>4, Wanders
    <1>8. ASSUME \/ Escalate(j) \/ CheckStatus(j) \/ FindComplainant(j) \/ FileComplaint(j)
                 \/ CreateSuggestion(j) \/ LogSuggestion(j)
                 \/ ReadHistory(j) \/ AskGemini(j) \/ ReplyMessage(j)
          PROVE  PrivacyInv'
        <2>1. \E step \in {"reply", "count", "log suggestion", "search", "out thread"} : GoTo(j,
        step)
            BY <1>8
            DEF Escalate, CheckStatus, FindComplainant, FileComplaint, CreateSuggestion,
                LogSuggestion, ReadHistory, AskGemini, ReplyMessage
        <2>2. /\ UNCHANGED <<content, owner, registered, memory, local>>
              /\ pc[j] \notin {"idle", "event"}
            BY <1>8
            DEF Escalate, CheckStatus, FindComplainant, FileComplaint, CreateSuggestion,
                LogSuggestion, ReadHistory, AskGemini, ReplyMessage
        <2> QED
            BY <1>1, <2>1, <2>2
    <1> QED
        BY <1>2, <1>3, <1>4, <1>5, <1>6, <1>7, <1>8 DEF Work

\* Looking the sender up: whoever is found has the phone of the message.
LEMMA LookupKeepsPrivacy ==
    ASSUME PrivacyInv, NEW j \in JobIds, FindResident(j)
    PROVE  PrivacyInv'
    <1> DEFINE after == [local[j] EXCEPT !.who = Sender(j)]
    <1>1. LocalsInv /\ RegistryInv /\ IsLocals(local[j])
        BY DEF PrivacyInv, LocalsInv
    <1>2. IsLocals(after) /\ after.at = local[j].at /\ after.who = Sender(j)
        BY <1>1, LocalUpdates, ZenonT(60)
    <1>3. /\ local' = [local EXCEPT ![j] = after] /\ GoTo(j, "thread") /\ Sender(j) # 0
          /\ UNCHANGED <<content, owner, registered, memory>>
        BY DEF FindResident, registry, sent
    <1> HIDE DEF after
    <1>4. /\ LocalsInv' /\ pc'[j] = "thread" /\ local'[j] = after
          /\ \A k \in JobIds \ {j} : pc'[k] = pc[k] /\ local'[k] = local[k]
        BY <1>1, <1>2, <1>3 DEF LocalsInv, GoTo, Steps
    <1>5. From(j)' = From(j)
        BY <1>2, <1>3, <1>4 DEF From, Event
    <1>6. From(j) \in Phones /\ Sender(j) = owner[From(j)]
        BY <1>3 DEF Sender
    <1>7. /\ Sender(j) \in 1..registered
          /\ \A ph \in Phones : owner[ph] = Sender(j) => ph = From(j)
        BY <1>1, <1>3, <1>6 DEF RegistryInv
    <1>8. HandlerInv(j)'
        BY <1>2, <1>3, <1>4, <1>5, <1>6, <1>7 DEF HandlerInv, Inserting
    <1> QED
        BY <1>3, <1>4, <1>8, WalksKeepPrivacy DEF Walks

-----------------------------------------------------------------------------
(* Appends.                                                                *)

\* Opening a thread, or finding the sender's: it is, or becomes, that of the
\* resident at hand, who has the phone, for he is still registered.
LEMMA ThreadStepKeepsPrivacy ==
    ASSUME PrivacyInv, NEW j \in JobIds, GetOrCreateConversation(j)
    PROVE  PrivacyInv'
    <1> DEFINE ph == From(j)
               who == local[j].who
               old == threads[ph]
               new == IF old = NoThread THEN [NoThread EXCEPT !.id = opened + 1] ELSE old
               after == [local[j] EXCEPT !.thread = new.id]
    <1>1. /\ LocalsInv /\ RegistryInv /\ ThreadsInv /\ PrivateThreads
          /\ IsLocals(local[j]) /\ \A k \in JobIds : HandlerInv(k)
        BY DEF PrivacyInv, LocalsInv
    <1>2. /\ ph \in Phones /\ who \in 1..registered /\ owner[ph] = who
          /\ \A k \in Phones : owner[k] = who => k = ph
        BY <1>1 DEF GetOrCreateConversation, Live, HandlerInv, AtWork
    <1>3. /\ opened \in Nat /\ old \in [id : 0..opened, resident : Nat, authors : SUBSET Nat]
          /\ old # NoThread => old.resident = who /\ old.authors \subseteq {who}
        BY <1>1, <1>2 DEF ThreadsInv, PrivateThreads
    <1>4. /\ threads' = [threads EXCEPT ![ph] = [new EXCEPT !.resident = who]]
          /\ opened' = IF old = NoThread THEN opened + 1 ELSE opened
          /\ UNCHANGED <<content, owner, registered>>
          /\ local' = [local EXCEPT ![j] = after]
          /\ pc[j] \in {"thread", "out thread"}
          /\ GoTo(j, IF pc[j] = "thread" THEN "insert" ELSE "out insert")
        BY DEF GetOrCreateConversation, registry, sent
    <1>5. /\ new \in [id : 0..opened', resident : Nat, authors : SUBSET Nat]
          /\ new.authors \subseteq {who}
          /\ old = NoThread => new.id = opened + 1
          /\ old # NoThread => new.id = old.id
          /\ new.id \in 1..opened'
        <2>1. CASE old = NoThread
            <3>1. new = [id |-> opened + 1, resident |-> 0, authors |-> {}]
                BY <2>1 DEF NoThread
            <3>2. opened' = opened + 1
                BY <1>4, <2>1
            <3> QED
                BY <1>3, <2>1, <3>1, <3>2
        <2>2. CASE old # NoThread
            <3>1. new = old /\ opened' = opened /\ old.id # 0
                BY <1>1, <1>2, <1>4, <2>2 DEF ThreadsInv
            <3> HIDE DEF old, new
            <3> QED
                BY <1>3, <2>2, <3>1
        <2> QED
            BY <2>1, <2>2
    <1> HIDE DEF new
    <1>6. /\ threads'[ph] = [new EXCEPT !.resident = who]
          /\ \A k \in Phones \ {ph} : threads'[k] = threads[k]
          /\ threads'[ph].resident = who /\ threads'[ph].id = new.id
          /\ threads'[ph].authors = new.authors
        BY <1>1, <1>2, <1>4, <1>5 DEF ThreadsInv
    <1>7. opened <= opened' /\ opened' \in Nat
        <2>1. opened' = opened \/ opened' = opened + 1
            BY <1>4
        <2>2. opened \in Nat
            BY <1>3
        <2> QED
            BY ONLY <2>1, <2>2
    <1>8. ThreadsInv'
        <2>1. 0..opened \subseteq 0..opened'
            BY <1>3, <1>7
        <2>2. [new EXCEPT !.resident = who] \in [id : 0..opened', resident : Nat,
                                                 authors : SUBSET Nat]
            BY <1>2, <1>5
        <2>3. threads' \in [Phones -> [id : 0..opened', resident : Nat, authors : SUBSET Nat]]
            <3>1. threads \in [Phones -> [id : 0..opened', resident : Nat, authors : SUBSET Nat]]
                BY <1>1, <2>1 DEF ThreadsInv
            <3> QED
                BY <1>4, <2>2, <3>1
        <2>4. ASSUME NEW k \in Phones, threads'[k] # NoThread
              PROVE  threads'[k].id # 0
            <3>1. CASE k = ph
                BY <1>5, <1>6, <1>7, <3>1
            <3>2. CASE k # ph
                BY <1>1, <1>6, <2>4, <3>2 DEF ThreadsInv
            <3> QED
                BY <3>1, <3>2
        <2> QED
            BY <1>7, <2>3, <2>4 DEF ThreadsInv
    <1>9. PrivateThreads'
        <2> SUFFICES ASSUME NEW k \in Phones, threads'[k] # NoThread
                     PROVE  /\ owner[k] # 0 /\ threads'[k].resident = owner[k]
                            /\ threads'[k].authors \subseteq {owner[k]}
            BY <1>4 DEF PrivateThreads
        <2>1. CASE k = ph
            BY <1>2, <1>5, <1>6, <2>1
        <2>2. CASE k # ph
            BY <1>1, <1>6, <2>2 DEF PrivateThreads
        <2> QED
            BY <2>1, <2>2
    <1>10. RegistryInv'
        BY <1>1, <1>4 DEF RegistryInv
    <1>11. IsLocals(after) /\ after.at = local[j].at /\ after.who = who /\ after.thread = new.id
        BY <1>1, LocalUpdates, ZenonT(60)
    <1> HIDE DEF after
    <1>12. /\ LocalsInv' /\ pc'[j] \in {"insert", "out insert"} /\ local'[j] = after
           /\ \A k \in JobIds \ {j} : pc'[k] = pc[k] /\ local'[k] = local[k]
        BY <1>1, <1>4, <1>11 DEF LocalsInv, GoTo, Steps
    <1>13. \A k \in JobIds : From(k)' = From(k)
        BY <1>4, <1>11, <1>12, ZenonT(60) DEF From, Event
    <1>14. HandlerInv(j)'
        BY <1>1, <1>2, <1>4, <1>5, <1>6, <1>11, <1>12, <1>13, ZenonT(60) DEF HandlerInv
    <1>15. ASSUME NEW k \in JobIds, k # j
           PROVE  HandlerInv(k)'
        <2>1. /\ pc'[k] = pc[k] /\ local'[k] = local[k] /\ From(k)' = From(k) /\ HandlerInv(k)
            BY <1>1, <1>12, <1>13, <1>15
        <2>2. Inserting(k) => /\ local[k].thread \in 1..opened'
                              /\ threads'[From(k)].id = local[k].thread =>
                                     threads'[From(k)].resident = local[k].who
            <3> SUFFICES ASSUME Inserting(k)
                         PROVE  /\ local[k].thread \in 1..opened'
                                /\ threads'[From(k)].id = local[k].thread =>
                                       threads'[From(k)].resident = local[k].who
                OBVIOUS
            <3>1. /\ local[k].thread \in 1..opened /\ From(k) \in Phones
                  /\ threads[From(k)].id = local[k].thread =>
                         threads[From(k)].resident = local[k].who
                BY <2>1 DEF HandlerInv, Inserting, AtWork
            <3>5. local[k].thread \in 1..opened'
                BY <1>3, <1>7, <3>1
            <3>2. CASE From(k) # ph
                BY <1>6, <3>1, <3>2, <3>5
            <3>3. CASE From(k) = ph /\ old = NoThread
                BY <1>3, <1>5, <1>6, <3>1, <3>3, <3>5
            <3>4. CASE From(k) = ph /\ old # NoThread
                BY <1>3, <1>5, <1>6, <3>1, <3>4, <3>5
            <3> QED
                BY <3>2, <3>3, <3>4
        <2> QED
            BY <1>4, <2>1, <2>2 DEF HandlerInv, AtWork, Inserting
    <1> QED
        BY <1>8, <1>9, <1>10, <1>12, <1>14, <1>15 DEF PrivacyInv

\* Inserting into a thread: if the conversation is still there, it is the
\* resident's who has the phone.
LEMMA InsertStepKeepsPrivacy ==
    ASSUME PrivacyInv, NEW j \in JobIds, InsertMessage(j)
    PROVE  PrivacyInv'
    <1> DEFINE ph == From(j)
               who == local[j].who
               old == threads[ph]
    <1>1. /\ LocalsInv /\ RegistryInv /\ ThreadsInv /\ PrivateThreads
          /\ \A k \in JobIds : HandlerInv(k)
        BY DEF PrivacyInv
    <1>2. /\ ph \in Phones /\ who \in 1..registered /\ old.id = local[j].thread
          /\ local[j].thread \in 1..opened /\ old.resident = who
        BY <1>1 DEF InsertMessage, HandlerInv, AtWork, Inserting
    <1>3. /\ old # NoThread /\ owner[ph] = who /\ old.authors \subseteq {who}
          /\ old \in [id : 0..opened, resident : Nat, authors : SUBSET Nat]
        <2>1. old # NoThread
            BY <1>2 DEF NoThread
        <2> QED
            BY <1>1, <1>2, <2>1 DEF PrivateThreads, ThreadsInv
    <1>4. /\ threads' = [threads EXCEPT ![ph] = [old EXCEPT !.authors = @ \cup {who}]]
          /\ UNCHANGED <<content, owner, registered, opened, local>>
          /\ \E step \in {"bump", "out bump"} : GoTo(j, step)
        BY DEF InsertMessage, registry, sent
    <1>5. /\ threads'[ph].id = old.id /\ threads'[ph].resident = who
          /\ threads'[ph].authors = old.authors \cup {who}
          /\ \A k \in Phones \ {ph} : threads'[k] = threads[k]
        BY <1>1, <1>2, <1>3, <1>4 DEF ThreadsInv
    <1>6. ThreadsInv'
        <2>1. [old EXCEPT !.authors = @ \cup {who}] \in [id : 0..opened, resident : Nat,
                                                        authors : SUBSET Nat]
            BY <1>1, <1>2, <1>3 DEF RegistryInv
        <2>2. threads' \in [Phones -> [id : 0..opened, resident : Nat, authors : SUBSET Nat]]
            BY <1>1, <1>4, <2>1 DEF ThreadsInv
        <2>3. ASSUME NEW k \in Phones, threads'[k] # NoThread
              PROVE  threads'[k].id # 0
            BY <1>1, <1>2, <1>5, <2>3 DEF ThreadsInv
        <2> QED
            BY <1>1, <1>4, <2>2, <2>3 DEF ThreadsInv
    <1>7. PrivateThreads'
        BY <1>1, <1>2, <1>3, <1>4, <1>5 DEF PrivateThreads
    <1>8. RegistryInv'
        BY <1>1, <1>4 DEF RegistryInv
    <1>9. LocalsInv' /\ pc'[j] \in {"bump", "out bump"} /\ \A k \in JobIds \ {j} : pc'[k] = pc[k]
        BY <1>1, <1>4 DEF LocalsInv, GoTo, Steps
    <1>10. ASSUME NEW k \in JobIds
           PROVE  HandlerInv(k)'
        <2>1. From(k)' = From(k) /\ HandlerInv(k) /\ local'[k] = local[k]
            BY <1>1, <1>4 DEF From, Event
        <2>2. CASE k = j
            BY <1>1, <1>2, <1>4, <1>9, <2>1, <2>2 DEF HandlerInv, AtWork, Inserting, InsertMessage
        <2>3. CASE k # j
            <3>1. pc'[k] = pc[k]
                BY <1>9, <2>3
            <3>2. From(k) \in Phones => /\ threads'[From(k)].id = threads[From(k)].id
                                        /\ threads'[From(k)].resident = threads[From(k)].resident
                BY <1>2, <1>5
            <3> QED
                BY <1>4, <2>1, <3>1, <3>2 DEF HandlerInv, AtWork, Inserting
        <2> QED
            BY <2>2, <2>3
    <1> QED
        BY <1>6, <1>7, <1>8, <1>9, <1>10 DEF PrivacyInv

-----------------------------------------------------------------------------
(* The admin.                                                              *)

\* A new id is nobody's: no handler has it in hand, no thread is its.
LEMMA RegisterKeepsPrivacy ==
    ASSUME PrivacyInv, NEW ph \in Phones, RegisterResident(ph)
    PROVE  PrivacyInv'
    <1>1. /\ LocalsInv /\ RegistryInv /\ ThreadsInv /\ PrivateThreads
          /\ \A k \in JobIds : HandlerInv(k)
        BY DEF PrivacyInv
    <1>2. UNCHANGED <<content, pc, local, threads, opened>>
        BY DEF RegisterResident, sent, memory
    <1>3. CASE owner[ph] # 0
        <2>1. UNCHANGED <<owner, registered>>
            BY <1>3 DEF RegisterResident, Upserted
        <2>2. LocalsInv'
            BY <1>1, <1>2 DEF LocalsInv
        <2> QED
            BY <1>1, <1>2, <2>1, <2>2, IdleKeepsPrivacy DEF memory
    <1>4. CASE owner[ph] = 0
        <2>1. registered' = registered + 1 /\ owner' = [owner EXCEPT ![ph] = registered + 1]
            BY <1>4 DEF RegisterResident, Upserted
        <2>2. RegistryInv'
            BY <1>1, <2>1 DEF RegistryInv
        <2>3. ThreadsInv' /\ LocalsInv'
            BY <1>1, <1>2 DEF ThreadsInv, LocalsInv
        <2>4. PrivateThreads'
            BY <1>1, <1>2, <1>4, <2>1 DEF PrivateThreads, RegistryInv
        <2>5. ASSUME NEW k \in JobIds
              PROVE  HandlerInv(k)'
            <3>1. From(k)' = From(k) /\ HandlerInv(k)
                BY <1>1, <1>2 DEF From, Event
            <3>2. AtWork(k) => /\ local[k].who \in 1..registered'
                               /\ \A p \in Phones : owner'[p] = local[k].who => p = From(k)
                BY <1>1, <2>1, <3>1 DEF HandlerInv, RegistryInv
            <3> QED
                BY <1>2, <3>1, <3>2 DEF HandlerInv, AtWork, Inserting
        <2> QED
            BY <2>2, <2>3, <2>4, <2>5 DEF PrivacyInv
    <1> QED
        BY <1>3, <1>4

\* Whoever is removed takes his thread along.
LEMMA RemovalKeepsPrivacy ==
    ASSUME PrivacyInv, NEW ph \in Phones, RemoveResident(ph)
    PROVE  PrivacyInv'
    <1>1. /\ LocalsInv /\ RegistryInv /\ ThreadsInv /\ PrivateThreads
          /\ \A k \in JobIds : HandlerInv(k)
        BY DEF PrivacyInv
    <1>2. /\ UNCHANGED <<content, pc, local, registered, opened>>
          /\ owner[ph] # 0 /\ owner' = [owner EXCEPT ![ph] = 0]
          /\ threads' = [k \in Phones |->
                            IF threads[k].resident = owner[ph] THEN NoThread ELSE threads[k]]
        BY DEF RemoveResident, Removable, Removed, Cascade, sent
    <1>3. RegistryInv' /\ LocalsInv'
        BY <1>1, <1>2 DEF RegistryInv, LocalsInv
    <1>4. NoThread \in [id : 0..opened, resident : Nat, authors : SUBSET Nat]
        BY <1>1 DEF NoThread, ThreadsInv
    <1>5. ThreadsInv'
        BY <1>1, <1>2, <1>4 DEF ThreadsInv
    <1>6. PrivateThreads'
        <2> SUFFICES ASSUME NEW k \in Phones, threads'[k] # NoThread
                     PROVE  /\ owner'[k] # 0 /\ threads'[k].resident = owner'[k]
                            /\ threads'[k].authors \subseteq {owner'[k]}
            BY DEF PrivateThreads
        <2>1. threads'[k] = threads[k] /\ threads[k].resident # owner[ph] /\ threads[k] # NoThread
            BY <1>2
        <2>2. k # ph /\ owner'[k] = owner[k]
            BY <1>1, <1>2, <2>1 DEF PrivateThreads, RegistryInv
        <2> QED
            BY <1>1, <2>1, <2>2 DEF PrivateThreads
    <1>7. ASSUME NEW k \in JobIds
          PROVE  HandlerInv(k)'
        <2>1. From(k)' = From(k) /\ HandlerInv(k)
            BY <1>1, <1>2 DEF From, Event
        <2>2. AtWork(k) => \A p \in Phones : owner'[p] = local[k].who => p = From(k)
            BY <1>1, <1>2, <2>1 DEF HandlerInv, RegistryInv
        <2>3. Inserting(k) => (threads'[From(k)].id = local[k].thread =>
                                   threads'[From(k)].resident = local[k].who)
            <3> SUFFICES ASSUME Inserting(k), threads'[From(k)].id = local[k].thread
                         PROVE  threads'[From(k)].resident = local[k].who
                OBVIOUS
            <3>1. /\ From(k) \in Phones /\ local[k].thread \in 1..opened
                  /\ threads[From(k)].id = local[k].thread =>
                         threads[From(k)].resident = local[k].who
                BY <2>1 DEF HandlerInv, AtWork, Inserting
            <3>2. threads'[From(k)] # NoThread
                BY <1>1, <3>1 DEF NoThread, ThreadsInv
            <3>3. threads'[From(k)] = threads[From(k)]
                BY <1>2, <3>1, <3>2
            <3> QED
                BY <3>1, <3>3
        <2> QED
            BY <1>2, <2>1, <2>2, <2>3 DEF HandlerInv, AtWork, Inserting
    <1> QED
        BY <1>3, <1>5, <1>6, <1>7 DEF PrivacyInv

-----------------------------------------------------------------------------
(* The theorem.                                                            *)

\* Every step keeps the invariant.
LEMMA PrivacyStep == PrivacyInv /\ [Next]_vars => PrivacyInv'
    <1> SUFFICES ASSUME PrivacyInv, [Next]_vars PROVE PrivacyInv'
        OBVIOUS
    <1>1. ASSUME UNCHANGED <<content, owner, registered, memory, pc, local>>
          PROVE  PrivacyInv'
        BY <1>1, IdleKeepsPrivacy
    <1>2. CASE UNCHANGED vars
        BY <1>1, <1>2 DEF vars, sent, registry
    <1>3. ASSUME NEW p \in Payloads, Receive(p) \/ EnqueueFails(p) \/ EnqueueUnanswered(p)
          PROVE  PrivacyInv'
        BY <1>1, <1>3 DEF Receive, EnqueueFails, EnqueueUnanswered, sent, registry
    <1>4. ASSUME NEW j \in JobIds, BumpLastMessageAt(j)
          PROVE  pc[j] = "bump" \/ pc[j] = "out bump"
        BY <1>4 DEF BumpLastMessageAt
    <1>5. ASSUME NEW j \in JobIds, HandlerStep(j) \/ HandlerThrows(j)
          PROVE  PrivacyInv'
        BY <1>4, <1>5, RestStepKeepsPrivacy, WorkStepKeepsPrivacy, LookupKeepsPrivacy,
           ThreadStepKeepsPrivacy, InsertStepKeepsPrivacy
        DEF HandlerStep, Memory
    <1>6. CASE Next
        BY <1>3, <1>5, <1>6, RestStepKeepsPrivacy, RegisterKeepsPrivacy, RemovalKeepsPrivacy
        DEF Next
    <1> QED
        BY <1>2, <1>6

\* A thread and every message in it belong to the resident who has the phone
\* now: removing a resident while his messages are handled, and registering the
\* next one, leaves and brings back nothing of the former.
THEOREM ThreadsArePrivate == Spec => []PrivateThreads
    <1>1. PrivacyInv => PrivateThreads
        BY DEF PrivacyInv
    <1> QED
        BY PrivacyInit, PrivacyStep, <1>1, PTL DEF Spec

-----------------------------------------------------------------------------
(* Types.                                                                  *)

Locals(ids, conversations) ==
    [at : Nat \ {0}, who : 0..ids, thread : 0..conversations, seen : 0..ids, ticket : Nat,
     category : SuggestionCategories \cup {None}]

JobsInv ==
    /\ job \in [JobIds -> BoundedJob]
    /\ \A j \in JobIds : /\ HasAttemptsLeft(job[j])
                         /\ pc[j] # "idle" <=> job[j].state = "active"

\* A handler begins with its payload's first event, and one at work is at one
\* of its events.
PlacesInv ==
    /\ content \in [Payloads -> Seq(Events)]
    /\ local \in [JobIds -> Locals(registered, opened)]
    /\ \A j \in JobIds : /\ pc[j] = "idle" => local[j] = NoLocals
                         /\ AtWork(j) => local[j].at <= Len(content[j[1]])

TablesInv ==
    /\ due \subseteq Payloads
    /\ registered \in 0..MaxResidents
    /\ complaints \in Seq([resident : 1..registered, by : JobIds])
    /\ threads \in [Phones -> [id : 0..opened, resident : 0..registered,
                               authors : SUBSET (1..registered)]]
    /\ session \in [Phones -> 0..registered]
    /\ faults \in 0..MaxFaults

TraceInv ==
    /\ heard \in [EventIds -> Nat]
    /\ did \in [EventIds -> SUBSET Deeds]

TypeInv == PrivacyInv /\ JobsInv /\ PlacesInv /\ TablesInv /\ TraceInv

\* Ids, conversations and faults only get more; what the payloads hold stays.
Grows ==
    /\ content' = content
    /\ registered' \in 0..MaxResidents /\ registered <= registered'
    /\ opened' \in Nat /\ opened <= opened'
    /\ faults' \in 0..MaxFaults /\ faults <= faults'

\* Every step keeps to that.
LEMMA StepGrows == ASSUME TypeInv, [Next]_vars PROVE Grows
    <1>0. /\ registered \in 0..MaxResidents /\ MaxResidents \in Nat /\ opened \in Nat
          /\ faults \in 0..MaxFaults /\ MaxFaults \in Nat
        BY InboundAssumption DEF TypeInv, TablesInv, PrivacyInv, ThreadsInv
    <1>1. content' = content
        BY ZenonT(60) DEF Next, HandlerStep, Memory, Work, vars, sent, Receive, EnqueueFails,
           EnqueueUnanswered, TakeJob, CompleteJob, HandleSecretaryEvent, FindResident,
           SkipUnregistered, GetOrCreateConversation, InsertMessage, BumpLastMessageAt,
           GetSession, SetSession, Escalate, CheckStatus, FindComplainant, DrawTicket,
           FileComplaint, Classify, CreateSuggestion, LogSuggestion, ReadHistory,
           SearchKnowledge, AskGemini, ReplyMessage, ForeignKeyFails, TicketCollides,
           HandlerThrows, RegisterResident, RemoveResident, Crash
    <1>2. \/ registered' = registered
          \/ registered < MaxResidents /\ registered' = registered + 1
        BY ZenonT(60) DEF Next, HandlerStep, Memory, Work, vars, registry, Receive, EnqueueFails,
           EnqueueUnanswered, TakeJob, CompleteJob, HandleSecretaryEvent, FindResident,
           SkipUnregistered, GetOrCreateConversation, InsertMessage, BumpLastMessageAt,
           GetSession, SetSession, Escalate, CheckStatus, FindComplainant, DrawTicket,
           FileComplaint, Classify, CreateSuggestion, LogSuggestion, ReadHistory,
           SearchKnowledge, AskGemini, ReplyMessage, ForeignKeyFails, TicketCollides,
           HandlerThrows, RegisterResident, RemoveResident, Crash
    <1>3. opened' = opened \/ opened' = opened + 1
        BY ZenonT(60) DEF Next, HandlerStep, Memory, Work, vars, memory, Receive, EnqueueFails,
           EnqueueUnanswered, TakeJob, CompleteJob, HandleSecretaryEvent, FindResident,
           SkipUnregistered, GetOrCreateConversation, InsertMessage, BumpLastMessageAt,
           GetSession, SetSession, Escalate, CheckStatus, FindComplainant, DrawTicket,
           FileComplaint, Classify, CreateSuggestion, LogSuggestion, ReadHistory,
           SearchKnowledge, AskGemini, ReplyMessage, ForeignKeyFails, TicketCollides,
           HandlerThrows, RegisterResident, RemoveResident, Crash
    <1>4. faults' = faults \/ Fault
        BY ZenonT(60) DEF Next, HandlerStep, Memory, Work, vars, Receive, EnqueueFails,
           EnqueueUnanswered, TakeJob, CompleteJob, HandleSecretaryEvent, FindResident,
           SkipUnregistered, GetOrCreateConversation, InsertMessage, BumpLastMessageAt,
           GetSession, SetSession, Escalate, CheckStatus, FindComplainant, DrawTicket,
           FileComplaint, Classify, CreateSuggestion, LogSuggestion, ReadHistory,
           SearchKnowledge, AskGemini, ReplyMessage, ForeignKeyFails, TicketCollides,
           HandlerThrows, RegisterResident, RemoveResident, Crash
    <1>5. faults' \in 0..MaxFaults /\ faults <= faults'
        BY <1>0, <1>4 DEF Fault
    <1> QED
        BY <1>0, <1>1, <1>2, <1>3, <1>5 DEF Grows

\* What a step may do to one job and its handler: nothing but enqueue it,
Still(j) ==
    /\ pc'[j] = pc[j] /\ local'[j] = local[j]
    /\ job'[j] = job[j] \/ (job[j].state = "absent" /\ job'[j] = NewJob)
\* stall it,
Dies(j) ==
    /\ job[j].state = "active" /\ job'[j] = Stalled(job[j])
    /\ pc'[j] = "idle" /\ local'[j] = NoLocals
\* begin it,
Begins(j) ==
    /\ job[j].state = "waiting" /\ job'[j] = Taken(job[j])
    /\ pc'[j] = "event" /\ local'[j] = local[j]
\* end it, done or in error,
Ends(j) ==
    /\ pc[j] # "idle"
    /\ pc'[j] = "idle" /\ local'[j] = NoLocals
    /\ \/ CompleteJob(j) /\ job'[j] = Completed(job[j])
       \/ (ForeignKeyFails(j) \/ TicketCollides(j) \/ HandlerThrows(j)) /\ job'[j] = Retried(job[j])
\* take it to the next event,
Passes(j) ==
    /\ AtEvent(j) \/ pc[j] = "out bump"
    /\ pc'[j] = "event" /\ job'[j] = job[j]
    /\ local'[j] = [NoLocals EXCEPT !.at = local[j].at + 1]
\* or on with the event at hand.
Goes(j) ==
    /\ AtEvent(j) \/ AtWork(j)
    /\ pc'[j] \notin {"idle", "event"} /\ job'[j] = job[j]
    /\ local'[j].at = local[j].at

Kinds(j) == Begins(j) \/ Ends(j) \/ Passes(j) \/ Goes(j)

\* The steps of a handler are of these kinds.
LEMMA HandlerKinds ==
    ASSUME TypeInv, NEW j \in JobIds, HandlerStep(j) \/ HandlerThrows(j)
    PROVE  Kinds(j)
    <1>0. /\ pc \in [JobIds -> Steps] /\ job \in [JobIds -> BoundedJob]
          /\ local \in [JobIds -> Locals(registered, opened)]
          /\ local[j] \in Locals(registered, opened)
        BY DEF TypeInv, PrivacyInv, LocalsInv, JobsInv, PlacesInv
    <1>1. CASE TakeJob(j)
        BY <1>0, <1>1 DEF TakeJob, GoTo, Kinds, Begins
    <1>2. CASE CompleteJob(j)
        BY <1>0, <1>2 DEF CompleteJob, End, Kinds, Ends
    <1>3. CASE ForeignKeyFails(j) \/ TicketCollides(j) \/ HandlerThrows(j)
        <2>1. pc[j] # "idle"
            BY <1>3 DEF ForeignKeyFails, TicketCollides, HandlerThrows, AtEvent
        <2> QED
            BY <1>0, <1>3, <2>1 DEF ForeignKeyFails, TicketCollides, HandlerThrows, Throws, End,
               Kinds, Ends
    <1>4. CASE \/ HandleSecretaryEvent(j) \/ SkipUnregistered(j)
               \/ BumpLastMessageAt(j) /\ pc[j] = "out bump"
        <2>1. NextEvent(j) /\ job' = job /\ (AtEvent(j) \/ pc[j] = "out bump")
            BY <1>4 DEF HandleSecretaryEvent, SkipUnregistered, BumpLastMessageAt
        <2>2. /\ pc'[j] = "event"
              /\ local'[j] = [NoLocals EXCEPT !.at = local[j].at + 1]
            BY <1>0, <2>1 DEF NextEvent, GoTo
        <2> QED
            BY <2>1, <2>2 DEF Kinds, Passes
    <1>5. ASSUME AtEvent(j) \/ AtWork(j), job' = job,
                 NEW step \in Steps \ {"idle", "event"}, GoTo(j, step),
                 local'[j].at = local[j].at
          PROVE  Kinds(j)
        BY <1>0, <1>5 DEF GoTo, Kinds, Goes
    <1>6. \A v : /\ [local EXCEPT ![j].who = v][j].at = local[j].at
                 /\ [local EXCEPT ![j].thread = v][j].at = local[j].at
                 /\ [local EXCEPT ![j].seen = v][j].at = local[j].at
                 /\ [local EXCEPT ![j].ticket = v][j].at = local[j].at
                 /\ [local EXCEPT ![j].category = v][j].at = local[j].at
        BY <1>0 DEF Locals
    <1>7. CASE FindResident(j)
        BY <1>5, <1>6, <1>7 DEF FindResident, Steps
    <1>8. CASE Memory(j)
        <2>1. CASE GetOrCreateConversation(j)
            <3>1. job' = job /\ AtWork(j) /\ \E step \in {"insert", "out insert"} : GoTo(j, step)
                BY <2>1 DEF GetOrCreateConversation, AtWork
            <3>2. PICK v : local' = [local EXCEPT ![j].thread = v]
                BY <2>1 DEF GetOrCreateConversation
            <3> QED
                BY <1>5, <1>6, <3>1, <3>2 DEF Steps
        <2>2. CASE InsertMessage(j)
            <3>1. /\ job' = job /\ local' = local /\ AtWork(j)
                  /\ \E step \in {"bump", "out bump"} : GoTo(j, step)
                BY <2>2 DEF InsertMessage, AtWork
            <3> QED
                BY <1>5, <3>1 DEF Steps
        <2>3. CASE BumpLastMessageAt(j)
            BY <1>4, <1>5, <2>3 DEF BumpLastMessageAt, AtWork, Steps
        <2>4. CASE GetSession(j)
            <3>1. PICK v : local' = [local EXCEPT ![j].seen = v]
                BY <2>4 DEF GetSession
            <3> QED
                BY <1>5, <1>6, <2>4, <3>1 DEF GetSession, AtWork, Steps
        <2>5. CASE SetSession(j)
            <3>1. Route(Event(j)) \in Steps \ {"idle", "event"}
                BY DEF Route, Steps
            <3> QED
                BY <1>5, <1>6, <2>5, <3>1 DEF SetSession, AtWork
        <2> QED
            BY <1>8, <2>1, <2>2, <2>3, <2>4, <2>5 DEF Memory
    <1>9. CASE Work(j)
        <2>1. CASE Classify(j)
            <3>1. PICK v : local' = [local EXCEPT ![j].category = v]
                BY <2>1 DEF Classify
            <3> QED
                BY <1>5, <1>6, <2>1, <3>1 DEF Classify, AtWork, Steps
        <2>2. CASE SearchKnowledge(j)
            <3>1. PICK score : GoTo(j, Gate(score))
                BY <2>2 DEF SearchKnowledge
            <3>2. Gate(score) \in Steps \ {"idle", "event"}
                BY DEF Gate, Steps
            <3> QED
                BY <1>5, <2>2, <3>1, <3>2 DEF SearchKnowledge, AtWork
        <2>3. CASE DrawTicket(j)
            <3>1. PICK v : local' = [local EXCEPT ![j].ticket = v]
                BY <2>3 DEF DrawTicket
            <3> QED
                <4>1. job' = job /\ GoTo(j, "file") /\ AtWork(j) /\ "file" \in Steps \ {"idle",
                "event"}
                    BY <2>3 DEF DrawTicket, AtWork, Steps
                <4>2. local'[j].at = local[j].at
                    BY <1>6, <3>1
                <4> QED
                    BY <1>5, <4>1, <4>2
        <2>4. ASSUME Work(j), ~Classify(j), ~SearchKnowledge(j), ~DrawTicket(j)
              PROVE  /\ job' = job /\ local' = local /\ AtWork(j)
                     /\ \E step \in {"reply", "count", "log suggestion", "search", "out thread"} :
                            GoTo(j, step)
            BY <2>4 DEF Work, Escalate, CheckStatus, FindComplainant, FileComplaint,
               CreateSuggestion, LogSuggestion, ReadHistory, AskGemini, ReplyMessage, AtWork
        <2> QED
            BY <1>5, <1>9, <2>1, <2>2, <2>3, <2>4 DEF Steps
    <1> QED
        BY <1>1, <1>2, <1>3, <1>4, <1>7, <1>8, <1>9 DEF HandlerStep

\* The others' jobs are left alone.
LEMMA OthersStill ==
    ASSUME TypeInv, NEW j \in JobIds, NEW k \in JobIds, k # j,
           HandlerStep(j) \/ HandlerThrows(j)
    PROVE  Still(k)
    <1>0. /\ pc \in [JobIds -> Steps] /\ job \in [JobIds -> BoundedJob]
          /\ local \in [JobIds -> Locals(registered, opened)]
        BY DEF TypeInv, PrivacyInv, LocalsInv, JobsInv, PlacesInv
    <1>1. job'[k] = job[k]
        BY <1>0 DEF HandlerStep, Memory, Work, TakeJob, CompleteJob, HandleSecretaryEvent,
           FindResident, SkipUnregistered, GetOrCreateConversation, InsertMessage,
           BumpLastMessageAt, GetSession, SetSession, Escalate, CheckStatus, FindComplainant,
           DrawTicket, FileComplaint, Classify, CreateSuggestion, LogSuggestion, ReadHistory,
           SearchKnowledge, AskGemini, ReplyMessage, ForeignKeyFails, TicketCollides,
           HandlerThrows, Throws
    <1>2. pc'[k] = pc[k]
        BY <1>0 DEF HandlerStep, Memory, Work, TakeJob, CompleteJob, HandleSecretaryEvent,
           FindResident, SkipUnregistered, GetOrCreateConversation, InsertMessage,
           BumpLastMessageAt, GetSession, SetSession, Escalate, CheckStatus, FindComplainant,
           DrawTicket, FileComplaint, Classify, CreateSuggestion, LogSuggestion, ReadHistory,
           SearchKnowledge, AskGemini, ReplyMessage, ForeignKeyFails, TicketCollides,
           HandlerThrows, Throws, GoTo, NextEvent, End
    <1>3. local'[k] = local[k]
        BY <1>0 DEF HandlerStep, Memory, Work, TakeJob, CompleteJob, HandleSecretaryEvent,
           FindResident, SkipUnregistered, GetOrCreateConversation, InsertMessage,
           BumpLastMessageAt, GetSession, SetSession, Escalate, CheckStatus, FindComplainant,
           DrawTicket, FileComplaint, Classify, CreateSuggestion, LogSuggestion, ReadHistory,
           SearchKnowledge, AskGemini, ReplyMessage, ForeignKeyFails, TicketCollides,
           HandlerThrows, Throws, NextEvent, End
    <1> QED
        BY <1>1, <1>2, <1>3 DEF Still

\* So every step stills, kills or moves each job.
LEMMA OneAtATime ==
    ASSUME TypeInv, [Next]_vars, NEW k \in JobIds
    PROVE  Still(k) \/ (Dies(k) /\ Crash) \/ HandlerStep(k) \/ HandlerThrows(k)
    <1>0. /\ pc \in [JobIds -> Steps] /\ job \in [JobIds -> BoundedJob]
          /\ local \in [JobIds -> Locals(registered, opened)]
        BY DEF TypeInv, PrivacyInv, LocalsInv, JobsInv, PlacesInv
    <1>1. CASE UNCHANGED vars
        <2>1. UNCHANGED <<job, pc, local>>
            BY <1>1 DEF vars
        <2> QED
            BY <2>1 DEF Still
    <1>2. ASSUME NEW p \in Payloads, Receive(p) \/ EnqueueFails(p) \/ EnqueueUnanswered(p)
          PROVE  Still(k)
        <2>1. pc' = pc /\ local' = local /\ (Enqueue(p) \/ job' = job)
            BY <1>2 DEF Receive, EnqueueFails, EnqueueUnanswered
        <2> QED
            BY <1>0, <2>1 DEF Enqueue, Still
    <1>3. ASSUME NEW ph \in Phones, RegisterResident(ph) \/ RemoveResident(ph)
          PROVE  Still(k)
        BY <1>3 DEF RegisterResident, RemoveResident, Still
    <1>4. CASE Crash
        <2> DEFINE active == {j \in JobIds : job[j].state = "active"}
        <2>1. /\ job' = [j \in JobIds |-> IF j \in active THEN Stalled(job[j]) ELSE job[j]]
              /\ End(active)
            BY <1>4 DEF Crash
        <2> QED
            BY <1>0, <1>4, <2>1 DEF End, Still, Dies
    <1>5. ASSUME NEW j \in JobIds, HandlerStep(j) \/ HandlerThrows(j)
          PROVE  Still(k) \/ HandlerStep(k) \/ HandlerThrows(k)
        BY <1>5, OthersStill
    <1>6. CASE Next
        BY <1>2, <1>3, <1>4, <1>5, <1>6, Zenon DEF Next
    <1> QED
        BY <1>1, <1>6

\* The jobs: no job is tried more often than it may be, and a handler runs while
\* its job is active.
LEMMA JobsStep == ASSUME TypeInv, [Next]_vars PROVE JobsInv'
    <1>0. JobsInv /\ \A j \in JobIds : job[j] \in BoundedJob
        BY DEF TypeInv, JobsInv
    <1>1. ASSUME NEW j \in JobIds
          PROVE  /\ job'[j] \in BoundedJob /\ HasAttemptsLeft(job'[j])
                 /\ pc'[j] # "idle" <=> job'[j].state = "active"
        <2>0. /\ job[j] \in BoundedJob /\ HasAttemptsLeft(job[j])
              /\ pc[j] # "idle" <=> job[j].state = "active"
            BY <1>0 DEF JobsInv
        <2>1. CASE Still(j)
            BY <2>0, <2>1, NewJobs DEF Still
        <2>2. CASE Dies(j)
            BY <2>0, <2>2, JobTransitions DEF Dies
        <2>3. CASE Begins(j)
            BY <2>0, <2>3, JobTaken DEF Begins
        <2>4. CASE Ends(j)
            <3>1. job[j].state = "active"
                BY <2>0, <2>4 DEF Ends
            <3>2. job'[j] \in {Completed(job[j]), Retried(job[j])} /\ pc'[j] = "idle"
                BY <2>4 DEF Ends
            <3>3. \A next \in {Completed(job[j]), Retried(job[j])} :
                      next \in BoundedJob /\ HasAttemptsLeft(next) /\ next.state # "active"
                BY <2>0, <3>1, JobTransitions
            <3> QED
                BY <3>2, <3>3
        <2>5. CASE Passes(j) \/ Goes(j)
            BY <2>0, <2>5 DEF Passes, Goes, AtEvent, AtWork
        <2> QED
            BY <2>1, <2>2, <2>3, <2>4, <2>5, OneAtATime, HandlerKinds DEF Kinds
    <1>2. DOMAIN job' = JobIds /\ job' = [j \in JobIds |-> job'[j]]
        <2>1. job \in [JobIds -> BoundedJob]
            BY DEF TypeInv, JobsInv
        <2>2. \/ job' = job \/ \E p \in Payloads : Enqueue(p)
              \/ \E j \in JobIds : \E v : job' = [job EXCEPT ![j] = v]
              \/ \E S : job' = [j \in JobIds |-> IF j \in S THEN Stalled(job[j]) ELSE job[j]]
            BY ZenonT(60) DEF Next, HandlerStep, Memory, Work, vars, Receive, EnqueueFails,
               EnqueueUnanswered, TakeJob, CompleteJob, HandleSecretaryEvent, FindResident,
               SkipUnregistered, GetOrCreateConversation, InsertMessage, BumpLastMessageAt,
               GetSession, SetSession, Escalate, CheckStatus, FindComplainant, DrawTicket,
               FileComplaint, Classify, CreateSuggestion, LogSuggestion, ReadHistory,
               SearchKnowledge, AskGemini, ReplyMessage, ForeignKeyFails, TicketCollides,
               Throws, HandlerThrows, RegisterResident, RemoveResident, Crash
        <2> QED
            BY <2>1, <2>2 DEF Enqueue
    <1> QED
        BY <1>1, <1>2 DEF JobsInv

\* Local variables, of types that grow.
LEMMA LocalsGrow ==
    ASSUME NEW r \in Nat, NEW n \in Nat, NEW x \in Locals(r, n),
           NEW more \in Nat, NEW further \in Nat, r <= more, n <= further
    PROVE  /\ x \in Locals(more, further)
           /\ \A v \in 0..more : /\ [x EXCEPT !.who = v] \in Locals(more, further)
                                 /\ [x EXCEPT !.seen = v] \in Locals(more, further)
           /\ \A v \in 0..further : [x EXCEPT !.thread = v] \in Locals(more, further)
           /\ \A v \in Nat : [x EXCEPT !.ticket = v] \in Locals(more, further)
           /\ \A v \in SuggestionCategories : [x EXCEPT !.category = v] \in Locals(more, further)
           /\ NoLocals \in Locals(more, further)
           /\ [NoLocals EXCEPT !.at = x.at + 1] \in Locals(more, further)
    <1>1. /\ x.at \in Nat \ {0} /\ x.who \in 0..r /\ x.thread \in 0..n /\ x.seen \in 0..r
          /\ x.ticket \in Nat
          /\ x.category \in SuggestionCategories \cup {None}
          /\ 0..r \subseteq 0..more /\ 0..n \subseteq 0..further
        BY DEF Locals
    <1>2. x \in Locals(more, further)
        BY <1>1 DEF Locals
    <1>3. NoLocals \in Locals(more, further)
        BY DEF NoLocals, Locals
    <1>4. [NoLocals EXCEPT !.at = x.at + 1] \in Locals(more, further)
        BY <1>1, <1>3 DEF Locals
    <1> QED
        BY <1>2, <1>3, <1>4 DEF Locals

\* A step of a handler sets its variables to values of their types.
LEMMA LocalTypes ==
    ASSUME TypeInv, [Next]_vars, NEW j \in JobIds, HandlerStep(j) \/ HandlerThrows(j)
    PROVE  local'[j] \in Locals(registered', opened')
    <1>0. /\ local \in [JobIds -> Locals(registered, opened)]
          /\ local[j] \in Locals(registered, opened)
          /\ registered \in Nat /\ opened \in Nat /\ registered' \in Nat /\ opened' \in Nat
          /\ registered <= registered' /\ opened <= opened'
        BY StepGrows, InboundAssumption
        DEF Grows, TypeInv, PlacesInv, TablesInv, PrivacyInv, ThreadsInv
    <1> DEFINE T == Locals(registered', opened')
    <1> SUFFICES local'[j] \in T
        OBVIOUS
    <1>1. /\ local[j] \in T
          /\ \A v \in 0..registered' : /\ [local[j] EXCEPT !.who = v] \in T
                                       /\ [local[j] EXCEPT !.seen = v] \in T
          /\ \A v \in 0..opened' : [local[j] EXCEPT !.thread = v] \in T
          /\ \A v \in Nat : [local[j] EXCEPT !.ticket = v] \in T
          /\ \A v \in SuggestionCategories : [local[j] EXCEPT !.category = v] \in T
          /\ NoLocals \in T
          /\ [NoLocals EXCEPT !.at = local[j].at + 1] \in T
        BY <1>0, LocalsGrow
    <1> HIDE DEF T
    <1>2. CASE Begins(j) \/ Ends(j) \/ Passes(j)
        BY <1>1, <1>2 DEF Begins, Ends, Passes
    <1>3. CASE Goes(j)
        <2>1. CASE local'[j] = local[j]
            BY <1>1, <2>1
        <2>2. CASE FindResident(j)
            <3>1. Sender(j) \in 0..registered'
                BY <1>0 DEF Sender, TypeInv, PrivacyInv, RegistryInv
            <3>2. local'[j] = [local[j] EXCEPT !.who = Sender(j)]
                BY <1>0, <2>2 DEF FindResident
            <3> QED
                BY <1>1, <3>1, <3>2
        <2>3. CASE GetOrCreateConversation(j)
            <3>1. From(j) \in Phones
                BY <2>3 DEF GetOrCreateConversation, TypeInv, PrivacyInv, HandlerInv, AtWork
            <3>2. threads[From(j)].id \in 0..opened
                BY <3>1 DEF TypeInv, TablesInv
            <3>3. PICK v \in 0..opened' : local' = [local EXCEPT ![j].thread = v]
                <4>1. CASE threads[From(j)] = NoThread
                    <5>1. [NoThread EXCEPT !.id = opened + 1].id = opened + 1
                        BY DEF NoThread
                    <5>2. opened' = opened + 1
                        BY <2>3, <4>1 DEF GetOrCreateConversation
                    <5>3. opened + 1 \in 0..opened'
                        BY <1>0, <5>2
                    <5> QED
                        BY <2>3, <4>1, <5>1, <5>3 DEF GetOrCreateConversation
                <4>2. CASE threads[From(j)] # NoThread
                    <5>1. threads[From(j)].id \in 0..opened'
                        BY <1>0, <3>2
                    <5> QED
                        BY <2>3, <4>2, <5>1 DEF GetOrCreateConversation
                <4> QED
                    BY <4>1, <4>2
            <3>4. local'[j] = [local[j] EXCEPT !.thread = v]
                BY <1>0, <3>3
            <3> QED
                BY <1>1, <3>4
        <2>4. CASE GetSession(j)
            <3>1. From(j) \in Phones
                BY <2>4 DEF GetSession, TypeInv, PrivacyInv, HandlerInv, AtWork
            <3>2. PICK v \in {session[From(j)], 0} : local' = [local EXCEPT ![j].seen = v]
                BY <2>4 DEF GetSession
            <3>3. v \in 0..registered'
                BY <1>0, <3>1, <3>2 DEF TypeInv, TablesInv
            <3>4. local'[j] = [local[j] EXCEPT !.seen = v]
                BY <1>0, <3>2
            <3> QED
                BY <1>1, <3>3, <3>4
        <2>5. CASE SetSession(j)
            <3>1. local'[j] = [local[j] EXCEPT !.who = local[j].who]
                BY <1>0, <2>5 DEF SetSession, Resident
            <3>2. local[j].who \in 0..registered'
                BY <1>1 DEF T, Locals
            <3> QED
                BY <1>1, <3>1, <3>2
        <2>6. CASE Classify(j)
            <3>1. PICK v \in SuggestionCategories : local' = [local EXCEPT ![j].category = v]
                BY <2>6, CategoriesAreKnown DEF Classify
            <3>2. local'[j] = [local[j] EXCEPT !.category = v]
                BY <1>0, <3>1
            <3> QED
                BY <1>1, <3>1, <3>2
        <2>7. CASE DrawTicket(j)
            <3>1. Len(complaints) + 1 \in Nat
                BY DEF TypeInv, TablesInv
            <3>2. local'[j] = [local[j] EXCEPT !.ticket = Len(complaints) + 1]
                BY <1>0, <2>7 DEF DrawTicket
            <3> QED
                BY <1>1, <3>1, <3>2
        <2>8. ASSUME ~FindResident(j), ~GetOrCreateConversation(j), ~GetSession(j),
                     ~SetSession(j), ~Classify(j), ~DrawTicket(j)
              PROVE  local'[j] = local[j]
            <3>1. ~End({j}) /\ ~NextEvent(j)
                BY <1>3 DEF Goes, End, NextEvent, GoTo, TypeInv, PrivacyInv, LocalsInv
            <3> QED
                BY <2>8, <3>1 DEF HandlerStep, Memory, Work, TakeJob, CompleteJob, Throws,
                   HandleSecretaryEvent, SkipUnregistered, InsertMessage, BumpLastMessageAt,
                   Escalate, CheckStatus, FindComplainant, FileComplaint, CreateSuggestion,
                   LogSuggestion, ReadHistory, SearchKnowledge, AskGemini, ReplyMessage,
                   ForeignKeyFails, TicketCollides, HandlerThrows
        <2> QED
            BY <2>1, <2>2, <2>3, <2>4, <2>5, <2>6, <2>7, <2>8
    <1> QED
        BY <1>2, <1>3, HandlerKinds DEF Kinds

\* Handlers stay at the events of their payloads.
LEMMA PlacesStep == ASSUME TypeInv, [Next]_vars PROVE PlacesInv'
    <1>0. /\ content \in [Payloads -> Seq(Events)] /\ content' = content
          /\ local \in [JobIds -> Locals(registered, opened)]
          /\ registered \in Nat /\ opened \in Nat /\ registered' \in Nat /\ opened' \in Nat
          /\ registered <= registered' /\ opened <= opened'
        BY StepGrows, InboundAssumption
        DEF Grows, TypeInv, PlacesInv, TablesInv, PrivacyInv, ThreadsInv
    <1>1. ASSUME NEW j \in JobIds
          PROVE  /\ local'[j] \in Locals(registered', opened')
                 /\ pc'[j] = "idle" => local'[j] = NoLocals
                 /\ AtWork(j)' => local'[j].at <= Len(content'[j[1]])
        <2>0. /\ local[j] \in Locals(registered, opened)
              /\ pc[j] = "idle" => local[j] = NoLocals
              /\ AtWork(j) => local[j].at <= Len(content[j[1]])
            BY <1>0 DEF TypeInv, PlacesInv
        <2>1. CASE Still(j)
            <3>1. local'[j] \in Locals(registered', opened')
                BY <1>0, <2>0, <2>1, LocalsGrow DEF Still
            <3> QED
                BY <1>0, <2>0, <2>1, <3>1 DEF Still, AtWork
        <2>2. CASE Dies(j)
            <3>1. NoLocals \in Locals(registered', opened')
                BY <1>0, <2>0, LocalsGrow
            <3> QED
                BY <2>2, <3>1 DEF Dies, AtWork
        <2>3. CASE HandlerStep(j) \/ HandlerThrows(j)
            <3>1. local'[j] \in Locals(registered', opened')
                BY <2>3, LocalTypes
            <3>2. CASE Begins(j) \/ Ends(j) \/ Passes(j)
                BY <3>1, <3>2 DEF Begins, Ends, Passes, AtWork
            <3>3. CASE Goes(j)
                BY <1>0, <2>0, <3>1, <3>3 DEF Goes, AtEvent, AtWork
            <3> QED
                BY <2>3, <3>2, <3>3, HandlerKinds DEF Kinds
        <2> QED
            BY <2>1, <2>2, <2>3, OneAtATime
    <1>2. local' = [j \in JobIds |-> local'[j]]
        BY PrivacyStep DEF TypeInv, PrivacyInv, LocalsInv
    <1> QED
        BY <1>0, <1>1, <1>2 DEF PlacesInv

\* A sequence over a set is one over any larger set.
LEMMA SequencesWiden ==
    ASSUME NEW S, NEW T, S \subseteq T, NEW s \in Seq(S)
    PROVE  s \in Seq(T)
    <1>1. \A i \in 1..Len(s) : s[i] \in T
        OBVIOUS
    <1> QED
        BY <1>1

\* Only filing a complaint adds a row to the table, and nothing removes one.
LEMMA ComplaintsFiled ==
    ASSUME [Next]_vars
    PROVE  complaints' = complaints \/ \E j \in JobIds : FileComplaint(j)
    BY ZenonT(60)
    DEF registry, Next, HandlerStep, Memory, Work, vars, Receive, EnqueueFails,
       EnqueueUnanswered, TakeJob, CompleteJob, HandleSecretaryEvent, FindResident,
       SkipUnregistered, GetOrCreateConversation, InsertMessage, BumpLastMessageAt,
       GetSession, SetSession, Escalate, CheckStatus, FindComplainant, DrawTicket, Classify,
       CreateSuggestion, LogSuggestion, ReadHistory, SearchKnowledge, AskGemini, ReplyMessage,
       ForeignKeyFails, TicketCollides, HandlerThrows, RegisterResident, RemoveResident, Crash

\* The tables and the sessions.
LEMMA TablesStep == ASSUME TypeInv, [Next]_vars PROVE TablesInv'
    <1>0. Grows /\ PrivacyInv' /\ TablesInv /\ registered \in Nat /\ registered' \in Nat
        BY StepGrows, PrivacyStep, InboundAssumption DEF TypeInv, TablesInv, Grows
    <1>1. due' \subseteq Payloads
        <2>1. due' = due \/ \E p : due' = due \ {p}
            BY ZenonT(60) DEF sent, Next, HandlerStep, Memory, Work, vars, Receive, EnqueueFails,
               EnqueueUnanswered, TakeJob, CompleteJob, HandleSecretaryEvent, FindResident,
               SkipUnregistered, GetOrCreateConversation, InsertMessage, BumpLastMessageAt,
               GetSession, SetSession, Escalate, CheckStatus, FindComplainant, DrawTicket,
               FileComplaint, Classify, CreateSuggestion, LogSuggestion, ReadHistory,
               SearchKnowledge, AskGemini, ReplyMessage, ForeignKeyFails, TicketCollides,
               HandlerThrows, RegisterResident, RemoveResident, Crash
        <2> QED
            BY <1>0, <2>1 DEF TablesInv
    <1>2. complaints' \in Seq([resident : 1..registered', by : JobIds])
        <2>1. \A n \in 1..registered : n \in 1..registered'
            BY <1>0 DEF Grows
        <2>2. [resident : 1..registered, by : JobIds]
                  \subseteq [resident : 1..registered', by : JobIds]
            BY <2>1
        <2>3. complaints \in Seq([resident : 1..registered', by : JobIds])
            <3>1. complaints \in Seq([resident : 1..registered, by : JobIds])
                BY <1>0 DEF TablesInv
            <3> QED
                BY <2>2, <3>1, SequencesWiden
        <2>4. ASSUME NEW j \in JobIds, FileComplaint(j)
              PROVE  complaints' \in Seq([resident : 1..registered', by : JobIds])
            <3>1. local[j].who \in 1..registered
                BY <2>4 DEF FileComplaint, TypeInv, PrivacyInv, HandlerInv, AtWork
            <3>2. [resident |-> local[j].who, by |-> j] \in [resident : 1..registered',
            by : JobIds]
                BY <2>1, <3>1
            <3> QED
                BY <2>3, <2>4, <3>2 DEF FileComplaint
        <2> QED
            BY <2>3, <2>4, ComplaintsFiled
    <1>3. threads' \in [Phones -> [id : 0..opened', resident : 0..registered',
                                   authors : SUBSET (1..registered')]]
        <2>1. /\ threads' \in [Phones -> [id : 0..opened', resident : Nat, authors : SUBSET Nat]]
              /\ owner' \in [Phones -> 0..registered']
            BY <1>0 DEF PrivacyInv, ThreadsInv, RegistryInv
        <2>2. ASSUME NEW ph \in Phones
              PROVE  threads'[ph] \in [id : 0..opened', resident : 0..registered',
                                       authors : SUBSET (1..registered')]
            <3>1. CASE threads'[ph] = NoThread
                <4>1. 0 \in 0..opened' /\ 0 \in 0..registered'
                    BY <1>0 DEF Grows
                <4> QED
                    BY <3>1, <4>1 DEF NoThread
            <3>2. CASE threads'[ph] # NoThread
                <4>1. /\ owner'[ph] \in 1..registered' /\ threads'[ph].resident = owner'[ph]
                      /\ threads'[ph].authors \subseteq {owner'[ph]}
                    BY <1>0, <2>1, <3>2 DEF PrivacyInv, PrivateThreads
                <4> QED
                    BY <1>0, <2>1, <4>1
            <3> QED
                BY <3>1, <3>2
        <2> QED
            BY <2>1, <2>2
    <1>4. session' \in [Phones -> 0..registered']
        <2>1. session \in [Phones -> 0..registered'] /\ 0..registered \subseteq 0..registered'
            BY <1>0 DEF TablesInv, Grows
        <2>2. \/ session' = session
              \/ \E j \in JobIds : SetSession(j)
            BY ZenonT(60) DEF Next, HandlerStep, Memory, Work, vars, Receive, EnqueueFails,
               EnqueueUnanswered, TakeJob, CompleteJob, HandleSecretaryEvent, FindResident,
               SkipUnregistered, GetOrCreateConversation, InsertMessage, BumpLastMessageAt,
               GetSession, Escalate, CheckStatus, FindComplainant, DrawTicket, FileComplaint,
               Classify, CreateSuggestion, LogSuggestion, ReadHistory, SearchKnowledge,
               AskGemini, ReplyMessage, ForeignKeyFails, TicketCollides, HandlerThrows,
               RegisterResident, RemoveResident, Crash
        <2>3. ASSUME NEW j \in JobIds, SetSession(j)
              PROVE  session' \in [Phones -> 0..registered']
            <3>1. local[j] \in Locals(registered, opened)
                BY DEF TypeInv, PlacesInv
            <3>2. (IF local[j].seen # 0 THEN local[j].seen ELSE local[j].who) \in 0..registered'
                BY <2>1, <3>1 DEF Locals
            <3> QED
                BY <2>1, <2>3, <3>2 DEF SetSession
        <2> QED
            BY <2>1, <2>2, <2>3
    <1> QED
        BY <1>0, <1>1, <1>2, <1>3, <1>4 DEF TablesInv, Grows

\* What a handler that deals with an event may do for it.
LEMMA DeedsAreKnown ==
    /\ {"filed", "suggested", "asked", "commanded", "skipped", "replied"} \subseteq Deeds
    /\ \A token, says : CategorizeEscalation(token, says) \in Deeds
    BY CategoriesAreKnown DEF Deeds

\* A step does at most one thing for one event, and appends at most one.
LEMMA TraceSteps ==
    ASSUME TypeInv, [Next]_vars
    PROVE  /\ did' = did \/ \E j \in JobIds : \E deed \in Deeds : Does(j, deed)
           /\ heard' = heard \/ \E j \in JobIds : pc[j] = "insert" /\ InsertMessage(j)
    <1>1. did' = did \/ \E j \in JobIds : \E deed \in Deeds : Does(j, deed)
        BY ZenonT(60), DeedsAreKnown DEF trace, Next, HandlerStep, Memory, Work, vars, Receive,
           EnqueueFails, EnqueueUnanswered, TakeJob, CompleteJob, HandleSecretaryEvent,
           FindResident, SkipUnregistered, GetOrCreateConversation, InsertMessage,
           BumpLastMessageAt, GetSession, SetSession, Escalate, CheckStatus, FindComplainant,
           DrawTicket, FileComplaint, Classify, CreateSuggestion, LogSuggestion, ReadHistory,
           SearchKnowledge, AskGemini, ReplyMessage, ForeignKeyFails, TicketCollides,
           HandlerThrows, RegisterResident, RemoveResident, Crash
    <1>2. heard' = heard \/ \E j \in JobIds : pc[j] = "insert" /\ InsertMessage(j)
        BY ZenonT(60) DEF trace, Next, HandlerStep, Memory, Work, vars, Receive, EnqueueFails,
           EnqueueUnanswered, TakeJob, CompleteJob, HandleSecretaryEvent, FindResident,
           SkipUnregistered, GetOrCreateConversation, InsertMessage, BumpLastMessageAt,
           GetSession, SetSession, Escalate, CheckStatus, FindComplainant, DrawTicket,
           FileComplaint, Classify, CreateSuggestion, LogSuggestion, ReadHistory,
           SearchKnowledge, AskGemini, ReplyMessage, ForeignKeyFails, TicketCollides,
           HandlerThrows, RegisterResident, RemoveResident, Crash
    <1> QED
        BY <1>1, <1>2

\* What was done and appended.
LEMMA TraceStep == ASSUME TypeInv, [Next]_vars PROVE TraceInv'
    <1>0. TraceInv /\ EventIds' = EventIds
        BY StepGrows DEF TypeInv, Grows, EventIds
    <1>1. did' \in [EventIds -> SUBSET Deeds]
        BY <1>0, TraceSteps DEF TraceInv, Does
    <1>2. heard' \in [EventIds -> Nat]
        <2>1. heard' = heard \/ \E e : heard' = [heard EXCEPT ![e] = @ + 1]
            BY TraceSteps DEF InsertMessage
        <2> QED
            BY <1>0, <2>1 DEF TraceInv
    <1> QED
        BY <1>0, <1>1, <1>2 DEF TraceInv

\* The initial state.
LEMMA TypeInit == Init => TypeInv
    <1> SUFFICES ASSUME Init PROVE TypeInv
        OBVIOUS
    <1> USE DEF Init
    <1>1. PrivacyInv
        BY PrivacyInit
    <1>2. JobsInv
        BY NewJobs DEF JobsInv
    <1>3. PlacesInv
        <2>1. PICK requests \in Contents :
                  content = [p \in Payloads |-> ReceiveMessage(requests[p])]
            OBVIOUS
        <2>2. \A p \in Payloads : requests[p] \in Requests
            BY InboundAssumption
        <2>3. content \in [Payloads -> Seq(Events)]
            BY <2>1, <2>2, RequestsAreRead
        <2>4. NoLocals \in Locals(registered, opened)
            BY DEF NoLocals, Locals
        <2> QED
            BY <2>3, <2>4 DEF PlacesInv, AtWork
    <1>4. TablesInv
        BY InboundAssumption DEF TablesInv, NoThread
    <1>5. TraceInv
        BY DEF TraceInv
    <1> QED
        BY <1>1, <1>2, <1>3, <1>4, <1>5 DEF TypeInv

\* Every step keeps the invariant.
LEMMA TypeStep == ASSUME TypeInv, [Next]_vars PROVE TypeInv'
    BY PrivacyStep, JobsStep, PlacesStep, TablesStep, TraceStep DEF TypeInv

\* It implies the types.
LEMMA TypesHold == TypeInv => TypeOK
    <1> SUFFICES ASSUME TypeInv PROVE TypeOK
        OBVIOUS
    <1> USE DEF TypeInv
    <1>1. local \in [JobIds -> [at : Nat \ {0}, who : 0..MaxResidents, thread : 0..opened,
                                seen : 0..MaxResidents, ticket : Nat,
                                category : SuggestionCategories \cup {None}]]
        <2>1. /\ local \in [JobIds -> Locals(registered, opened)]
              /\ 0..registered \subseteq 0..MaxResidents
            BY InboundAssumption DEF PlacesInv, TablesInv
        <2> QED
            BY <2>1 DEF Locals
    <1>2. pc \in [JobIds -> Steps] /\ owner \in [Phones -> 0..registered]
        BY DEF PrivacyInv, LocalsInv, RegistryInv
    <1> QED
        BY <1>1, <1>2 DEF TypeOK, JobsInv, TablesInv, TraceInv

\* Every variable keeps its type, a handler runs exactly while its job is
\* active, and no job is tried or stalls more often than it may.
THEOREM InboundTypeCorrect == Spec => []TypeOK
    BY TypeInit, TypeStep, TypesHold, PTL DEF Spec

-----------------------------------------------------------------------------
(* What the attempts cost.  A resident who is removed costs a handler one  *)
(* attempt: while the handler has his id in hand, he does not count yet.   *)
(* So does the complaint that another handler files: while this one has a  *)
(* ticket in hand, the rows from that one on do not count yet.             *)

Gone == {r \in 1..registered : ~Live(r)}
Spent(j) == IF AtWork(j) THEN Gone \ {local[j].who} ELSE Gone

Filing(j) == pc[j] = "file"
RowsSeen(j) == IF Filing(j) THEN local[j].ticket - 1 ELSE Len(complaints)
SpentRows(j) == {i \in 1..RowsSeen(j) : complaints[i].by # j}

\* Only whose resident was removed finds the conversation gone; what was filed
\* since a handler drew its ticket, others filed.
CostsInv(j) ==
    /\ job[j].attempts + job[j].stalls
           <= faults + Cardinality(Spent(j)) + Cardinality(SpentRows(j))
    /\ Inserting(j) /\ owner[From(j)] = local[j].who =>
           threads[From(j)].id = local[j].thread
    /\ Filing(j) =>
           /\ local[j].ticket \in 1..Len(complaints) + 1
           /\ \A i \in local[j].ticket..Len(complaints) : complaints[i].by # j

CostsHold == \A j \in JobIds : CostsInv(j)

\* Ids are not given again: whoever is gone stays gone.
LEMMA GoneForGood ==
    ASSUME TypeInv, [Next]_vars
    PROVE  /\ IsFiniteSet(Gone) /\ IsFiniteSet(Gone') /\ Gone \subseteq Gone'
           /\ \A ph \in Phones : owner'[ph] \in 1..registered => owner'[ph] = owner[ph]
    <1>0. /\ registered \in Nat /\ registered' \in Nat /\ registered <= registered'
          /\ owner \in [Phones -> 0..registered]
        BY StepGrows, InboundAssumption
        DEF Grows, TypeInv, TablesInv, PrivacyInv, RegistryInv
    <1>1. \/ owner' = owner
          \/ \E ph \in Phones : owner' = [owner EXCEPT ![ph] = registered + 1]
          \/ \E ph \in Phones : owner' = [owner EXCEPT ![ph] = 0]
        BY ZenonT(60) DEF registry, Upserted, Removed, Next, HandlerStep, Memory, Work, vars,
           Receive, EnqueueFails, EnqueueUnanswered, TakeJob, CompleteJob, HandleSecretaryEvent,
           FindResident, SkipUnregistered, GetOrCreateConversation, InsertMessage,
           BumpLastMessageAt, GetSession, SetSession, Escalate, CheckStatus, FindComplainant,
           DrawTicket, FileComplaint, Classify, CreateSuggestion, LogSuggestion, ReadHistory,
           SearchKnowledge, AskGemini, ReplyMessage, ForeignKeyFails, TicketCollides,
           HandlerThrows, RegisterResident, RemoveResident, Crash
    <1>2. \A ph \in Phones : owner'[ph] \in 1..registered => owner'[ph] = owner[ph]
        BY <1>0, <1>1
    <1>3. Gone \subseteq Gone'
        BY <1>0, <1>2 DEF Gone, Live
    <1>4. IsFiniteSet(Gone) /\ IsFiniteSet(Gone')
        <2>1. IsFiniteSet(1..registered) /\ IsFiniteSet(1..registered')
            BY <1>0, FS_Interval
        <2> QED
            BY <2>1, FS_Subset DEF Gone
    <1> QED
        BY <1>2, <1>3, <1>4

\* A handler at work keeps its resident.
LEMMA ResidentStays ==
    ASSUME TypeInv, NEW j \in JobIds, AtWork(j), Goes(j), HandlerStep(j) \/ HandlerThrows(j)
    PROVE  local'[j].who = local[j].who
    <1>0. /\ local \in [JobIds -> Locals(registered, opened)] /\ pc \in [JobIds -> Steps]
          /\ local[j] \in Locals(registered, opened)
        BY DEF TypeInv, PlacesInv, PrivacyInv, LocalsInv
    <1>1. \A v : /\ [local EXCEPT ![j].thread = v][j].who = local[j].who
                 /\ [local EXCEPT ![j].seen = v][j].who = local[j].who
                 /\ [local EXCEPT ![j].ticket = v][j].who = local[j].who
                 /\ [local EXCEPT ![j].category = v][j].who = local[j].who
        BY <1>0 DEF Locals
    <1>2. CASE local'[j] = local[j]
        BY <1>2
    <1>3. CASE GetOrCreateConversation(j)
        BY <1>1, <1>3 DEF GetOrCreateConversation
    <1>4. CASE GetSession(j)
        BY <1>1, <1>4, ZenonT(60) DEF GetSession
    <1>5. CASE SetSession(j)
        BY <1>0, <1>5 DEF SetSession, Resident, Locals
    <1>6. CASE Classify(j)
        BY <1>1, <1>6 DEF Classify
    <1>7. CASE DrawTicket(j)
        BY <1>1, <1>7 DEF DrawTicket
    <1>8. ASSUME ~GetOrCreateConversation(j), ~GetSession(j), ~SetSession(j), ~Classify(j),
                 ~DrawTicket(j)
          PROVE  local'[j] = local[j]
        <2>1. ~End({j}) /\ ~NextEvent(j) /\ ~AtEvent(j)
            BY <1>0 DEF Goes, End, NextEvent, GoTo, AtWork, AtEvent
        <2> QED
            BY <1>8, <2>1 DEF HandlerStep, Memory, Work, TakeJob, CompleteJob, Throws,
               FindResident, HandleSecretaryEvent, SkipUnregistered, InsertMessage,
               BumpLastMessageAt, Escalate, CheckStatus, FindComplainant, FileComplaint,
               CreateSuggestion, LogSuggestion, ReadHistory, SearchKnowledge, AskGemini,
               ReplyMessage, ForeignKeyFails, TicketCollides, HandlerThrows
    <1> QED
        BY <1>2, <1>3, <1>4, <1>5, <1>6, <1>7, <1>8

\* A conversation keeps its id as long as the phone has the same resident.
LEMMA ConversationsStay ==
    ASSUME TypeInv, [Next]_vars, NEW ph \in Phones,
           threads[ph] # NoThread, owner'[ph] = owner[ph]
    PROVE  threads'[ph].id = threads[ph].id
    <1>0. /\ threads \in [Phones -> [id : 0..opened, resident : 0..registered,
                                     authors : SUBSET (1..registered)]]
          /\ owner \in [Phones -> 0..registered]
          /\ owner[ph] # 0 /\ threads[ph].resident = owner[ph]
          /\ \A k, other \in Phones : owner[k] = owner[other] /\ owner[k] # 0 => k = other
        BY DEF TypeInv, TablesInv, PrivacyInv, PrivateThreads, RegistryInv
    <1>1. \/ threads' = threads
          \/ \E j \in JobIds : GetOrCreateConversation(j) \/ InsertMessage(j)
          \/ \E k \in Phones : RemoveResident(k)
        BY ZenonT(60) DEF memory, Next, HandlerStep, Memory, Work, vars, Receive, EnqueueFails,
           EnqueueUnanswered, TakeJob, CompleteJob, HandleSecretaryEvent, FindResident,
           SkipUnregistered, BumpLastMessageAt, GetSession, SetSession, Escalate, CheckStatus,
           FindComplainant, DrawTicket, FileComplaint, Classify, CreateSuggestion,
           LogSuggestion, ReadHistory, SearchKnowledge, AskGemini, ReplyMessage,
           ForeignKeyFails, TicketCollides, HandlerThrows, RegisterResident, Crash
    <1>2. ASSUME NEW j \in JobIds, GetOrCreateConversation(j)
          PROVE  threads'[ph].id = threads[ph].id
        <2>1. CASE From(j) = ph
            <3>1. threads' = [threads EXCEPT ![ph] = [threads[ph] EXCEPT !.resident = local[j].who]]
                BY <1>2, <2>1 DEF GetOrCreateConversation
            <3> QED
                BY <1>0, <3>1
        <2>2. CASE From(j) # ph
            BY <1>0, <1>2, <2>2 DEF GetOrCreateConversation
        <2> QED
            BY <2>1, <2>2
    <1>3. ASSUME NEW j \in JobIds, InsertMessage(j)
          PROVE  threads'[ph].id = threads[ph].id
        <2>1. PICK v : threads' = [threads EXCEPT ![From(j)].authors = v]
            BY <1>3 DEF InsertMessage
        <2> QED
            BY <1>0, <2>1
    <1>4. ASSUME NEW k \in Phones, RemoveResident(k)
          PROVE  threads'[ph].id = threads[ph].id
        <2>1. owner[k] # 0 /\ owner' = [owner EXCEPT ![k] = 0] /\ threads' = Cascade(owner[k])
            BY <1>4 DEF RemoveResident, Removable, Removed
        <2>2. owner[ph] # owner[k]
            BY <1>0, <2>1
        <2> QED
            BY <1>0, <2>1, <2>2 DEF Cascade
    <1> QED
        BY <1>1, <1>2, <1>3, <1>4

\* A handler at work has a message of a phone in hand, and a resident who was
\* given his id.
LEMMA AtHand ==
    ASSUME TypeInv, NEW j \in JobIds, AtWork(j)
    PROVE  /\ From(j) \in Phones /\ local[j].who \in 1..registered
           /\ \A ph \in Phones : owner[ph] = local[j].who => ph = From(j)
           /\ j[1] \in Payloads /\ local[j].at \in 1..Len(content[j[1]])
           /\ Len(content[j[1]]) \in Nat /\ Event(j) \in Events
           /\ <<j[1], local[j].at>> \in EventIds
    <1>1. /\ From(j) \in Phones /\ local[j].who \in 1..registered
          /\ \A ph \in Phones : owner[ph] = local[j].who => ph = From(j)
        BY DEF TypeInv, PrivacyInv, HandlerInv
    <1>2. j[1] \in Payloads
        BY DEF JobIds
    <1>3. content[j[1]] \in Seq(Events) /\ local[j] \in Locals(registered, opened)
        BY <1>2 DEF TypeInv, PlacesInv
    <1>4. local[j].at \in Nat \ {0} /\ local[j].at <= Len(content[j[1]])
        BY <1>3 DEF TypeInv, PlacesInv, Locals
    <1>5. local[j].at \in 1..Len(content[j[1]]) /\ Len(content[j[1]]) \in Nat
        BY <1>3, <1>4
    <1>6. Event(j) \in Events
        BY <1>3, <1>5 DEF Event
    <1>7. <<j[1], local[j].at>> \in EventIds
        BY <1>2, <1>5 DEF EventIds
    <1> QED
        BY <1>1, <1>2, <1>5, <1>6, <1>7

\* The id that a handler appends under stays its resident's conversation's.
LEMMA ConversationsHold ==
    ASSUME TypeInv, CostsHold, [Next]_vars, NEW j \in JobIds,
           Inserting(j)', owner'[From(j)'] = local'[j].who
    PROVE  threads'[From(j)'].id = local'[j].thread
    <1>0. /\ content' = content /\ local \in [JobIds -> Locals(registered, opened)]
          /\ pc \in [JobIds -> Steps] /\ opened \in Nat
        BY StepGrows DEF Grows, TypeInv, PrivacyInv, LocalsInv, PlacesInv, ThreadsInv
    <1>1. CASE Still(j)
        <2>1. /\ Inserting(j) /\ AtWork(j) /\ From(j)' = From(j)
              /\ local'[j] = local[j]
            BY <1>0, <1>1 DEF Still, Inserting, AtWork, From, Event
        <2>2. From(j) \in Phones /\ local[j].who \in 1..registered
            BY <2>1, AtHand
        <2>3. owner'[From(j)] = owner[From(j)] /\ owner[From(j)] = local[j].who
            BY <2>1, <2>2, GoneForGood
        <2>4. threads[From(j)].id = local[j].thread /\ local[j].thread \in 1..opened
            BY <2>1, <2>3 DEF CostsHold, CostsInv, TypeInv, PrivacyInv, HandlerInv
        <2>5. threads[From(j)] # NoThread
            BY <2>4 DEF NoThread
        <2>6. threads'[From(j)].id = threads[From(j)].id
            BY <2>2, <2>3, <2>5, ConversationsStay
        <2> QED
            BY <2>1, <2>4, <2>6
    <1>2. CASE Dies(j)
        BY <1>2 DEF Dies, Inserting
    <1>3. CASE HandlerStep(j) \/ HandlerThrows(j)
        <2>1. Goes(j)
            BY <1>3, HandlerKinds DEF Kinds, Begins, Ends, Passes, Inserting
        <2>2. GetOrCreateConversation(j)
            <3>1. ~End({j}) /\ ~NextEvent(j) /\ pc'[j] \in {"insert", "out insert"}
                BY <1>0, <2>1 DEF Goes, End, NextEvent, GoTo, Inserting
            <3>2. Route(Event(j)) \notin {"insert", "out insert"}
                BY DEF Route
            <3>3. \A score : Gate(score) \notin {"insert", "out insert"}
                BY DEF Gate
            <3> QED
                BY <1>0, <1>3, <3>1, <3>2, <3>3 DEF HandlerStep, Memory, Work, TakeJob,
                   CompleteJob, Throws, FindResident, HandleSecretaryEvent, SkipUnregistered,
                   InsertMessage, BumpLastMessageAt, GetSession, SetSession, Escalate,
                   CheckStatus, FindComplainant, DrawTicket, FileComplaint, Classify,
                   CreateSuggestion, LogSuggestion, ReadHistory, SearchKnowledge, AskGemini,
                   ReplyMessage, ForeignKeyFails, TicketCollides, HandlerThrows, GoTo
        <2>3. AtWork(j) /\ From(j) \in Phones
            BY <2>2, AtHand DEF GetOrCreateConversation, AtWork
        <2>4. From(j)' = From(j)
            BY <1>0, <2>1 DEF Goes, From, Event
        <2> DEFINE old == threads[From(j)]
                   new == IF old = NoThread THEN [NoThread EXCEPT !.id = opened + 1] ELSE old
        <2>5. /\ threads' = [threads EXCEPT ![From(j)] = [new EXCEPT !.resident = local[j].who]]
              /\ local' = [local EXCEPT ![j].thread = new.id]
            BY <2>2 DEF GetOrCreateConversation
        <2>6. [new EXCEPT !.resident = local[j].who].id = new.id
            <3>1. old \in [id : 0..opened, resident : 0..registered,
                           authors : SUBSET (1..registered)]
                BY <2>3 DEF TypeInv, TablesInv
            <3> QED
                BY <3>1 DEF NoThread
        <2> HIDE DEF new
        <2>7. threads'[From(j)].id = new.id
            BY <2>3, <2>5, <2>6 DEF TypeInv, TablesInv
        <2>8. local'[j].thread = new.id
            BY <1>0, <2>5 DEF Locals
        <2> QED
            BY <2>4, <2>7, <2>8
    <1> QED
        BY <1>1, <1>2, <1>3, OneAtATime

\* The rows of complaints stay as they are.
LEMMA ComplaintsStay ==
    ASSUME TypeInv, [Next]_vars
    PROVE  /\ Len(complaints) \in Nat /\ Len(complaints') \in Nat
           /\ Len(complaints) <= Len(complaints')
           /\ \A i \in 1..Len(complaints) : complaints'[i] = complaints[i]
    <1>1. complaints \in Seq([resident : 1..registered, by : JobIds])
        BY DEF TypeInv, TablesInv
    <1>2. ASSUME NEW j \in JobIds, FileComplaint(j)
          PROVE  \E row : complaints' = Append(complaints, row)
        BY <1>2 DEF FileComplaint
    <1>3. ASSUME NEW row, complaints' = Append(complaints, row)
          PROVE  /\ Len(complaints') = Len(complaints) + 1
                 /\ \A i \in 1..Len(complaints) : complaints'[i] = complaints[i]
        BY <1>1, <1>3
    <1>4. Len(complaints) \in Nat
        BY <1>1
    <1> QED
        BY <1>2, <1>3, <1>4, ComplaintsFiled

\* A handler that has a ticket drew it, and keeps it until it files.
LEMMA TicketsAreDrawn ==
    ASSUME TypeInv, [Next]_vars, NEW j \in JobIds, Filing(j)'
    PROVE  \/ Filing(j) /\ local'[j].ticket = local[j].ticket /\ Still(j)
           \/ /\ ~Filing(j) /\ local'[j].ticket = Len(complaints) + 1
              /\ complaints' = complaints
    <1>0. /\ local \in [JobIds -> Locals(registered, opened)]
          /\ pc \in [JobIds -> Steps]
        BY DEF TypeInv, PrivacyInv, LocalsInv, PlacesInv
    <1>1. CASE Still(j)
        BY <1>1 DEF Still, Filing
    <1>2. CASE Dies(j)
        BY <1>2 DEF Dies, Filing
    <1>3. CASE HandlerStep(j) \/ HandlerThrows(j)
        <2>1. Goes(j)
            BY <1>3, HandlerKinds DEF Kinds, Begins, Ends, Passes, Filing
        <2>2. ~End({j}) /\ ~NextEvent(j) /\ pc'[j] = "file"
            BY <1>0, <2>1 DEF Goes, End, NextEvent, GoTo, Filing
        <2>3. ~SetSession(j) /\ ~SearchKnowledge(j)
            <3>1. Route(Event(j)) # "file" /\ \A score : Gate(score) # "file"
                BY DEF Route, Gate
            <3> QED
                BY <1>0, <2>2, <3>1 DEF SetSession, SearchKnowledge, GoTo
        <2>4. DrawTicket(j)
            BY <1>0, <1>3, <2>2, <2>3 DEF HandlerStep, Memory, Work, TakeJob,
               CompleteJob, Throws, FindResident, HandleSecretaryEvent, SkipUnregistered,
               GetOrCreateConversation, InsertMessage, BumpLastMessageAt, GetSession, Escalate,
               CheckStatus, FindComplainant, FileComplaint, Classify, CreateSuggestion,
               LogSuggestion, ReadHistory, AskGemini, ReplyMessage, ForeignKeyFails,
               TicketCollides, HandlerThrows, GoTo
        <2>5. local'[j].ticket = Len(complaints) + 1
            BY <1>0, <2>4 DEF DrawTicket, Locals
        <2> QED
            BY <2>4, <2>5 DEF DrawTicket, Filing, registry
    <1> QED
        BY <1>1, <1>2, <1>3, OneAtATime

\* What is filed while a handler has a ticket, others file.
LEMMA TicketsHold ==
    ASSUME TypeInv, CostsHold, [Next]_vars, NEW j \in JobIds, Filing(j)'
    PROVE  /\ local'[j].ticket \in 1..Len(complaints') + 1
           /\ \A i \in local'[j].ticket..Len(complaints') : complaints'[i].by # j
    <1>0. /\ Len(complaints) \in Nat /\ Len(complaints') \in Nat
          /\ Len(complaints) <= Len(complaints')
          /\ \A i \in 1..Len(complaints) : complaints'[i] = complaints[i]
        BY ComplaintsStay
    <1>1. CASE Filing(j) /\ local'[j].ticket = local[j].ticket /\ Still(j)
        <2>1. /\ local[j].ticket \in 1..Len(complaints) + 1
              /\ \A i \in local[j].ticket..Len(complaints) : complaints[i].by # j
            BY <1>1 DEF CostsHold, CostsInv
        <2>2. local'[j].ticket \in 1..Len(complaints') + 1
            BY <1>0, <1>1, <2>1
        <2>3. \A i \in local[j].ticket..Len(complaints) : complaints'[i].by # j
            BY <1>0, <2>1
        <2>4. CASE complaints' = complaints
            BY <1>1, <2>1, <2>4
        <2>5. ASSUME NEW k \in JobIds, FileComplaint(k)
              PROVE  \A i \in local[j].ticket..Len(complaints') : complaints'[i].by # j
            <3>1. pc[k] = "file" /\ pc'[k] = "reply" /\ pc'[j] = pc[j]
                BY <1>1, <2>5 DEF FileComplaint, GoTo, TypeInv, PrivacyInv, LocalsInv, Still
            <3>2. k # j
                BY <1>1, <3>1 DEF Filing
            <3>3. complaints' = Append(complaints, [resident |-> local[k].who, by |-> k])
                BY <2>5 DEF FileComplaint
            <3>4. complaints \in Seq([resident : 1..registered, by : JobIds])
                BY DEF TypeInv, TablesInv
            <3>5. /\ Len(complaints') = Len(complaints) + 1
                  /\ complaints'[Len(complaints) + 1].by = k
                BY <3>3, <3>4
            <3> QED
                BY <1>0, <2>1, <2>3, <3>2, <3>5
        <2> QED
            BY <1>1, <2>2, <2>4, <2>5, ComplaintsFiled
    <1>2. CASE local'[j].ticket = Len(complaints) + 1 /\ complaints' = complaints
        BY <1>0, <1>2
    <1> QED
        BY <1>1, <1>2, TicketsAreDrawn

\* Rows that count for a handler go on counting.
LEMMA SpentRowsGrow ==
    ASSUME TypeInv, CostsHold, [Next]_vars, NEW j \in JobIds
    PROVE  /\ SpentRows(j) \subseteq SpentRows(j)'
           /\ IsFiniteSet(SpentRows(j)) /\ IsFiniteSet(SpentRows(j)')
           /\ Cardinality(SpentRows(j)) \in Nat /\ Cardinality(SpentRows(j)') \in Nat
           /\ Cardinality(SpentRows(j)) <= Cardinality(SpentRows(j)')
    <1>0. /\ Len(complaints) \in Nat /\ Len(complaints') \in Nat
          /\ Len(complaints) <= Len(complaints')
          /\ \A i \in 1..Len(complaints) : complaints'[i] = complaints[i]
        BY ComplaintsStay
    <1>1. RowsSeen(j) \in 0..Len(complaints)
        <2>1. CASE Filing(j)
            <3>1. local[j].ticket \in 1..Len(complaints) + 1
                BY <2>1 DEF CostsHold, CostsInv
            <3> QED
                BY <1>0, <2>1, <3>1 DEF RowsSeen
        <2> QED
            BY <1>0, <2>1 DEF RowsSeen
    <1>2. RowsSeen(j)' \in Nat /\ RowsSeen(j) <= RowsSeen(j)'
        <2>1. CASE ~Filing(j)'
            BY <1>0, <1>1, <2>1 DEF RowsSeen
        <2>2. CASE Filing(j)' /\ Filing(j) /\ local'[j].ticket = local[j].ticket
            BY <1>1, <2>2 DEF RowsSeen
        <2>3. CASE Filing(j)' /\ ~Filing(j) /\ local'[j].ticket = Len(complaints) + 1
            BY <1>0, <2>3 DEF RowsSeen
        <2> QED
            BY <2>1, <2>2, <2>3, TicketsAreDrawn
    <1>3. SpentRows(j) \subseteq SpentRows(j)'
        BY <1>0, <1>1, <1>2 DEF SpentRows
    <1>4. IsFiniteSet(1..RowsSeen(j)) /\ IsFiniteSet(1..RowsSeen(j)')
        BY <1>1, <1>2, FS_Interval
    <1>5. IsFiniteSet(SpentRows(j)) /\ IsFiniteSet(SpentRows(j)')
        BY <1>4, FS_Subset DEF SpentRows
    <1> QED
        BY <1>3, <1>5, FS_CardinalityType, NoElementMore

\* An insert that collides is paid for by the row it collides with.
LEMMA CollisionPaidFor ==
    ASSUME TypeInv, CostsHold, [Next]_vars, NEW j \in JobIds, TicketCollides(j)
    PROVE  Cardinality(SpentRows(j)) + 1 <= Cardinality(SpentRows(j)')
    <1>0. /\ IsFiniteSet(SpentRows(j)) /\ IsFiniteSet(SpentRows(j)')
          /\ SpentRows(j) \subseteq SpentRows(j)'
        BY SpentRowsGrow
    <1>1. /\ Filing(j) /\ local[j].ticket \in DOMAIN complaints /\ complaints' = complaints
          /\ ~Filing(j)'
        BY DEF TicketCollides, TicketInUse, Filing, Throws, End, registry
    <1>2. complaints \in Seq([resident : 1..registered, by : JobIds])
        BY DEF TypeInv, TablesInv
    <1>3. local[j].ticket \in 1..Len(complaints)
        BY <1>1, <1>2
    <1>4. complaints[local[j].ticket].by # j
        <2>1. local[j].ticket \in local[j].ticket..Len(complaints)
            BY <1>3
        <2> QED
            BY <1>1, <2>1 DEF CostsHold, CostsInv
    <1>5. local[j].ticket \in SpentRows(j)'
        BY <1>1, <1>3, <1>4 DEF SpentRows, RowsSeen
    <1>6. local[j].ticket \notin SpentRows(j)
        BY <1>1, <1>3 DEF SpentRows, RowsSeen
    <1>7. /\ Cardinality(SpentRows(j) \cup {local[j].ticket}) = Cardinality(SpentRows(j)) + 1
          /\ IsFiniteSet(SpentRows(j) \cup {local[j].ticket})
        BY <1>0, <1>6, FS_AddElement
    <1>8. SpentRows(j) \cup {local[j].ticket} \subseteq SpentRows(j)'
        BY <1>0, <1>5
    <1> QED
        BY <1>0, <1>7, <1>8, FS_Subset

\* An attempt that finds a resident or a conversation gone, although nothing was
\* injected, is paid for by the handler's own resident.
LEMMA FailurePaidFor ==
    ASSUME TypeInv, CostsHold, NEW j \in JobIds, ForeignKeyFails(j)
    PROVE  Cardinality(Gone) = Cardinality(Spent(j)) + 1
    <1>1. AtWork(j) /\ local[j].who \in 1..registered /\ From(j) \in Phones
        BY AtHand DEF ForeignKeyFails, TicketCollides, AtWork
    <1>2. ~Live(local[j].who)
        <2>1. CASE pc[j] \in {"insert", "out insert"}
            <3>1. Inserting(j) /\ threads[From(j)].id # local[j].thread
                BY <2>1 DEF ForeignKeyFails, TicketCollides, Inserting
            <3>2. owner[From(j)] # local[j].who
                BY <3>1 DEF CostsHold, CostsInv
            <3> QED
                BY <1>1, <3>2, AtHand DEF Live
        <2>2. CASE pc[j] \notin {"insert", "out insert"}
            BY <2>2 DEF ForeignKeyFails, TicketCollides
        <2> QED
            BY <2>1, <2>2
    <1>3. local[j].who \in Gone /\ IsFiniteSet(Gone)
        <2>1. registered \in Nat
            BY InboundAssumption DEF TypeInv, TablesInv
        <2>2. IsFiniteSet(1..registered)
            BY <2>1, FS_Interval
        <2> QED
            BY <1>1, <1>2, <2>2, FS_Subset DEF Gone
    <1>4. Cardinality(Gone \ {local[j].who}) = Cardinality(Gone) - 1 /\ Cardinality(Gone) \in Nat
        BY <1>3, FS_RemoveElement, FS_CardinalityType
    <1> QED
        BY <1>1, <1>4 DEF Spent

\* What counts for a handler goes on counting.
LEMMA SpentGrows ==
    ASSUME TypeInv, [Next]_vars, NEW j \in JobIds
    PROVE  /\ Cardinality(Spent(j)) <= Cardinality(Spent(j)')
           /\ ~AtWork(j)' => Cardinality(Gone) <= Cardinality(Spent(j)')
           /\ Cardinality(Spent(j)) \in Nat /\ Cardinality(Spent(j)') \in Nat
    <1>0. IsFiniteSet(Gone) /\ IsFiniteSet(Gone') /\ Gone \subseteq Gone'
        BY GoneForGood
    <1>1. IsFiniteSet(Spent(j)) /\ IsFiniteSet(Spent(j)')
        BY <1>0, FS_Subset DEF Spent
    <1>2. Spent(j) \subseteq Gone /\ (~AtWork(j)' => Spent(j)' = Gone')
        BY DEF Spent
    <1>3. Spent(j) \subseteq Spent(j)'
        <2>1. CASE ~AtWork(j)'
            BY <1>0, <1>2, <2>1
        <2>2. CASE AtWork(j)' /\ AtWork(j)
            <3>1. local'[j].who = local[j].who
                <4>1. CASE Still(j)
                    BY <4>1 DEF Still
                <4>2. CASE Dies(j)
                    BY <2>2, <4>2 DEF Dies, AtWork
                <4>3. CASE HandlerStep(j) \/ HandlerThrows(j)
                    <5>1. Goes(j)
                        BY <2>2, <4>3, HandlerKinds DEF Kinds, Begins, Ends, Passes, AtWork
                    <5> QED
                        BY <2>2, <4>3, <5>1, ResidentStays
                <4> QED
                    BY <4>1, <4>2, <4>3, OneAtATime
            <3> QED
                BY <1>0, <2>2, <3>1 DEF Spent
        <2>3. CASE AtWork(j)' /\ ~AtWork(j)
            <3>1. /\ local \in [JobIds -> Locals(registered, opened)] /\ pc \in [JobIds -> Steps]
                  /\ local[j] \in Locals(registered, opened)
                BY DEF TypeInv, PlacesInv, PrivacyInv, LocalsInv
            <3>2. (HandlerStep(j) \/ HandlerThrows(j)) /\ Goes(j)
                BY <2>3, OneAtATime, HandlerKinds
                DEF Still, Dies, Kinds, Begins, Ends, Passes, AtWork
            <3>3. FindResident(j)
                <4>1. ~End({j}) /\ ~NextEvent(j) /\ pc[j] = "event" /\ pc'[j] # "event"
                    BY <2>3, <3>1, <3>2 DEF Goes, End, NextEvent, GoTo, AtWork, AtEvent
                <4> QED
                    BY <3>1, <3>2, <4>1 DEF HandlerStep, Memory, Work, TakeJob, CompleteJob,
                       Throws, HandleSecretaryEvent, SkipUnregistered, GetOrCreateConversation,
                       InsertMessage, BumpLastMessageAt, GetSession, SetSession, Escalate,
                       CheckStatus, FindComplainant, DrawTicket, FileComplaint, Classify,
                       CreateSuggestion, LogSuggestion, ReadHistory, SearchKnowledge, AskGemini,
                       ReplyMessage, ForeignKeyFails, TicketCollides, HandlerThrows, GoTo, AtEvent
            <3>4. local'[j].who = Sender(j) /\ owner' = owner /\ Live(Sender(j))
                BY <3>1, <3>3 DEF FindResident, Locals, registry, Live, Sender
            <3>5. Sender(j) \notin Gone'
                BY <3>4 DEF Gone, Live
            <3> QED
                BY <1>0, <1>2, <2>3, <3>4, <3>5 DEF Spent
        <2> QED
            BY <2>1, <2>2, <2>3
    <1> QED
        BY <1>0, <1>1, <1>2, <1>3, NoElementMore

\* Counters of a job are numbers, and a job is new with none.
LEMMA JobCounters ==
    ASSUME NEW x \in BoundedJob
    PROVE  /\ x.attempts \in Nat /\ x.stalls \in Nat
           /\ Taken(x).attempts = x.attempts /\ Taken(x).stalls = x.stalls
           /\ Completed(x).attempts = x.attempts /\ Completed(x).stalls = x.stalls
           /\ Retried(x).attempts = x.attempts + 1 /\ Retried(x).stalls = x.stalls
           /\ Stalled(x).attempts = x.attempts /\ Stalled(x).stalls = x.stalls + 1
           /\ NewJob.attempts = 0 /\ NewJob.stalls = 0 /\ NewJob.state = "waiting"
           /\ Taken(x).state = "active" /\ Completed(x).state = "completed"
    BY DEF BoundedJob, Taken, Completed, Retried, Stalled, NewJob, NoJob

\* The first part of CostsInv.
Paid(j) ==
    job[j].attempts + job[j].stalls <= faults + Cardinality(Spent(j)) + Cardinality(SpentRows(j))

\* Every step keeps the costs in balance.
LEMMA CostsStep == ASSUME TypeInv, CostsHold, [Next]_vars PROVE CostsHold'
    <1> SUFFICES ASSUME NEW j \in JobIds
                 PROVE  Paid(j)'
        <2>1. \A j \in JobIds : CostsInv(j)'
            BY ConversationsHold, TicketsHold DEF CostsInv, Paid
        <2> QED
            BY <2>1 DEF CostsHold
    <1>0. /\ job[j] \in BoundedJob /\ faults \in Nat /\ faults' \in Nat /\ faults <= faults'
          /\ Paid(j)
          /\ job[j].attempts \in Nat /\ job[j].stalls \in Nat
          /\ Cardinality(Spent(j)) <= Cardinality(Spent(j)')
          /\ Cardinality(Spent(j)) \in Nat /\ Cardinality(Spent(j)') \in Nat
          /\ Cardinality(SpentRows(j)) <= Cardinality(SpentRows(j)')
          /\ Cardinality(SpentRows(j)) \in Nat /\ Cardinality(SpentRows(j)') \in Nat
        <2>1. job[j] \in BoundedJob /\ faults \in Nat /\ faults' \in Nat /\ faults <= faults'
            BY StepGrows, InboundAssumption DEF Grows, TypeInv, JobsInv, TablesInv
        <2>2. Paid(j)
            BY DEF CostsHold, CostsInv, Paid
        <2> QED
            BY <2>1, <2>2, SpentGrows, SpentRowsGrow, JobCounters
    <1>1. ASSUME job'[j].attempts = job[j].attempts, job'[j].stalls = job[j].stalls
          PROVE  Paid(j)'
        BY <1>0, <1>1 DEF Paid
    <1>2. ASSUME job'[j].attempts + job'[j].stalls = job[j].attempts + job[j].stalls + 1, Fault
          PROVE  Paid(j)'
        BY <1>0, <1>2 DEF Fault, Paid
    <1>3. CASE Still(j)
        <2>1. CASE job'[j] = job[j]
            BY <1>1, <2>1
        <2>2. CASE job'[j] = NewJob
            BY <1>0, <2>2, JobCounters DEF Paid
        <2> QED
            BY <1>3, <2>1, <2>2 DEF Still
    <1>4. CASE Dies(j) /\ Crash
        <2>1. /\ job'[j].attempts = job[j].attempts /\ job'[j].stalls = job[j].stalls + 1
            BY <1>0, <1>4, JobCounters DEF Dies
        <2>2. job'[j].attempts + job'[j].stalls = job[j].attempts + job[j].stalls + 1
            BY <1>0, <2>1
        <2> QED
            BY <1>2, <1>4, <2>2 DEF Crash
    <1>5. CASE HandlerStep(j) \/ HandlerThrows(j)
        <2>1. CASE Begins(j) \/ Passes(j) \/ Goes(j)
            BY <1>0, <1>1, <2>1, JobCounters DEF Begins, Passes, Goes
        <2>2. CASE Ends(j) /\ job'[j] = Completed(job[j])
            BY <1>0, <1>1, <2>2, JobCounters
        <2>3. CASE Ends(j) /\ job'[j] = Retried(job[j])
            <3>1. job'[j].attempts = job[j].attempts + 1 /\ job'[j].stalls = job[j].stalls
                BY <1>0, <2>3, JobCounters
            <3>2. CASE HandlerThrows(j)
                <4>1. job'[j].attempts + job'[j].stalls = job[j].attempts + job[j].stalls + 1
                    BY <1>0, <3>1
                <4> QED
                    BY <1>2, <3>2, <4>1 DEF HandlerThrows
            <3>3. CASE ForeignKeyFails(j)
                <4>1. Cardinality(Gone) = Cardinality(Spent(j)) + 1
                    BY <3>3, FailurePaidFor
                <4>2. ~AtWork(j)'
                    BY <2>3 DEF Ends, AtWork
                <4>3. Cardinality(Gone) <= Cardinality(Spent(j)')
                    BY <4>2, SpentGrows
                <4> QED
                    BY <1>0, <3>1, <4>1, <4>3 DEF Paid
            <3>4. CASE CompleteJob(j)
                <4>1. job'[j] = Completed(job[j])
                    BY <3>4 DEF CompleteJob, TypeInv, JobsInv
                <4> QED
                    BY <2>2, <2>3, <4>1
            <3>5. CASE TicketCollides(j)
                <4>1. Cardinality(SpentRows(j)) + 1 <= Cardinality(SpentRows(j)')
                    BY <3>5, CollisionPaidFor
                <4> QED
                    BY <1>0, <3>1, <4>1 DEF Paid
            <3> QED
                BY <2>3, <3>2, <3>3, <3>4, <3>5 DEF Ends
        <2> QED
            BY <1>5, <2>1, <2>2, <2>3, HandlerKinds DEF Kinds, Ends
    <1> QED
        BY <1>3, <1>4, <1>5, OneAtATime

\* In the initial state nothing was tried.
LEMMA CostsInit == ASSUME Init PROVE CostsHold
    <1>1. \A j \in JobIds : job[j].attempts = 0 /\ job[j].stalls = 0 /\ ~Inserting(j) /\ ~AtWork(j)
                           /\ ~Filing(j)
        BY DEF Init, NoJob, Inserting, AtWork, Filing
    <1>2. \A j \in JobIds : Spent(j) = {} /\ SpentRows(j) = {}
        BY <1>1 DEF Init, Spent, Gone, SpentRows, RowsSeen
    <1>3. Cardinality({}) = 0 /\ faults = 0
        BY FS_EmptySet DEF Init
    <1>4. ASSUME NEW j \in JobIds
          PROVE  job[j].attempts + job[j].stalls
                     <= faults + Cardinality(Spent(j)) + Cardinality(SpentRows(j))
        BY <1>1, <1>2, <1>3
    <1> QED
        BY <1>1, <1>4 DEF CostsHold, CostsInv

\* Everyone registered who is not gone has a phone of his own.
LEMMA GoneAreRemovals ==
    ASSUME TypeInv
    PROVE  /\ IsFiniteSet(Gone) /\ Cardinality(Gone) \in Nat /\ Removals \in Int
           /\ Cardinality(Gone) <= Removals
    <1> DEFINE phones == {ph \in Phones : owner[ph] # 0}
               live == (1..registered) \ Gone
               his == [ph \in phones |-> owner[ph]]
    <1>0. /\ registered \in Nat /\ owner \in [Phones -> 0..registered]
          /\ \A ph, other \in Phones : owner[ph] = owner[other] /\ owner[ph] # 0 => ph = other
        BY InboundAssumption DEF TypeInv, TablesInv, PrivacyInv, RegistryInv
    <1>1. IsFiniteSet(1..registered) /\ Cardinality(1..registered) = registered
        BY <1>0, FS_Interval
    <1>2. /\ Gone \subseteq 1..registered /\ IsFiniteSet(Gone) /\ IsFiniteSet(live)
          /\ Cardinality(live) \in Nat /\ Cardinality(Gone) \in Nat
        BY <1>1, FS_Subset, FS_CardinalityType DEF Gone
    <1>3. Cardinality(live) = registered - Cardinality(Gone)
        <2>1. (1..registered) \cap Gone = Gone
            BY <1>2
        <2>2. Cardinality(live) =
                  Cardinality(1..registered) - Cardinality((1..registered) \cap Gone)
            BY <1>1, FS_Difference
        <2> QED
            BY <1>1, <2>1, <2>2
    <1>4. his \in Injection(phones, live)
        <2>1. \A ph \in phones : owner[ph] \in live
            BY <1>0 DEF Gone, Live
        <2> QED
            BY <1>0, <2>1 DEF Injection, IsInjective
    <1>5. IsFiniteSet(phones) /\ Cardinality(phones) <= Cardinality(live)
        <2> HIDE DEF phones, live, his
        <2> QED
            BY <1>2, <1>4, FS_Injection DEF ExistsInjection
    <1>6. Cardinality(phones) \in Nat
        BY <1>5, FS_CardinalityType
    <1>7. Removals = registered - Cardinality(phones)
        BY DEF Removals
    <1> HIDE DEF phones, live
    <1> QED
        BY <1>0, <1>2, <1>3, <1>5, <1>6, <1>7

\* An attempt of a job fails for a fault, for the removal of a resident, or for a
\* ticket that another handler was faster to file, and each removal and each row of
\* another handler's costs a job one attempt at most: the next attempt finds the
\* resident unregistered, and draws a later ticket.
THEOREM InboundAttemptsArePaidFor == Spec => []AttemptsHaveCauses
    <1>1. TypeInv /\ CostsHold => AttemptsHaveCauses
        <2> SUFFICES ASSUME TypeInv, CostsHold, NEW j \in JobIds
                     PROVE  job[j].attempts + job[j].stalls
                                <= faults + Removals + Cardinality(Rivals(j))
            BY DEF AttemptsHaveCauses
        <2>1. faults \in Nat /\ job[j].attempts \in Nat /\ job[j].stalls \in Nat
            <3>1. faults \in Nat
                BY InboundAssumption DEF TypeInv, TablesInv
            <3>2. job[j] \in BoundedJob
                BY DEF TypeInv, JobsInv
            <3> QED
                BY <3>1, <3>2, JobCounters
        <2>2. Cardinality(Spent(j)) <= Cardinality(Gone) /\ Cardinality(Spent(j)) \in Nat
            BY GoneAreRemovals, NoElementMore DEF Spent
        <2>3. Cardinality(Gone) \in Nat /\ Removals \in Int /\ Cardinality(Gone) <= Removals
            BY GoneAreRemovals
        <2>4. Paid(j)
            BY DEF CostsHold, CostsInv, Paid
        <2>5. complaints \in Seq([resident : 1..registered, by : JobIds])
            BY DEF TypeInv, TablesInv
        <2>6. Len(complaints) \in Nat /\ DOMAIN complaints = 1..Len(complaints)
            BY <2>5
        <2>7. RowsSeen(j) \in 0..Len(complaints)
            <3>1. CASE Filing(j)
                <4>1. local[j].ticket \in 1..Len(complaints) + 1
                    BY <3>1 DEF CostsHold, CostsInv
                <4> QED
                    BY <2>6, <3>1, <4>1 DEF RowsSeen
            <3> QED
                BY <2>6, <3>1 DEF RowsSeen
        <2>8. SpentRows(j) \subseteq Rivals(j)
            BY <2>6, <2>7 DEF SpentRows, Rivals
        <2>9. IsFiniteSet(Rivals(j))
            <3>1. IsFiniteSet(1..Len(complaints))
                BY <2>6, FS_Interval
            <3> QED
                BY <2>6, <3>1, FS_Subset DEF Rivals
        <2>10. /\ Cardinality(SpentRows(j)) <= Cardinality(Rivals(j))
               /\ Cardinality(SpentRows(j)) \in Nat /\ Cardinality(Rivals(j)) \in Nat
            BY <2>8, <2>9, FS_Subset, FS_CardinalityType
        <2> QED
            BY <2>1, <2>2, <2>3, <2>4, <2>10 DEF Paid
    <1> QED
        BY <1>1, TypeInit, TypeStep, CostsInit, CostsStep, PTL DEF Spec

-----------------------------------------------------------------------------
(* Where a handler goes with an event, and what it does for it.            *)

Leads(j, from, to) == pc[j] = from /\ pc'[j] = to

\* Without a trace in "did";
Silently(j) ==
    \/ Leads(j, "event", "thread")
    \/ Leads(j, "thread", "insert") \/ Leads(j, "out thread", "out insert")
    \/ Leads(j, "insert", "bump") \/ Leads(j, "out insert", "out bump")
    \/ Leads(j, "bump", "get session") \/ Leads(j, "get session", "set session")
    \/ Leads(j, "set session", Route(Event(j)))
    \/ Leads(j, "complain", "count") \/ Leads(j, "count", "file")
    \/ Leads(j, "status", "reply") \/ Leads(j, "log suggestion", "reply")
    \/ Leads(j, "classify", "suggest") \/ Leads(j, "history", "search")
    \/ Leads(j, "search", "unknown") \/ Leads(j, "search", "ask")
\* or with one.
Visibly(j) ==
    \/ Leads(j, "file", "reply") /\ Does(j, "filed")
    \/ Leads(j, "suggest", "log suggestion") /\ Does(j, "suggested")
    \/ Leads(j, "ask", "reply") /\ Does(j, "asked")
    \/ Leads(j, "reply", "out thread") /\ Does(j, "replied")
    \/ Leads(j, "escalate", "reply") /\ Escalate(j)
    \/ Leads(j, "unknown", "reply") /\ Escalate(j)

\* These are the ways of a handler.
LEMMA HandlerWays ==
    ASSUME TypeInv, NEW j \in JobIds, HandlerStep(j) \/ HandlerThrows(j)
    PROVE  /\ Goes(j) => (Silently(j) /\ did' = did) \/ Visibly(j)
           /\ Passes(j) => \/ pc[j] = "event" /\ (Does(j, "commanded") \/ Does(j, "skipped"))
                           \/ pc[j] = "out bump" /\ did' = did
           /\ Begins(j) \/ Ends(j) => did' = did
    <1>0. pc \in [JobIds -> Steps]
        BY DEF TypeInv, PrivacyInv, LocalsInv
    <1>1. ASSUME Goes(j)
          PROVE  (Silently(j) /\ did' = did) \/ Visibly(j)
        <2>1. ~End({j}) /\ ~NextEvent(j) /\ pc'[j] \notin {"idle", "event"}
            BY <1>0, <1>1 DEF Goes, End, NextEvent, GoTo
        <2>2. ASSUME ~Escalate(j), ~FileComplaint(j), ~CreateSuggestion(j), ~AskGemini(j),
                     ~ReplyMessage(j), ~SearchKnowledge(j)
              PROVE  Silently(j) /\ did' = did
            BY <1>0, <2>1, <2>2 DEF HandlerStep, Memory, Work, TakeJob, CompleteJob,
               HandleSecretaryEvent, FindResident, SkipUnregistered, GetOrCreateConversation,
               InsertMessage, BumpLastMessageAt, GetSession, SetSession, CheckStatus,
               FindComplainant, DrawTicket, Classify, LogSuggestion, ReadHistory,
               ForeignKeyFails, TicketCollides, HandlerThrows, Throws, GoTo, Silently, Leads,
               AtEvent, trace
        <2>3. CASE SearchKnowledge(j)
            <3>1. PICK score : GoTo(j, Gate(score))
                BY <2>3 DEF SearchKnowledge
            <3>2. Gate(score) = "unknown" \/ Gate(score) = "ask"
                BY DEF Gate
            <3> QED
                BY <1>0, <2>3, <3>1, <3>2 DEF SearchKnowledge, GoTo, Silently, Leads, trace
        <2>4. CASE FileComplaint(j) \/ CreateSuggestion(j) \/ AskGemini(j) \/ ReplyMessage(j)
            BY <1>0, <2>4 DEF FileComplaint, CreateSuggestion, AskGemini, ReplyMessage, GoTo,
               Visibly, Leads
        <2>5. CASE Escalate(j)
            <3>1. pc[j] \in {"escalate", "unknown"} /\ pc'[j] = "reply"
                BY <1>0, <2>5 DEF Escalate, GoTo
            <3> QED
                BY <2>5, <3>1 DEF Visibly, Leads
        <2> QED
            BY <2>2, <2>3, <2>4, <2>5
    <1>2. ASSUME Passes(j)
          PROVE  \/ pc[j] = "event" /\ (Does(j, "commanded") \/ Does(j, "skipped"))
                 \/ pc[j] = "out bump" /\ did' = did
        <2>1. pc'[j] = "event" /\ (pc[j] = "event" \/ pc[j] = "out bump") /\ job'[j] = job[j]
            BY <1>2 DEF Passes, AtEvent
        <2>2. ~End({j}) /\ ~GoTo(j, "thread")
            BY <1>0, <2>1 DEF End, GoTo
        <2>3. job[j].state = "waiting" => job'[j] # job[j] \/ ~TakeJob(j)
            BY JobCounters DEF TakeJob, TypeInv, JobsInv
        <2>4. ~TakeJob(j)
            BY <2>1, <2>3 DEF TakeJob
        <2> QED
            BY <2>1, <2>2, <2>4 DEF AtEvent, HandlerStep, Memory, Work, CompleteJob,
               HandleSecretaryEvent, FindResident, SkipUnregistered, GetOrCreateConversation,
               InsertMessage, BumpLastMessageAt, GetSession, SetSession, Escalate, CheckStatus,
               FindComplainant, DrawTicket, FileComplaint, Classify, CreateSuggestion,
               LogSuggestion, ReadHistory, SearchKnowledge, AskGemini, ReplyMessage,
               ForeignKeyFails, TicketCollides, HandlerThrows, Throws, trace
    <1>3. ASSUME Begins(j) \/ Ends(j)
          PROVE  did' = did
        <2>1. CASE Begins(j)
            <3>1. pc[j] = "idle" /\ pc'[j] = "event"
                BY <2>1 DEF Begins, TypeInv, JobsInv
            <3> QED
                BY <3>1 DEF AtEvent, HandlerStep, Memory, Work, TakeJob, CompleteJob,
                   HandleSecretaryEvent, FindResident, SkipUnregistered, GetOrCreateConversation,
                   InsertMessage, BumpLastMessageAt, GetSession, SetSession, Escalate,
                   CheckStatus, FindComplainant, DrawTicket, FileComplaint, Classify,
                   CreateSuggestion, LogSuggestion, ReadHistory, SearchKnowledge, AskGemini,
                   ReplyMessage, ForeignKeyFails, TicketCollides, HandlerThrows, Throws, trace
        <2>2. CASE Ends(j)
            BY <2>2 DEF Ends, CompleteJob, ForeignKeyFails, TicketCollides, HandlerThrows, trace
        <2> QED
            BY <1>3, <2>1, <2>2
    <1> QED
        BY <1>1, <1>2, <1>3

\* What was done for an event stays done.
LEMMA DeedsStay ==
    ASSUME TypeInv, [Next]_vars, NEW e \in EventIds
    PROVE  did[e] \subseteq did'[e]
    BY TraceSteps DEF Does, TypeInv, TraceInv

-----------------------------------------------------------------------------
(* What repeats cost: every time an event is appended is in a try of its   *)
(* own, the one under way or one that ended.                               *)

HasHeard(j, i) ==
    \/ job[j].state = "completed"
    \/ local[j].at > i
    \/ local[j].at = i /\ pc[j] \notin {"idle", "event", "thread", "insert"}
HeardIn(j, i, n) ==
    /\ job[j].state # "absent"
    /\ \/ n <= job[j].attempts + job[j].stalls
       \/ n = 1 + job[j].attempts + job[j].stalls /\ HasHeard(j, i)

TrySlots == (1..MaxDeliveries) \X (1..MaxAttempts + MaxStalls + 2)
HeardTries(e) == {t \in TrySlots : HeardIn(<<e[1], t[1]>>, e[2], t[2])}

RepeatsHold == \A e \in EventIds : heard[e] <= Cardinality(HeardTries(e))

\* Tries are finitely many.
LEMMA TriesAreFinite ==
    ASSUME NEW T, T \subseteq TrySlots
    PROVE  IsFiniteSet(T) /\ Cardinality(T) \in Nat
    <1>1. /\ MaxDeliveries \in Int /\ MaxAttempts + MaxStalls + 2 \in Int /\ 1 \in Int
        BY InboundAssumption, JobsAssumption
    <1>2. IsFiniteSet(1..MaxDeliveries) /\ IsFiniteSet(1..MaxAttempts + MaxStalls + 2)
        BY <1>1, FS_Interval
    <1>3. IsFiniteSet(TrySlots)
        BY <1>2, FS_Product DEF TrySlots
    <1> QED
        BY <1>3, FS_Subset, FS_CardinalityType

\* A try that heard an event is one that heard it for ever.
LEMMA TriesStay ==
    ASSUME TypeInv, [Next]_vars, NEW j \in JobIds, NEW i \in Nat \ {0}, NEW n \in Nat,
           HeardIn(j, i, n)
    PROVE  HeardIn(j, i, n)'
    <1>0. /\ job[j] \in BoundedJob /\ job[j].attempts \in Nat /\ job[j].stalls \in Nat
          /\ local[j].at \in Nat \ {0}
          /\ pc[j] = "idle" => local[j] = NoLocals
          /\ pc[j] # "idle" <=> job[j].state = "active"
        <2>1. local[j] \in Locals(registered, opened) /\ job[j] \in BoundedJob
            BY DEF TypeInv, JobsInv, PlacesInv
        <2> QED
            BY <2>1, JobCounters DEF TypeInv, JobsInv, PlacesInv, Locals
    <1>1. CASE Still(j)
        BY <1>1 DEF Still, HeardIn, HasHeard
    <1>2. CASE Dies(j)
        <2>1. /\ job'[j].attempts = job[j].attempts /\ job'[j].stalls = job[j].stalls + 1
              /\ job'[j].state # "absent"
            BY <1>0, <1>2, JobCounters, JobTransitions DEF Dies, TypeInv, JobsInv
        <2> QED
            BY <1>0, <2>1 DEF HeardIn
    <1>3. CASE Begins(j)
        <2>1. /\ job'[j].attempts = job[j].attempts /\ job'[j].stalls = job[j].stalls
              /\ job'[j].state = "active" /\ job[j].state = "waiting"
              /\ local'[j] = local[j] /\ local[j].at = 1
            BY <1>0, <1>3, JobCounters DEF Begins, NoLocals
        <2>2. ~HasHeard(j, i)
            BY <1>0, <2>1 DEF HasHeard
        <2> QED
            BY <2>1, <2>2 DEF HeardIn
    <1>4. CASE Ends(j)
        <2>1. CASE job'[j] = Completed(job[j])
            <3>1. /\ job'[j].attempts = job[j].attempts /\ job'[j].stalls = job[j].stalls
                  /\ job'[j].state = "completed"
                BY <1>0, <2>1, JobCounters
            <3> QED
                BY <3>1 DEF HeardIn, HasHeard
        <2>2. CASE job'[j] = Retried(job[j])
            <3>1. /\ job'[j].attempts = job[j].attempts + 1 /\ job'[j].stalls = job[j].stalls
                  /\ job'[j].state # "absent"
                BY <1>0, <1>4, <2>2, JobCounters, JobTransitions DEF Ends, TypeInv, JobsInv
            <3> QED
                BY <1>0, <3>1 DEF HeardIn
        <2> QED
            BY <1>4, <2>1, <2>2 DEF Ends
    <1>5. CASE Passes(j)
        <2>1. job'[j] = job[j] /\ local'[j].at = local[j].at + 1
            BY <1>5 DEF Passes, NoLocals
        <2>2. job[j].state = "active"
            BY <1>0, <1>5 DEF Passes, AtEvent
        <2>3. HasHeard(j, i) => HasHeard(j, i)'
            BY <1>0, <2>1, <2>2 DEF HasHeard
        <2> QED
            BY <2>1, <2>3 DEF HeardIn
    <1>6. CASE Goes(j) /\ (HandlerStep(j) \/ HandlerThrows(j))
        <2>1. job'[j] = job[j] /\ local'[j].at = local[j].at
            BY <1>6 DEF Goes
        <2>2. pc[j] \notin {"idle", "event", "thread", "insert"} =>
                  pc'[j] \notin {"idle", "event", "thread", "insert"}
            <3>1. Route(Event(j)) \notin {"idle", "event", "thread", "insert"}
                BY DEF Route
            <3> QED
                BY <1>6, <3>1, HandlerWays DEF Silently, Visibly, Leads
        <2>3. HasHeard(j, i) => HasHeard(j, i)'
            BY <2>1, <2>2 DEF HasHeard
        <2> QED
            BY <2>1, <2>3 DEF HeardIn
    <1> QED
        BY <1>1, <1>2, <1>3, <1>4, <1>5, <1>6, OneAtATime, HandlerKinds DEF Kinds

\* Every step keeps the balance: appending an event is a try's first time.
LEMMA RepeatsStep == ASSUME TypeInv, RepeatsHold, [Next]_vars PROVE RepeatsHold'
    <1>0. EventIds' = EventIds /\ heard \in [EventIds -> Nat]
        BY StepGrows DEF Grows, EventIds, TypeInv, TraceInv
    <1> SUFFICES ASSUME NEW e \in EventIds
                 PROVE  heard'[e] <= Cardinality(HeardTries(e)')
        BY <1>0 DEF RepeatsHold
    <1>1. PICK p \in Payloads, i \in Nat \ {0} : e = <<p, i>>
        <2>1. PICK p \in Payloads : e \in {p} \X (1..Len(content[p]))
            BY DEF EventIds
        <2>2. content[p] \in Seq(Events)
            BY DEF TypeInv, PlacesInv
        <2> QED
            BY <2>1, <2>2
    <1>2. HeardTries(e) \subseteq HeardTries(e)'
        <2> SUFFICES ASSUME NEW t \in TrySlots, HeardIn(<<p, t[1]>>, i, t[2])
                     PROVE  HeardIn(<<p, t[1]>>, i, t[2])'
            BY <1>1 DEF HeardTries
        <2>1. <<p, t[1]>> \in JobIds /\ t[2] \in Nat
            BY DEF TrySlots, JobIds
        <2> QED
            BY <2>1, TriesStay
    <1>3. /\ IsFiniteSet(HeardTries(e)) /\ IsFiniteSet(HeardTries(e)')
          /\ Cardinality(HeardTries(e)) \in Nat /\ Cardinality(HeardTries(e)') \in Nat
          /\ HeardTries(e) \subseteq TrySlots
        BY TriesAreFinite DEF HeardTries
    <1>4. Cardinality(HeardTries(e)) <= Cardinality(HeardTries(e)')
        BY <1>2, <1>3, NoElementMore
    <1>5. CASE heard'[e] = heard[e]
        BY <1>0, <1>3, <1>4, <1>5 DEF RepeatsHold
    <1>6. ASSUME NEW j \in JobIds, pc[j] = "insert", InsertMessage(j), heard'[e] # heard[e]
          PROVE  heard'[e] <= Cardinality(HeardTries(e)')
        <2>1. e = <<j[1], local[j].at>> /\ heard'[e] = heard[e] + 1
            BY <1>0, <1>6 DEF InsertMessage
        <2>2. j = <<p, j[2]>> /\ i = local[j].at /\ j[2] \in 1..MaxDeliveries
            BY <1>1, <2>1 DEF JobIds
        <2>3. /\ job[j] \in BoundedJob /\ job[j].state = "active" /\ job' = job
              /\ local' = local /\ pc'[j] = "bump"
            BY <1>6 DEF InsertMessage, GoTo, TypeInv, JobsInv, PrivacyInv, LocalsInv
        <2>4. PICK n \in 1..MaxAttempts + MaxStalls + 2 :
                  n = 1 + job[j].attempts + job[j].stalls
            BY <2>3, JobsAssumption DEF BoundedJob
        <2> DEFINE t == <<j[2], n>>
        <2>5. t \in TrySlots
            BY <2>2, <2>4 DEF TrySlots
        <2>6. ~HeardIn(j, i, n)
            <3>1. ~HasHeard(j, i)
                BY <1>6, <2>2, <2>3 DEF HasHeard
            <3>2. ~(n <= job[j].attempts + job[j].stalls)
                BY <2>3, <2>4, JobCounters
            <3> QED
                BY <3>1, <3>2 DEF HeardIn
        <2>7. HeardIn(j, i, n)'
            BY <2>2, <2>3, <2>4 DEF HeardIn, HasHeard
        <2>8. /\ <<e[1], t[1]>> = j /\ e[2] = i /\ t[2] = n
            BY <1>1, <2>2
        <2> HIDE DEF t
        <2>12. t \notin HeardTries(e)
            BY <2>6, <2>8 DEF HeardTries
        <2>13. t \in HeardTries(e)'
            BY <2>5, <2>7, <2>8 DEF HeardTries
        <2>9. Cardinality(HeardTries(e) \cup {t}) = Cardinality(HeardTries(e)) + 1
            BY <1>3, <2>12, FS_AddElement
        <2>10. Cardinality(HeardTries(e) \cup {t}) <= Cardinality(HeardTries(e)')
            BY <1>2, <1>3, <2>13, NoElementMore
        <2>11. heard[e] <= Cardinality(HeardTries(e)) /\ heard[e] \in Nat
            BY <1>0 DEF RepeatsHold
        <2> QED
            BY <1>3, <2>1, <2>9, <2>10, <2>11
    <1> QED
        BY <1>5, <1>6, TraceSteps

\* An event is appended again, and answered again, only because its payload was
\* delivered again or an attempt at it failed, were it for another event's sake.
THEOREM InboundRepeatsArePaidFor == Spec => []RepeatsCostTries
    <1>1. ASSUME Init PROVE RepeatsHold
        <2>1. \A e \in EventIds : heard[e] = 0 /\ Cardinality(HeardTries(e)) \in Nat
            BY <1>1, TriesAreFinite DEF Init, HeardTries
        <2> QED
            BY <2>1 DEF RepeatsHold
    <1>2. TypeInv /\ RepeatsHold => RepeatsCostTries
        <2> SUFFICES ASSUME TypeInv, RepeatsHold, NEW e \in EventIds
                     PROVE  heard[e] <= Cardinality(Tries(e[1]))
            BY DEF RepeatsCostTries
        <2>1. e[1] \in Payloads
            BY DEF EventIds
        <2>2. HeardTries(e) \subseteq Tries(e[1])
            <3> SUFFICES ASSUME NEW t \in TrySlots, HeardIn(<<e[1], t[1]>>, e[2], t[2])
                         PROVE  t \in Tries(e[1])
                BY DEF HeardTries
            <3>1. <<e[1], t[1]>> \in JobIds
                BY <2>1 DEF TrySlots, JobIds
            <3> DEFINE x == job[<<e[1], t[1]>>]
            <3>2. x \in BoundedJob
                BY <3>1 DEF TypeInv, JobsInv
            <3>3. x.attempts \in Nat /\ x.stalls \in Nat /\ t[2] \in Nat
                BY <3>2, JobCounters DEF TrySlots
            <3> DEFINE latest == IF x.state \in {"active", "completed"} THEN 1 ELSE 0
            <3>4. HasHeard(<<e[1], t[1]>>, e[2]) => latest = 1
                <4>1. /\ e[2] \in Nat \ {0}
                      /\ pc[<<e[1], t[1]>>] = "idle" => local[<<e[1], t[1]>>] = NoLocals
                      /\ pc[<<e[1], t[1]>>] # "idle" => x.state = "active"
                    BY <2>1, <3>1 DEF EventIds, TypeInv, JobsInv, PlacesInv
                <4> QED
                    BY <4>1 DEF HasHeard, NoLocals
            <3>5. x.state # "absent" /\ t[2] <= x.attempts + x.stalls + latest
                <4> HIDE DEF x
                <4>1. latest \in {0, 1}
                    OBVIOUS
                <4>2. \/ t[2] <= x.attempts + x.stalls
                      \/ t[2] = 1 + x.attempts + x.stalls /\ HasHeard(<<e[1], t[1]>>, e[2])
                    BY DEF HeardIn, x
                <4>3. x.state # "absent"
                    BY DEF HeardIn, x
                <4> HIDE DEF latest
                <4> QED
                    BY <3>3, <3>4, <4>1, <4>2, <4>3
            <3> QED
                BY <3>5 DEF Tries, TrySlots
        <2>3. Tries(e[1]) \subseteq TrySlots
            BY DEF Tries, TrySlots
        <2>4. /\ IsFiniteSet(Tries(e[1])) /\ Cardinality(Tries(e[1])) \in Nat
              /\ Cardinality(HeardTries(e)) \in Nat
            BY <2>2, <2>3, TriesAreFinite
        <2>5. Cardinality(HeardTries(e)) <= Cardinality(Tries(e[1]))
            BY <2>2, <2>4, NoElementMore
        <2>6. heard[e] \in Nat
            BY DEF TypeInv, TraceInv
        <2> QED
            BY <2>4, <2>5, <2>6 DEF RepeatsHold
    <1> QED
        BY <1>1, <1>2, TypeInit, TypeStep, RepeatsStep, PTL DEF Spec

-----------------------------------------------------------------------------
(* What a handler leaves behind it: every event it has passed is answered. *)

Answered(e) == did[e] \cap {"replied", "commanded", "skipped"} # {}
Outbound == {"out thread", "out insert", "out bump"}

\* The events before the one at hand are answered, the one at hand too once its
\* answer is being appended, and all of them when the job is done.
AnswersInv(j) ==
    \A i \in 1..Len(content[j[1]]) :
        (\/ i < local[j].at
         \/ i = local[j].at /\ pc[j] \in Outbound
         \/ job[j].state = "completed") => Answered(<<j[1], i>>)
AnswersHold == \A j \in JobIds : AnswersInv(j)

\* A step leaves no event behind it that is not answered.
LEMMA AnswersStep == ASSUME TypeInv, AnswersHold, [Next]_vars PROVE AnswersHold'
    <1>0. JobIds' = JobIds /\ EventIds' = EventIds /\ content' = content
        BY StepGrows DEF Grows, EventIds, JobIds
    <1> SUFFICES ASSUME NEW j \in JobIds, NEW i \in 1..Len(content[j[1]]),
                        \/ i < local'[j].at
                        \/ i = local'[j].at /\ pc'[j] \in Outbound
                        \/ job'[j].state = "completed"
                 PROVE  Answered(<<j[1], i>>)'
        BY <1>0 DEF AnswersHold, AnswersInv
    <1>1. /\ <<j[1], i>> \in EventIds /\ j[1] \in Payloads
          /\ Len(content[j[1]]) \in Nat /\ i \in Nat \ {0}
        <2>1. j[1] \in Payloads /\ content[j[1]] \in Seq(Events)
            BY DEF JobIds, TypeInv, PlacesInv
        <2> QED
            BY <2>1 DEF EventIds
    <1>2. ASSUME Answered(<<j[1], i>>)
          PROVE  Answered(<<j[1], i>>)'
        <2>1. did[<<j[1], i>>] \subseteq did'[<<j[1], i>>]
            BY <1>1, DeedsStay
        <2> QED
            BY <1>2, <2>1 DEF Answered
    <1>3. /\ i < local[j].at => Answered(<<j[1], i>>)
          /\ i = local[j].at /\ pc[j] \in Outbound => Answered(<<j[1], i>>)
          /\ job[j].state = "completed" => Answered(<<j[1], i>>)
        BY DEF AnswersHold, AnswersInv
    <1>4. /\ job[j] \in BoundedJob /\ HasAttemptsLeft(job[j])
          /\ pc[j] # "idle" <=> job[j].state = "active"
          /\ local[j].at \in Nat \ {0}
        <2>1. local[j] \in Locals(registered, opened) /\ job[j] \in BoundedJob
            BY DEF TypeInv, JobsInv, PlacesInv
        <2> QED
            BY <2>1 DEF TypeInv, JobsInv, Locals
    <1>5. ~(i < NoLocals.at)
        BY <1>1 DEF NoLocals
    <1>6. CASE Still(j)
        <2>1. job'[j].state = "completed" => job[j].state = "completed"
            BY <1>4, <1>6, JobCounters DEF Still
        <2> QED
            BY <1>2, <1>3, <1>6, <2>1 DEF Still
    <1>7. CASE Dies(j)
        <2>1. job'[j].state # "completed"
            BY <1>4, <1>7, JobTransitions DEF Dies
        <2> QED
            BY <1>5, <1>7, <2>1 DEF Dies, Outbound
    <1>8. CASE Begins(j)
        <2>1. job'[j].state # "completed"
            BY <1>4, <1>8, JobCounters DEF Begins
        <2> QED
            BY <1>2, <1>3, <1>8, <2>1 DEF Begins, Outbound
    <1>9. CASE Ends(j)
        <2>1. CASE CompleteJob(j)
            <3>1. i < local[j].at
                BY <1>1, <1>4, <2>1 DEF CompleteJob
            <3> QED
                BY <1>2, <1>3, <3>1
        <2>2. CASE job'[j] = Retried(job[j])
            <3>1. job'[j].state # "completed"
                BY <1>4, <1>9, <2>2, JobTransitions DEF Ends
            <3> QED
                BY <1>5, <1>9, <3>1 DEF Ends, Outbound
        <2> QED
            BY <1>9, <2>1, <2>2 DEF Ends
    <1>10. CASE Passes(j) /\ (HandlerStep(j) \/ HandlerThrows(j))
        <2>1. local'[j].at = local[j].at + 1 /\ pc'[j] = "event" /\ job'[j] = job[j]
            BY <1>10 DEF Passes, NoLocals
        <2>2. job[j].state = "active"
            BY <1>4, <1>10 DEF Passes, AtEvent
        <2>3. i < local[j].at \/ i = local[j].at
            BY <1>1, <1>4, <2>1, <2>2 DEF Outbound
        <2>4. CASE i = local[j].at /\ (Does(j, "commanded") \/ Does(j, "skipped"))
            <3>1. did'[<<j[1], i>>] = did[<<j[1], i>>] \cup {"commanded"}
                  \/ did'[<<j[1], i>>] = did[<<j[1], i>>] \cup {"skipped"}
                BY <1>1, <2>4 DEF Does, TypeInv, TraceInv
            <3> QED
                BY <3>1 DEF Answered
        <2> QED
            BY <1>2, <1>3, <1>10, <2>3, <2>4, HandlerWays DEF Outbound
    <1>11. CASE Goes(j) /\ (HandlerStep(j) \/ HandlerThrows(j))
        <2>1. local'[j].at = local[j].at /\ job'[j] = job[j]
            BY <1>11 DEF Goes
        <2>2. job[j].state = "active"
            BY <1>4, <1>11 DEF Goes, AtEvent, AtWork
        <2>3. i < local[j].at \/ (i = local[j].at /\ pc'[j] \in Outbound)
            BY <2>1, <2>2
        <2>4. Route(Event(j)) \notin Outbound
            BY DEF Route, Outbound
        <2>5. pc'[j] \in Outbound => pc[j] \in Outbound \/ Does(j, "replied")
            BY <1>11, <2>4, HandlerWays DEF Silently, Visibly, Leads, Outbound
        <2>6. CASE i = local[j].at /\ Does(j, "replied")
            <3>1. did'[<<j[1], i>>] = did[<<j[1], i>>] \cup {"replied"}
                BY <1>1, <2>6 DEF Does, TypeInv, TraceInv
            <3> QED
                BY <3>1 DEF Answered
        <2> QED
            BY <1>2, <1>3, <2>3, <2>5, <2>6
    <1> QED
        BY <1>6, <1>7, <1>8, <1>9, <1>10, <1>11, OneAtATime, HandlerKinds DEF Kinds

\* When a payload's job completes, each of its events has its answer, whatever
\* failed on the way: a retry drops nothing.
THEOREM InboundCompletedMeansAnswered == Spec => []CompletedMeansAnswered
    <1>1. ASSUME Init PROVE AnswersHold
        <2>1. \A j \in JobIds : /\ local[j].at = 1 /\ pc[j] = "idle"
                                /\ job[j].state = "absent"
            BY <1>1 DEF Init, NoLocals, NoJob
        <2>2. \A j \in JobIds : Len(content[j[1]]) \in Nat
            BY <1>1, TypeInit DEF TypeInv, PlacesInv, JobIds
        <2>3. ASSUME NEW j \in JobIds, NEW i \in 1..Len(content[j[1]])
              PROVE  /\ ~(i < local[j].at) /\ ~(pc[j] \in Outbound)
                     /\ ~(job[j].state = "completed")
            <3>1. i \in Nat \ {0} /\ local[j].at = 1
                BY <2>1, <2>2
            <3>2. ~(i < local[j].at)
                BY <3>1
            <3>3. ~(pc[j] \in Outbound) /\ ~(job[j].state = "completed")
                BY <2>1 DEF Outbound
            <3> QED
                BY <3>2, <3>3
        <2> QED
            BY <2>3 DEF AnswersHold, AnswersInv
    <1>2. AnswersHold => CompletedMeansAnswered
        BY DEF AnswersHold, AnswersInv, CompletedMeansAnswered, Answered
    <1> QED
        BY <1>1, <1>2, TypeInit, TypeStep, AnswersStep, PTL DEF Spec

-----------------------------------------------------------------------------
(* Where a handler goes with a message that a guardrail matches.           *)

Matched(e) == content[e[1]][e[2]].says \cap GuardPatterns
Guards(e) == HasText(content[e[1]][e[2]]) /\ Matched(e) # {}
Escalated(e) == did[e] \cap {TokenCategory[w] : w \in Matched(e)} # {}
AtHandId(j) == <<j[1], local[j].at>>

GuardedSteps == {"thread", "insert", "bump", "get session", "set session", "escalate",
                 "reply"} \cup Outbound

\* It keeps to the way of an escalation, which is over when it replies.
GuardInv(j) ==
    AtWork(j) /\ Guards(AtHandId(j)) =>
        pc[j] \in GuardedSteps /\ (pc[j] = "reply" => Escalated(AtHandId(j)))
GuardsHold == GuardedIsEscalated /\ \A j \in JobIds : GuardInv(j)

\* Such a message is routed to the escalation, before any intent is looked for.
LEMMA GuardedRoute ==
    ASSUME NEW e \in EventIds, Guards(e)
    PROVE  Route(content[e[1]][e[2]]) = "escalate"
    <1>1. HasText(content[e[1]][e[2]]) /\ Guarded(content[e[1]][e[2]])
        BY GuardsFind DEF Guards, Matched, Guarded
    <1> QED
        BY <1>1 DEF Route

\* It is escalated in the category of a pattern that it matches.
LEMMA GuardedCategory ==
    ASSUME TypeInv, NEW j \in JobIds, pc[j] = "escalate", Guards(AtHandId(j)), Escalate(j)
    PROVE  /\ Escalated(AtHandId(j))'
           /\ \E c \in EscalationCategories \ {"unknown_question"} : Does(j, c)
    <1>1. AtHandId(j) \in EventIds /\ content[AtHandId(j)[1]][AtHandId(j)[2]] = Event(j)
        BY AtHand DEF AtHandId, AtWork, Event
    <1>2. HasText(Event(j)) /\ Event(j).says \cap GuardPatterns # {}
        BY <1>1 DEF Guards, Matched
    <1>3. PICK w \in Event(j).says \cap GuardPatterns : ReasonToken(j) = w
        BY <1>2, GuardsFind DEF ReasonToken
    <1> DEFINE c == CategorizeEscalation(ReasonToken(j), Event(j).says)
    <1>4. w \in DOMAIN TokenCategory /\ TokenCategory[w] # "unknown_question"
        BY <1>3, PatternLists
    <1>5. c = TokenCategory[w]
        BY <1>3, <1>4 DEF CategorizeEscalation
    <1>6. c \in EscalationCategories \ {"unknown_question"}
        BY <1>4, <1>5, CategoriesAreKnown
    <1>7. Does(j, c)
        BY DEF Escalate
    <1>8. AtHandId(j)' = AtHandId(j) /\ content' = content
        BY DEF Escalate, AtHandId, sent
    <1>9. did'[AtHandId(j)] = did[AtHandId(j)] \cup {TokenCategory[w]}
        BY <1>1, <1>5, <1>7 DEF Does, AtHandId, TypeInv, TraceInv
    <1>10. w \in Matched(AtHandId(j))
        BY <1>1, <1>3 DEF Matched
    <1> QED
        BY <1>6, <1>7, <1>8, <1>9, <1>10 DEF Escalated, Matched

\* Nobody else does anything for an event.
LEMMA HandlersDo ==
    ASSUME [Next]_vars
    PROVE  did' = did \/ \E j \in JobIds : HandlerStep(j)
    BY DEF Next, vars, trace, Receive, EnqueueFails, EnqueueUnanswered, HandlerThrows,
       RegisterResident, RemoveResident, Crash

\* What a step does for such a message.
LEMMA GuardedDeeds ==
    ASSUME TypeInv, GuardsHold, [Next]_vars, NEW e \in EventIds, Guards(e)
    PROVE  /\ did'[e] \cap {"asked", "suggested", "filed", "unknown_question"} = {}
           /\ "replied" \in did'[e] => Escalated(e)'
    <1>0. /\ did[e] \cap {"asked", "suggested", "filed", "unknown_question"} = {}
          /\ "replied" \in did[e] => Escalated(e)
        BY DEF GuardsHold, GuardedIsEscalated, Guards, Matched, Escalated
    <1>1. content' = content /\ did[e] \subseteq did'[e]
        BY StepGrows, DeedsStay DEF Grows
    <1>2. Escalated(e) => Escalated(e)'
        BY <1>1 DEF Escalated, Matched
    <1>3. CASE did'[e] = did[e]
        BY <1>0, <1>2, <1>3
    <1>4. ASSUME did'[e] # did[e]
          PROVE  \/ \E deed \in {"commanded", "skipped"}
                             \cup (EscalationCategories \ {"unknown_question"}) :
                        did'[e] = did[e] \cup {deed}
                 \/ did'[e] = did[e] \cup {"replied"} /\ Escalated(e)
        <2>1. PICK j \in JobIds : HandlerStep(j) /\ did' # did
            BY <1>4, HandlersDo
        <2>2. \/ pc[j] = "event" /\ (Does(j, "commanded") \/ Does(j, "skipped"))
              \/ Visibly(j)
            BY <2>1, HandlerKinds, HandlerWays DEF Kinds
        <2>3. ASSUME NEW deed, Does(j, deed)
              PROVE  e = AtHandId(j) /\ did'[e] = did[e] \cup {deed}
            BY <1>4, <2>3 DEF Does, AtHandId, TypeInv, TraceInv
        <2>4. CASE Does(j, "commanded") \/ Does(j, "skipped")
            BY <2>3, <2>4
        <2>5. CASE Visibly(j)
            <3>1. e = AtHandId(j) /\ AtWork(j)
                BY <2>3, <2>5 DEF Visibly, Leads, Escalate, AtWork
            <3>2. pc[j] \in GuardedSteps /\ (pc[j] = "reply" => Escalated(e))
                BY <3>1 DEF GuardsHold, GuardInv
            <3>3. \/ pc[j] = "reply" /\ Does(j, "replied")
                  \/ pc[j] = "escalate" /\ Escalate(j)
                BY <2>5, <3>2 DEF Visibly, Leads, GuardedSteps, Outbound
            <3> QED
                BY <2>3, <3>1, <3>2, <3>3, GuardedCategory
        <2> QED
            BY <2>2, <2>4, <2>5
    <1>5. {"asked", "suggested", "filed", "unknown_question", "replied"}
              \cap ({"commanded", "skipped"}
                        \cup (EscalationCategories \ {"unknown_question"})) = {}
        BY DEF EscalationCategories
    <1> QED
        BY <1>0, <1>2, <1>3, <1>4, <1>5

\* A step keeps a handler to the way of an escalation.
LEMMA GuardedHandlers ==
    ASSUME TypeInv, GuardsHold, [Next]_vars, NEW j \in JobIds
    PROVE  GuardInv(j)'
    <1> SUFFICES ASSUME AtWork(j)', Guards(AtHandId(j))'
                 PROVE  (pc[j] \in GuardedSteps)' /\ (pc'[j] = "reply" => Escalated(AtHandId(j))')
        BY DEF GuardInv
    <1>0. content' = content /\ pc'[j] \notin {"idle", "event"}
        BY StepGrows DEF Grows, AtWork
    <1>1. CASE Still(j)
        <2>1. /\ AtHandId(j)' = AtHandId(j) /\ pc'[j] = pc[j]
              /\ AtWork(j) /\ Guards(AtHandId(j))
            BY <1>0, <1>1 DEF Still, AtHandId, AtWork, Guards, Matched
        <2>2. did[AtHandId(j)] \subseteq did'[AtHandId(j)]
            BY <2>1, AtHand, DeedsStay DEF AtHandId
        <2>3. pc[j] \in GuardedSteps /\ (pc[j] = "reply" => Escalated(AtHandId(j)))
            BY <2>1 DEF GuardsHold, GuardInv
        <2>4. Escalated(AtHandId(j)) => Escalated(AtHandId(j))'
            BY <1>0, <2>1, <2>2 DEF Escalated, Matched
        <2> QED
            BY <2>1, <2>3, <2>4 DEF GuardedSteps, Outbound
    <1>2. CASE Goes(j) /\ (HandlerStep(j) \/ HandlerThrows(j))
        <2>1. AtHandId(j)' = AtHandId(j) /\ Guards(AtHandId(j))
            BY <1>0, <1>2 DEF Goes, AtHandId, Guards, Matched
        <2>2. AtWork(j) => pc[j] \in GuardedSteps
            BY <2>1 DEF GuardsHold, GuardInv
        <2>3. pc[j] = "event" \/ pc[j] \in GuardedSteps
            BY <1>2, <2>2 DEF Goes, AtEvent
        <2>4. pc[j] = "set session" => Route(Event(j)) = "escalate"
            BY <2>1, AtHand, GuardedRoute DEF AtHandId, AtWork, Event
        <2>5. \/ pc'[j] \in GuardedSteps \ {"reply"}
              \/ pc[j] = "escalate" /\ Escalate(j) /\ pc'[j] = "reply"
            BY <1>2, <2>3, <2>4, HandlerWays
               DEF Silently, Visibly, Leads, GuardedSteps, Outbound
        <2> QED
            BY <2>1, <2>5, GuardedCategory DEF GuardedSteps
    <1> QED
        BY <1>0, <1>1, <1>2, OneAtATime, HandlerKinds DEF Kinds, Dies, Begins, Ends, Passes

\* A message that a guardrail matches is left to a human, however often it is
\* tried, whoever handles it, and whatever else it says.
THEOREM InboundGuardedIsEscalated == Spec => []GuardedIsEscalated
    <1>1. ASSUME Init PROVE GuardsHold
        <2>1. \A e \in EventIds : did[e] = {}
            BY <1>1 DEF Init
        <2>2. \A j \in JobIds : ~AtWork(j)
            BY <1>1 DEF Init, AtWork
        <2> QED
            BY <2>1, <2>2 DEF GuardsHold, GuardInv, GuardedIsEscalated
    <1>2. ASSUME TypeInv, GuardsHold, [Next]_vars PROVE GuardsHold'
        <2>1. EventIds' = EventIds /\ JobIds' = JobIds /\ content' = content
            BY <1>2, StepGrows DEF Grows, EventIds, JobIds
        <2>2. GuardedIsEscalated'
            <3> SUFFICES ASSUME NEW e \in EventIds, Guards(e)
                         PROVE  /\ did'[e] \cap {"asked", "suggested", "filed",
                                                 "unknown_question"} = {}
                                /\ "replied" \in did'[e] => Escalated(e)'
                BY <2>1 DEF GuardedIsEscalated, Guards, Matched, Escalated
            <3> QED
                BY <1>2, GuardedDeeds
        <2> QED
            BY <1>2, <2>1, <2>2, GuardedHandlers DEF GuardsHold
    <1>3. GuardsHold => GuardedIsEscalated
        BY DEF GuardsHold
    <1> QED
        BY <1>1, <1>2, <1>3, TypeInit, TypeStep, PTL DEF Spec
=============================================================================
