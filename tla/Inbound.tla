------------------------------ MODULE Inbound -------------------------------
(***************************************************************************)
(* The way of a message: the webhook enqueues a payload, a worker handles  *)
(* its events one after the other (gateway/inboundProcessor.ts), looks     *)
(* each sender up in the residents registry, appends the message to the    *)
(* sender's thread (memory/conversationStore.ts), opens or resumes a       *)
(* session (gateway/session.ts), and lets the orchestrator route it and    *)
(* answer.  Nothing recognises an event that was handled before, and the   *)
(* admin may remove and register residents meanwhile.                      *)
(*                                                                         *)
(* What the secretary's commands do is in Broadcast and Escalations, what  *)
(* escalating does in Escalations: here each is one step.  Of a complaint  *)
(* only createComplaint is here, statement by statement, for two handlers  *)
(* may draw the same ticket and the slower insert then throws; the years   *)
(* of the tickets, the notice and the audit row are in Tickets.            *)
(***************************************************************************)
EXTENDS Integers, Sequences, FiniteSets, Jobs, Reading

CONSTANTS Payloads,      \* what the WhatsApp Cloud API is going to deliver
          Contents,      \* the requests that they may be
          MaxDeliveries, \* bound on the times a payload is enqueued
          MaxResidents,  \* bound on the registrations
          Answers,       \* what Gemini may answer when asked for a category
          Scores,        \* the best score a search may have, below all when it has no match
          MinConfidence, \* FAQ_MIN_CONFIDENCE_SCORE
          Concurrency,   \* INBOUND_QUEUE_CONCURRENCY
          MaxFaults      \* bound on the injected errors and crashes

ASSUME InboundAssumption ==
    /\ IsFiniteSet(Payloads)
    /\ Contents \subseteq [Payloads -> Requests]
    /\ MaxDeliveries \in Nat \ {0}
    /\ MaxResidents \in Nat
    /\ Scores \subseteq Int /\ Scores # {} /\ MinConfidence \in Int
    /\ Concurrency \in Nat \ {0}
    /\ MaxFaults \in Nat

VARIABLES content,    \* the events of each payload
          due,        \* payloads the sender has no 200 for
          job,        \* the jobs of each payload on the inbound queue
          pc,         \* the call the handler of a job is about to make
          local,      \* its local variables
          owner,      \* the residents table: who has a phone, 0 for nobody
          registered, \* ids given to residents so far
          complaints, \* the table's rows, by the number in their ticket ids
          threads,    \* the conversations table and its messages, by phone
          opened,     \* conversations created so far
          session,    \* Redis: the resident of a phone's session, 0 for none
          heard,      \* times an event was appended to its thread
          did,        \* what was done for an event
          faults      \* errors and crashes so far

sent == <<content, due>>
registry == <<owner, registered, complaints>>
memory == <<threads, opened>>
trace == <<heard, did>>
vars == <<sent, job, pc, local, registry, memory, session, trace, faults>>

JobIds == Payloads \X (1..MaxDeliveries)
EventIds == UNION {{p} \X (1..Len(content[p])) : p \in Payloads}
NobodyRegistered == [ph \in Phones |-> 0]
\* Of the messages in a conversation, only whom they were appended for.
NoThread == [id |-> 0, resident |-> 0, authors |-> {}]
\* The event at hand, its sender's id, the conversation appended to, the
\* session read, the ticket drawn, the category of a suggestion.
NoLocals == [at |-> 1, who |-> 0, thread |-> 0, seen |-> 0, ticket |-> 0, category |-> None]

\* An escalation counts with its category.
Deeds == {"filed", "suggested", "asked", "commanded", "skipped", "replied"}
             \cup EscalationCategories
Steps == {"idle", "event", "thread", "insert", "bump", "get session", "set session",
          "escalate", "status", "complain", "count", "file", "classify", "suggest", "log suggestion",
          "history", "search", "unknown", "ask", "reply", "out thread", "out insert", "out bump"}

Init ==
    /\ \E requests \in Contents :
          /\ content = [p \in Payloads |-> ReceiveMessage(requests[p])]
          /\ due = {p \in Payloads : Accepted(requests[p])}
    /\ job = [j \in JobIds |-> NoJob]
    /\ pc = [j \in JobIds |-> "idle"]
    /\ local = [j \in JobIds |-> NoLocals]
    /\ owner = NobodyRegistered
    /\ registered = 0 /\ complaints = <<>>
    /\ threads = [ph \in Phones |-> NoThread]
    /\ opened = 0
    /\ session = [ph \in Phones |-> 0]
    /\ heard = [e \in EventIds |-> 0]
    /\ did = [e \in EventIds |-> {}]
    /\ faults = 0

GoTo(j, step) == pc' = [pc EXCEPT ![j] = step]
\* The handlers of the jobs in S end.
End(S) ==
    /\ pc' = [j \in JobIds |-> IF j \in S THEN "idle" ELSE pc[j]]
    /\ local' = [j \in JobIds |-> IF j \in S THEN NoLocals ELSE local[j]]

Event(j) == content[j[1]][local[j].at]
From(j) == Event(j).from
Does(j, deed) == did' = [did EXCEPT ![<<j[1], local[j].at>>] = @ \cup {deed}]
\* findIdByPhone: nobody has the phone of an event without a sender.
Sender(j) == IF From(j) \in Phones THEN owner[From(j)] ELSE 0
Live(r) == \E ph \in Phones : owner[ph] = r /\ r # 0

-----------------------------------------------------------------------------
(* The webhook.                                                            *)

Enqueue(p) ==
    \E k \in 1..MaxDeliveries :
        /\ job[<<p, k>>].state = "absent"
        /\ \A i \in 1..k - 1 : job[<<p, i>>].state # "absent"
        /\ job' = [job EXCEPT ![<<p, k>>] = NewJob]

Fault == faults < MaxFaults /\ faults' = faults + 1

Receive(p) ==
    /\ p \in due
    /\ Enqueue(p)
    /\ due' = due \ {p}
    /\ UNCHANGED <<content, pc, local, registry, memory, session, trace, faults>>

\* Answered 500: the sender will deliver the payload again.
EnqueueFails(p) ==
    /\ p \in due
    /\ Fault
    /\ UNCHANGED <<sent, job, pc, local, registry, memory, session, trace>>

\* Enqueued, and the sender sees a 500 or no answer at all.
EnqueueUnanswered(p) ==
    /\ p \in due
    /\ Fault
    /\ Enqueue(p)
    /\ UNCHANGED <<sent, pc, local, registry, memory, session, trace>>

-----------------------------------------------------------------------------
(* processInboundWebhookPayload: one event after the other.                *)

TakeJob(j) ==
    /\ job[j].state = "waiting"
    /\ Cardinality({i \in JobIds : job[i].state = "active"}) < Concurrency
    /\ job' = [job EXCEPT ![j] = Taken(@)]
    /\ GoTo(j, "event")
    /\ UNCHANGED <<sent, local, registry, memory, session, trace, faults>>

AtEvent(j) == pc[j] = "event" /\ local[j].at <= Len(content[j[1]])

\* Mutant of NextEvent: the same event again.
SameEvent(j) ==
    /\ local' = [local EXCEPT ![j] = [NoLocals EXCEPT !.at = local[j].at]]
    /\ GoTo(j, "event")
NextEvent(j) ==
    /\ local' = [local EXCEPT ![j] = [NoLocals EXCEPT !.at = local[j].at + 1]]
    /\ GoTo(j, "event")

CompleteJob(j) ==
    /\ pc[j] = "event" /\ local[j].at > Len(content[j[1]])
    /\ job' = [job EXCEPT ![j] = Completed(@)]
    /\ End({j})
    /\ UNCHANGED <<sent, registry, memory, session, trace, faults>>

\* A message to the secretary's number: no resident, no thread.
HandleSecretaryEvent(j) ==
    /\ AtEvent(j) /\ Event(j).to = "secretary"
    /\ Does(j, "commanded")
    /\ NextEvent(j)
    /\ UNCHANGED <<sent, job, registry, memory, session, heard, faults>>

FindResident(j) ==
    /\ AtEvent(j) /\ Event(j).to # "secretary"
    /\ Sender(j) # 0
    /\ local' = [local EXCEPT ![j].who = Sender(j)]
    /\ GoTo(j, "thread")
    /\ UNCHANGED <<sent, job, registry, memory, session, trace, faults>>

SkipUnregistered(j) ==
    /\ AtEvent(j) /\ Event(j).to # "secretary"
    /\ Sender(j) = 0
    /\ Does(j, "skipped")
    /\ NextEvent(j)
    /\ UNCHANGED <<sent, job, registry, memory, session, heard, faults>>

-----------------------------------------------------------------------------
(* appendMessage, of the message itself and of its answer: three           *)
(* statements.  Nothing reads last_message_at, which the third one sets.   *)

\* Mutant of Throws: the worker swallows the error.
Swallowed(j) ==
    /\ job' = [job EXCEPT ![j] = Completed(@)]
    /\ End({j})
Throws(j) ==
    /\ job' = [job EXCEPT ![j] = Retried(@)]
    /\ End({j})

\* INSERT ... ON CONFLICT (whatsapp_thread_id) DO UPDATE SET resident_id.
GetOrCreateConversation(j) ==
    /\ pc[j] \in {"thread", "out thread"}
    /\ Live(local[j].who)
    /\ LET old == threads[From(j)]
           new == IF old = NoThread THEN [NoThread EXCEPT !.id = opened + 1] ELSE old
       IN  /\ threads' = [threads EXCEPT ![From(j)] = [new EXCEPT !.resident = local[j].who]]
           /\ opened' = IF old = NoThread THEN opened + 1 ELSE opened
           /\ local' = [local EXCEPT ![j].thread = new.id]
    /\ GoTo(j, IF pc[j] = "thread" THEN "insert" ELSE "out insert")
    /\ UNCHANGED <<sent, job, registry, session, trace, faults>>

InsertMessage(j) ==
    /\ pc[j] \in {"insert", "out insert"}
    /\ threads[From(j)].id = local[j].thread
    /\ threads' = [threads EXCEPT ![From(j)].authors = @ \cup {local[j].who}]
    /\ heard' = IF pc[j] = "insert"
                THEN [heard EXCEPT ![<<j[1], local[j].at>>] = @ + 1]
                ELSE heard
    /\ GoTo(j, IF pc[j] = "insert" THEN "bump" ELSE "out bump")
    /\ UNCHANGED <<sent, job, local, registry, opened, session, did, faults>>

\* The resident, or the conversation with him, was removed meanwhile.
ForeignKeyFails(j) ==
    /\ \/ pc[j] \in {"thread", "out thread", "complain", "file", "suggest"} /\ ~Live(local[j].who)
       \/ pc[j] \in {"insert", "out insert"} /\ threads[From(j)].id # local[j].thread
    /\ Throws(j)
    /\ UNCHANGED <<sent, registry, memory, session, trace, faults>>

BumpLastMessageAt(j) ==
    \/ /\ pc[j] = "bump"
       /\ GoTo(j, "get session")
       /\ UNCHANGED <<sent, job, local, registry, memory, session, trace, faults>>
    \/ /\ pc[j] = "out bump"
       /\ NextEvent(j)
       /\ UNCHANGED <<sent, job, registry, memory, session, trace, faults>>

-----------------------------------------------------------------------------
(* getOrCreateSession: Redis GET, then SET.  The session may have expired by *)
(* the time it is read.                                                    *)

GetSession(j) ==
    /\ pc[j] = "get session"
    /\ \E s \in {session[From(j)], 0} : local' = [local EXCEPT ![j].seen = s]
    /\ GoTo(j, "set session")
    /\ UNCHANGED <<sent, job, registry, memory, session, trace, faults>>

\* Mutant of Guarded: the guardrails only where no intent is recognised.
IntentFirst(e) ==
    /\ DetectIntent(e.says) = "faq"
    /\ DetectForbiddenActionRequest(e.says) # None \/ DetectEscalationTrigger(e.says) # None
Guarded(e) ==
    DetectForbiddenActionRequest(e.says) # None \/ DetectEscalationTrigger(e.says) # None

\* A ticket id comes before any intent; a resident's broadcast is for the secretary.
Route(e) ==
    CASE ~HasText(e) -> "reply"
      [] HasText(e) /\ Guarded(e) -> "escalate"
      [] HasText(e) /\ ~Guarded(e) /\ "ticket id" \in e.says -> "status"
      [] OTHER -> CASE DetectIntent(e.says) \in {"broadcast", "escalation"} -> "escalate"
                    [] DetectIntent(e.says) = "complaint" -> "complain"
                    [] DetectIntent(e.says) = "suggestion" -> "classify"
                    [] OTHER -> "history"

\* Mutant of Resident: the resident of the session, not of the sender.
OfSession(j) == IF local[j].seen # 0 THEN local[j].seen ELSE local[j].who
Resident(j) == local[j].who

SetSession(j) ==
    /\ pc[j] = "set session"
    /\ session' = [session EXCEPT ![From(j)] =
                      IF local[j].seen # 0 THEN local[j].seen ELSE local[j].who]
    /\ local' = [local EXCEPT ![j].who = Resident(j)]
    /\ GoTo(j, Route(Event(j)))
    /\ UNCHANGED <<sent, job, registry, memory, trace, faults>>

-----------------------------------------------------------------------------
(* The branches of handleResidentEvent.                                    *)

\* The token at the beginning of the reason: of a guardrail, of a search that
\* found nothing, or, of other reasons, whatever the resident's text begins with.
ReasonToken(j) ==
    LET action == DetectForbiddenActionRequest(Event(j).says)
        trigger == DetectEscalationTrigger(Event(j).says)
    IN  CASE pc[j] = "unknown" -> "unknown_answer"
          [] pc[j] = "escalate" /\ action # None -> action
          [] pc[j] = "escalate" /\ action = None /\ trigger # None -> trigger
          [] OTHER -> Event(j).token

Escalate(j) ==
    /\ pc[j] \in {"escalate", "unknown"}
    /\ Does(j, CategorizeEscalation(ReasonToken(j), Event(j).says))
    /\ GoTo(j, "reply")
    /\ UNCHANGED <<sent, job, local, registry, memory, session, heard, faults>>

\* checkStatus: a read, answered with the row if it is the resident's own.
CheckStatus(j) ==
    /\ pc[j] = "status"
    /\ GoTo(j, "reply")
    /\ UNCHANGED <<sent, job, local, registry, memory, session, trace, faults>>

(* createComplaint: a lookup, the count of the tickets there are, an insert. *)

FindComplainant(j) ==
    /\ pc[j] = "complain"
    /\ Live(local[j].who)
    /\ GoTo(j, "count")
    /\ UNCHANGED <<sent, job, local, registry, memory, session, trace, faults>>

DrawTicket(j) ==
    /\ pc[j] = "count"
    /\ local' = [local EXCEPT ![j].ticket = Len(complaints) + 1]
    /\ GoTo(j, "file")
    /\ UNCHANGED <<sent, job, registry, memory, session, trace, faults>>

\* The column ticket_id is unique, and the rows have the numbers up to the last.
TicketInUse(j) == local[j].ticket \in DOMAIN complaints

FileComplaint(j) ==
    /\ pc[j] = "file"
    /\ Live(local[j].who) /\ ~TicketInUse(j)
    /\ complaints' = Append(complaints, [resident |-> local[j].who, by |-> j])
    /\ Does(j, "filed")
    /\ GoTo(j, "reply")
    /\ UNCHANGED <<sent, job, local, owner, registered, memory, session, heard, faults>>

\* Another handler drew the same number and was faster.
TicketCollides(j) ==
    /\ pc[j] = "file"
    /\ TicketInUse(j)
    /\ Throws(j)
    /\ UNCHANGED <<sent, registry, memory, session, trace, faults>>

\* By Gemini, or when that fails by the words of the text.
Classify(j) ==
    /\ pc[j] = "classify"
    /\ \E category \in {Classified(answer) : answer \in Answers}
                           \cup {CategorizeSuggestion(Event(j).says)} :
          local' = [local EXCEPT ![j].category = category]
    /\ GoTo(j, "suggest")
    /\ UNCHANGED <<sent, job, registry, memory, session, trace, faults>>

CreateSuggestion(j) ==
    /\ pc[j] = "suggest"
    /\ Live(local[j].who)
    /\ Does(j, "suggested")
    /\ GoTo(j, "log suggestion")
    /\ UNCHANGED <<sent, job, local, registry, memory, session, heard, faults>>

LogSuggestion(j) ==
    /\ pc[j] = "log suggestion"
    /\ GoTo(j, "reply")
    /\ UNCHANGED <<sent, job, local, registry, memory, session, trace, faults>>

\* The thread's last messages, among them the one being handled.
ReadHistory(j) ==
    /\ pc[j] = "history"
    /\ GoTo(j, "search")
    /\ UNCHANGED <<sent, job, local, registry, memory, session, trace, faults>>

\* The best of the best in each category.
FaqCategories == {"bye_laws", "maintenance_rules", "parking_policy", "clubhouse_rules"}
Best(found) == CHOOSE score \in Scores : /\ \E c \in FaqCategories : found[c] = score
                                        /\ \A c \in FaqCategories : found[c] <= score
Gate(score) == IF score < MinConfidence THEN "unknown" ELSE "ask"

SearchKnowledge(j) ==
    /\ pc[j] = "search"
    /\ \E found \in [FaqCategories -> Scores] : GoTo(j, Gate(Best(found)))
    /\ UNCHANGED <<sent, job, local, registry, memory, session, trace, faults>>

AskGemini(j) ==
    /\ pc[j] = "ask"
    /\ Does(j, "asked")
    /\ GoTo(j, "reply")
    /\ UNCHANGED <<sent, job, local, registry, memory, session, heard, faults>>

ReplyMessage(j) ==
    /\ pc[j] = "reply"
    /\ Does(j, "replied")
    /\ GoTo(j, "out thread")
    /\ UNCHANGED <<sent, job, local, registry, memory, session, heard, faults>>

-----------------------------------------------------------------------------
(* The residents registry, written by the admin.                           *)

\* Insert or update by phone number: one who is registered keeps his id.
Upserted(ph) == IF owner[ph] = 0 THEN [owner EXCEPT ![ph] = registered + 1] ELSE owner

RegisterResident(ph) ==
    /\ registered < MaxResidents
    /\ owner' = Upserted(ph)
    /\ registered' = IF owner[ph] = 0 THEN registered + 1 ELSE registered
    /\ UNCHANGED <<sent, job, pc, local, complaints, memory, session, trace, faults>>

\* Mutant of Cascade: the conversations outlive the resident.
NoCascade(r) == threads
\* ON DELETE CASCADE of conversations and messages.
Cascade(r) ==
    [ph \in Phones |-> IF threads[ph].resident = r THEN NoThread ELSE threads[ph]]

\* ON DELETE RESTRICT of complaints.
HasComplained(r) == \E i \in DOMAIN complaints : complaints[i].resident = r
Removable(r) == r # 0 /\ ~HasComplained(r)

Removed(ph) == [owner EXCEPT ![ph] = 0]
\* The last id is not removed: somebody may still follow whoever is.
RemoveResident(ph) ==
    /\ Removable(owner[ph]) /\ registered < MaxResidents
    /\ threads' = Cascade(owner[ph])
    /\ owner' = Removed(ph)
    /\ UNCHANGED <<sent, job, pc, local, registered, complaints, opened, session, trace, faults>>

-----------------------------------------------------------------------------
(* Errors and crashes.                                                     *)

HandlerThrows(j) ==
    /\ AtEvent(j) \/ pc[j] \notin {"idle", "event", "classify"}
    /\ Fault
    /\ Throws(j)
    /\ UNCHANGED <<sent, registry, memory, session, trace>>

Crash ==
    /\ Fault
    /\ LET active == {j \in JobIds : job[j].state = "active"}
       IN  /\ active # {}
           /\ job' = [j \in JobIds |-> IF j \in active THEN Stalled(job[j]) ELSE job[j]]
           /\ End(active)
    /\ UNCHANGED <<sent, registry, memory, session, trace>>

-----------------------------------------------------------------------------

Memory(j) ==
    \/ GetOrCreateConversation(j) \/ InsertMessage(j) \/ BumpLastMessageAt(j)
    \/ GetSession(j) \/ SetSession(j)

Work(j) ==
    \/ Escalate(j) \/ CheckStatus(j)
    \/ FindComplainant(j) \/ DrawTicket(j) \/ FileComplaint(j)
    \/ Classify(j) \/ CreateSuggestion(j) \/ LogSuggestion(j)
    \/ ReadHistory(j) \/ SearchKnowledge(j) \/ AskGemini(j) \/ ReplyMessage(j)

HandlerStep(j) ==
    \/ TakeJob(j) \/ CompleteJob(j)
    \/ HandleSecretaryEvent(j) \/ FindResident(j) \/ SkipUnregistered(j)
    \/ Memory(j) \/ Work(j) \/ ForeignKeyFails(j) \/ TicketCollides(j)

Next ==
    \/ \E p \in Payloads : Receive(p) \/ EnqueueFails(p) \/ EnqueueUnanswered(p)
    \/ \E j \in JobIds : HandlerStep(j) \/ HandlerThrows(j)
    \/ \E ph \in Phones : RegisterResident(ph) \/ RemoveResident(ph)
    \/ Crash

Spec == Init /\ [][Next]_vars

-----------------------------------------------------------------------------
(* Properties.                                                             *)

\* Types; a handler runs exactly while its job is active.
TypeOK ==
    /\ due \subseteq Payloads
    /\ job \in [JobIds -> BoundedJob]
    /\ pc \in [JobIds -> Steps]
    /\ \A j \in JobIds : (pc[j] # "idle") <=> (job[j].state = "active")
    /\ local \in [JobIds -> [at : Nat \ {0}, who : 0..MaxResidents, thread : 0..opened,
                             seen : 0..MaxResidents, ticket : Nat,
                             category : SuggestionCategories \cup {None}]]
    /\ owner \in [Phones -> 0..registered]
    /\ registered \in 0..MaxResidents
    /\ complaints \in Seq([resident : 1..registered, by : JobIds])
    /\ threads \in [Phones -> [id : 0..opened, resident : 0..registered,
                               authors : SUBSET (1..registered)]]
    /\ session \in [Phones -> 0..registered]
    /\ heard \in [EventIds -> Nat]
    /\ did \in [EventIds -> SUBSET Deeds]
    /\ faults \in 0..MaxFaults

\* A thread and every message in it belong to the resident who has the phone
\* now: removing a resident while his messages are handled, and registering
\* the next one, leaves and brings back nothing of the former.
PrivateThreads ==
    \A ph \in Phones : threads[ph] # NoThread =>
        /\ owner[ph] # 0 /\ threads[ph].resident = owner[ph]
        /\ threads[ph].authors \subseteq {owner[ph]}

Removals == registered - Cardinality({ph \in Phones : owner[ph] # 0})

\* The rows of complaints that other handlers inserted.
Rivals(j) == {i \in DOMAIN complaints : complaints[i].by # j}

\* An attempt of a job fails for a fault, for the removal of a resident, which
\* costs one attempt and not all, the next one finds him unregistered, or for a
\* ticket that another handler was faster to file, which costs one attempt too:
\* the next one draws a later ticket.
AttemptsHaveCauses ==
    \A j \in JobIds : job[j].attempts + job[j].stalls <= faults + Removals + Cardinality(Rivals(j))

\* The times a payload was tried: the n-th try of its k-th job, the one under way
\* or the last one of a completed job among them.
Tries(p) ==
    {t \in (1..MaxDeliveries) \X (1..MaxAttempts + MaxStalls + 2) :
        LET nth == job[<<p, t[1]>>]
            latest == IF nth.state \in {"active", "completed"} THEN 1 ELSE 0
        IN  nth.state # "absent" /\ t[2] <= nth.attempts + nth.stalls + latest}

\* An event is appended again, and answered again, only because its payload was
\* delivered again or an attempt at it failed, were it for another event's sake.
RepeatsCostTries ==
    \A e \in EventIds : heard[e] <= Cardinality(Tries(e[1]))

\* When a payload's job completes, each of its events was answered, was a
\* command of the secretary's, or came from a phone that was not registered when
\* it was looked up: a retry drops nothing.
CompletedMeansAnswered ==
    \A j \in JobIds : job[j].state = "completed" =>
        \A i \in 1..Len(content[j[1]]) :
            did[<<j[1], i>>] \cap {"replied", "commanded", "skipped"} # {}

\* What a guardrail matches is left to a human: whatever else the text says, and
\* however often it is tried, it is neither answered by Gemini nor filed, it is
\* answered only after it was escalated, and never as a question that has no
\* answer.
GuardedIsEscalated ==
    \A e \in EventIds :
        LET event == content[e[1]][e[2]]
            matched == event.says \cap GuardPatterns
        IN  HasText(event) /\ matched # {} =>
                /\ did[e] \cap {"asked", "suggested", "filed", "unknown_question"} = {}
                /\ "replied" \in did[e] => did[e] \cap {TokenCategory[w] : w \in matched} # {}
=============================================================================
