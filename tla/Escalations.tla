----------------------------- MODULE Escalations ----------------------------
(***************************************************************************)
(* Escalations: a resident's message that only a human may decide is       *)
(* recorded, the secretary is notified, the resident gets a reference      *)
(* (agent/guardrails.ts, agent/escalation.ts, modules/escalation.ts,       *)
(* tools/escalationTool.ts), and the secretary's "ack <ref>" and           *)
(* "resolve <ref>" (gateway/orchestrator.ts), or a request from the        *)
(* dashboard (gateway/adminRoutes.ts), move the row on.  Every message is  *)
(* an inbound job, handled concurrently with others; a request is handled  *)
(* by the gateway, at once and once.  Every awaited call is a step.        *)
(***************************************************************************)
EXTENDS Integers, Sequences, FiniteSets, Jobs

CONSTANTS Messages,     \* messages of residents and the secretary, requests
          Refs,         \* sets of row numbers that a typed <ref> can match
          Concurrency,  \* INBOUND_QUEUE_CONCURRENCY
          MaxFaults     \* bound on the injected errors and crashes

ASSUME EscalationsAssumption ==
    /\ IsFiniteSet(Messages)
    /\ Refs \subseteq SUBSET (Nat \ {0})
    /\ Concurrency \in Nat \ {0}
    /\ MaxFaults \in Nat

VARIABLES rows,      \* the escalations table, in the order of the inserts
          text,      \* what each message asks for
          job,       \* its job on the inbound queue
          pc,        \* the call its handler is about to make
          at,        \* the row its handler inserted or found
          received,  \* rows the secretary was sent a notification of
          blocks,    \* blocked_forbidden_action audit rows of each message
          created,   \* rows with an escalation_created audit row
          trail,     \* audited changes: pairs of a row and its new status
          told,      \* the row each message's author was last answered about
          faults     \* errors and crashes so far

vars == <<rows, text, job, pc, at, received, blocks, created, trail, told, faults>>

RowNumbers == 1..Len(rows)
\* An "ack" or a "resolve" names the status it sets, as the handler does.
Open == {"pending", "acknowledged"}
Status == Open \cup {"resolved"}
Row == [by : Messages, status : Status, notified : BOOLEAN]
FromResident == [kind : {"forbidden", "trigger"}, ref : {{}}, via : {"chat"}]
FromSecretary == [kind : Status \ {"pending"}, ref : Refs, via : {"chat"}]
\* A body with any other status is answered 400 and changes nothing.
FromDashboard == [kind : Status \ {"pending"}, ref : Refs, via : {"dashboard"}]
NoText == [kind |-> "none", ref |-> {}, via |-> "none"]

ResidentSteps == {"block", "insert", "notify", "stamp", "audit", "reply", "record"}
UpdateTry == {"find", "update", "log", "tell"}
Steps == {"idle", "done"} \cup ResidentSteps \cup UpdateTry \cup {"apologize"}

Init ==
    /\ rows = <<>>
    /\ text = [m \in Messages |-> NoText]
    /\ job = [m \in Messages |-> NoJob]
    /\ pc = [m \in Messages |-> "idle"]
    /\ at = [m \in Messages |-> 0]
    /\ received = {} /\ created = {} /\ trail = {}
    /\ blocks = [m \in Messages |-> 0]
    /\ told = [m \in Messages |-> 0]
    /\ faults = 0

GoTo(m, step) == pc' = [pc EXCEPT ![m] = step]
jobVars == <<text, job>>
auditVars == <<blocks, created, trail>>
ByResident(m) == text[m].kind \in {"forbidden", "trigger"}
ByDashboard(m) == text[m].via = "dashboard"

-----------------------------------------------------------------------------
(* The inbound queue, and the dashboard.                                   *)

Send(m, words) ==
    /\ text[m] = NoText
    /\ text' = [text EXCEPT ![m] = words]
    /\ job' = [job EXCEPT ![m] = NewJob]
    /\ UNCHANGED <<rows, pc, at, received, auditVars, told, faults>>

\* POST /admin/escalations/:ref/status: in the process of the gateway.
PostStatus(m, words) ==
    /\ text[m] = NoText
    /\ text' = [text EXCEPT ![m] = words]
    /\ GoTo(m, "find")
    /\ UNCHANGED <<rows, job, at, received, auditVars, told, faults>>

\* Mutant of FirstStep: the block is not logged.
Unblocked(m) == IF ByResident(m) THEN "insert" ELSE "find"
\* Mutant of FirstStep: the update of a row nobody looked up.
Unsearched(m) == IF ByResident(m) THEN "insert" ELSE "update"
FirstStep(m) ==
    CASE text[m].kind = "forbidden" -> "block"
      [] text[m].kind = "trigger" -> "insert"
      [] OTHER -> "find"

TakeJob(m) ==
    /\ job[m].state = "waiting"
    /\ Cardinality({n \in Messages : job[n].state = "active"}) < Concurrency
    /\ job' = [job EXCEPT ![m] = Taken(@)]
    /\ GoTo(m, FirstStep(m))
    /\ UNCHANGED <<rows, text, at, received, auditVars, told, faults>>

\* The handlers of the messages in S end.
End(S) ==
    /\ pc' = [m \in Messages |-> IF m \in S THEN "idle" ELSE pc[m]]
    /\ at' = [m \in Messages |-> IF m \in S THEN 0 ELSE at[m]]

\* A resident's handler appends its reply to the conversation first.
CompleteJob(m) ==
    /\ pc[m] \in {"record", "done"} /\ ~ByDashboard(m)
    /\ job' = [job EXCEPT ![m] = Completed(@)]
    /\ End({m})
    /\ UNCHANGED <<rows, text, received, auditVars, told, faults>>

EndRequest(m) ==
    /\ pc[m] = "done" /\ ByDashboard(m)
    /\ End({m})
    /\ UNCHANGED <<rows, jobVars, received, auditVars, told, faults>>

-----------------------------------------------------------------------------
(* escalate, on behalf of a resident.                                      *)

LogForbiddenActionBlocked(m) == blocks' = [blocks EXCEPT ![m] = @ + 1]

LogBlock(m) ==
    /\ pc[m] = "block"
    /\ LogForbiddenActionBlocked(m)
    /\ GoTo(m, "insert")
    /\ UNCHANGED <<rows, jobVars, at, received, created, trail, told, faults>>

AppendRow(m) == rows' = Append(rows, [by |-> m, status |-> "pending", notified |-> FALSE])

\* Mutant of AfterInsert: nobody notifies.
AuditFirst == "audit"
AfterInsert == "notify"

CreateEscalation(m) ==
    /\ pc[m] = "insert"
    /\ AppendRow(m)
    /\ at' = [at EXCEPT ![m] = Len(rows) + 1]
    /\ GoTo(m, AfterInsert)
    /\ UNCHANGED <<jobVars, received, auditVars, told, faults>>

Notify(m) ==
    /\ pc[m] = "notify"
    /\ received' = received \cup {at[m]}
    /\ GoTo(m, "stamp")
    /\ UNCHANGED <<rows, jobVars, at, auditVars, told, faults>>

StampNotified(m) ==
    /\ pc[m] = "stamp"
    /\ rows' = [rows EXCEPT ![at[m]].notified = TRUE]
    /\ GoTo(m, "audit")
    /\ UNCHANGED <<jobVars, at, received, auditVars, told, faults>>

\* Mutant of AfterAudit: the resident gets no reference.
RecordOnly == "record"
AfterAudit == "reply"

LogCreated(m) ==
    /\ pc[m] = "audit"
    /\ created' = created \cup {at[m]}
    /\ GoTo(m, AfterAudit)
    /\ UNCHANGED <<rows, jobVars, at, received, blocks, trail, told, faults>>

-----------------------------------------------------------------------------
(* acknowledge, on behalf of the secretary: SELECT by prefix, UPDATE by id *)
(* whatever the status, audit row.                                         *)

Matches(m) == text[m].ref \cap RowNumbers

FindEscalation(m, i) ==
    /\ pc[m] = "find"
    /\ i \in Matches(m)
    /\ at' = [at EXCEPT ![m] = i]
    /\ GoTo(m, "update")
    /\ UNCHANGED <<rows, jobVars, received, auditVars, told, faults>>

NoneFound(m) ==
    /\ pc[m] = "find"
    /\ Matches(m) = {}
    /\ GoTo(m, "apologize")
    /\ UNCHANGED <<rows, jobVars, at, received, auditVars, told, faults>>

NewStatus(m) == text[m].kind

UpdateStatus(m) ==
    /\ pc[m] = "update"
    /\ rows' = [rows EXCEPT ![at[m]].status = NewStatus(m)]
    /\ GoTo(m, "log")
    /\ UNCHANGED <<jobVars, at, received, auditVars, told, faults>>

\* Mutant of Logged: always audited as an acknowledgement.
LoggedAsAck(m) == <<at[m], "acknowledged">>
Logged(m) == <<at[m], text[m].kind>>

LogChange(m) ==
    /\ pc[m] = "log"
    /\ trail' = trail \cup {Logged(m)}
    /\ GoTo(m, "tell")
    /\ UNCHANGED <<rows, jobVars, at, received, blocks, created, told, faults>>

-----------------------------------------------------------------------------
(* Answers: 0 is "Couldn't update", or a 500 to the dashboard.             *)

\* Mutant of AfterReply: the branch of forbidden requests does not return.
FallThrough(m) == IF text[m].kind = "forbidden" THEN "insert" ELSE "done"
AfterReply(m) == IF pc[m] = "reply" THEN "record" ELSE "done"

\* Mutant of Subject: the newest escalation.
Newest(m) == IF pc[m] = "apologize" THEN 0 ELSE Len(rows)
Subject(m) == IF pc[m] = "apologize" THEN 0 ELSE at[m]

Reply(m) ==
    /\ pc[m] \in {"reply", "tell", "apologize"}
    /\ told' = [told EXCEPT ![m] = Subject(m)]
    /\ GoTo(m, AfterReply(m))
    /\ UNCHANGED <<rows, jobVars, at, received, auditVars, faults>>

-----------------------------------------------------------------------------
(* Errors and crashes.                                                     *)

Fault == faults < MaxFaults /\ faults' = faults + 1

AttemptFails(m) ==
    /\ job' = [job EXCEPT ![m] = Retried(@)]
    /\ End({m})

HandlerThrows(m) ==
    /\ Fault
    /\ pc[m] \in {"block", "insert", "audit", "reply", "record", "apologize"}
    /\ ~ByDashboard(m)
    /\ AttemptFails(m)
    /\ UNCHANGED <<rows, text, received, auditVars, told>>

\* Inside the try block of "ack" and "resolve", and before the answer to the
\* dashboard.
UpdateThrows(m) ==
    /\ Fault
    /\ pc[m] \in UpdateTry /\ ~(ByDashboard(m) /\ pc[m] = "tell")
    /\ GoTo(m, "apologize")
    /\ UNCHANGED <<rows, jobVars, at, received, auditVars, told>>

\* createEscalation catches what notifying throws.
NotifyFails(m) ==
    /\ Fault
    /\ pc[m] \in {"notify", "stamp"}
    /\ GoTo(m, "audit")
    /\ UNCHANGED <<rows, jobVars, at, received, auditVars, told>>

\* An INSERT whose answer is lost ends the attempt.
InsertUnanswered(m) ==
    /\ Fault
    /\ pc[m] = "insert"
    /\ AppendRow(m)
    /\ AttemptFails(m)
    /\ UNCHANGED <<text, received, auditVars, told>>

\* The inbound worker dies, or the gateway.
WorkerCrash ==
    LET running == {m \in Messages : job[m].state = "active"}
    IN  /\ Fault
        /\ running # {}
        /\ job' = [m \in Messages |-> IF m \in running THEN Stalled(job[m]) ELSE job[m]]
        /\ End(running)
        /\ UNCHANGED <<rows, text, received, auditVars, told>>

GatewayCrash ==
    LET running == {m \in Messages : ByDashboard(m) /\ pc[m] # "idle"}
    IN  /\ Fault
        /\ running # {}
        /\ End(running)
        /\ UNCHANGED <<rows, jobVars, received, auditVars, told>>

-----------------------------------------------------------------------------

HandlerStep(m) ==
    \/ TakeJob(m)
    \/ LogBlock(m)
    \/ CreateEscalation(m)
    \/ Notify(m)
    \/ StampNotified(m)
    \/ LogCreated(m)
    \/ \E i \in RowNumbers : FindEscalation(m, i)
    \/ NoneFound(m)
    \/ UpdateStatus(m)
    \/ LogChange(m)
    \/ Reply(m)
    \/ CompleteJob(m)
    \/ EndRequest(m)

Next ==
    \/ \E m \in Messages :
          \/ \E words \in FromResident \cup FromSecretary : Send(m, words)
          \/ \E words \in FromDashboard : PostStatus(m, words)
          \/ HandlerStep(m)
          \/ HandlerThrows(m)
          \/ UpdateThrows(m)
          \/ NotifyFails(m)
          \/ InsertUnanswered(m)
    \/ WorkerCrash
    \/ GatewayCrash

Spec == Init /\ [][Next]_vars

-----------------------------------------------------------------------------
(* Properties.                                                             *)

\* Every variable has its type, and row numbers are those of rows there are.
TypeOK ==
    /\ rows \in Seq(Row)
    /\ text \in [Messages -> {NoText} \cup FromResident \cup FromSecretary \cup FromDashboard]
    /\ job \in [Messages -> BoundedJob]
    /\ pc \in [Messages -> Steps]
    /\ at \in [Messages -> RowNumbers \cup {0}]
    /\ received \subseteq RowNumbers
    /\ blocks \in [Messages -> Nat]
    /\ created \subseteq RowNumbers
    /\ trail \subseteq RowNumbers \X Status
    /\ told \in [Messages -> RowNumbers \cup {0}]
    /\ faults \in 0..MaxFaults

Of(m) == {i \in RowNumbers : rows[i].by = m}

\* A message opens one escalation, and one more for each fault that ended an
\* attempt: a message that is both forbidden and a trigger escalates once.
EscalationsCostFaults == \A m \in Messages : Cardinality(Of(m)) <= 1 + faults

Unheard(m) == {i \in Of(m) \ received : ~(at[m] = i /\ pc[m] = "notify")}
Unrecorded(m) == {i \in Of(m) \ created :
                     ~(at[m] = i /\ pc[m] \in {"notify", "stamp", "audit"})}

\* The secretary misses an escalation, and the audit log lacks its creation,
\* only because of a fault each time or while the handler is on its way there;
\* and one whose notified_secretary_at is set was not missed.
OmissionsCostFaults ==
    /\ \A m \in Messages : /\ Cardinality(Unheard(m)) <= faults
                           /\ Cardinality(Unrecorded(m)) <= faults
    /\ \A i \in RowNumbers : rows[i].notified => i \in received

\* Every escalation of a forbidden request has its blocked_forbidden_action
\* row, written before it, whatever fails and is retried.
BlocksOnRecord ==
    \A m \in Messages :
        text[m].kind = "forbidden" => Cardinality(Of(m)) <= blocks[m]

\* A resident is given the reference of an escalation of his own message that
\* is on the audit log; the secretary, in chat or on the dashboard, is told only
\* of a change that is on it, to a row that his reference names.
RepliesTruthful ==
    \A m \in Messages : told[m] # 0 =>
        IF ByResident(m)
        THEN rows[told[m]].by = m /\ told[m] \in created
        ELSE told[m] \in text[m].ref /\ <<told[m], text[m].kind>> \in trail

\* However "ack", "resolve" and the dashboard interleave, the status a row has is one the
\* audit log says it got, but for a change being logged and for faults.
ChangesOnRecord ==
    \A i \in RowNumbers :
        \/ rows[i].status = "pending"
        \/ <<i, rows[i].status>> \in trail
        \/ \E m \in Messages : /\ pc[m] = "log" /\ at[m] = i
                               /\ text[m].kind = rows[i].status
        \/ faults > 0

\* However often its handling failed, a resident's message is only done with
\* when its author holds a reference to an escalation, and without faults the
\* secretary was notified of that one.
DoneMeansHeard ==
    \A m \in Messages : ByResident(m) /\ job[m].state = "completed" =>
        told[m] # 0 /\ (told[m] \in received \/ faults > 0)

(* What docs/escalation-engine.md says and the code does not do.           *)

\* "escalations.status: pending -> acknowledged -> resolved (the secretary can
\* also jump straight to resolved)": never back.
Rank(status) ==
    CASE status = "pending" -> 0 [] status = "acknowledged" -> 1 [] status = "resolved" -> 2
EscalationsMoveForward ==
    [][\A i \in RowNumbers : Rank(rows[i].status) <= Rank(rows'[i].status)]_vars
=============================================================================
