------------------------------- MODULE Tickets ------------------------------
(***************************************************************************)
(* Filing complaints: every complaint message is an inbound job, handled   *)
(* concurrently with others (gateway/inboundWorker.ts), whose handler      *)
(* draws the next ticket number of the year by counting the rows there     *)
(* are, inserts the row, notifies the secretary, audits and replies        *)
(* (gateway/orchestrator.ts, modules/complaints.ts,                        *)
(* tools/complaintTool.ts).  The column ticket_id is unique, so a number   *)
(* drawn twice fails the slower insert, and BullMQ runs the whole handler  *)
(* again.                                                                  *)
(***************************************************************************)
EXTENDS Integers, Sequences, FiniteSets, Jobs

CONSTANTS Messages,     \* complaint messages
          Concurrency,  \* INBOUND_QUEUE_CONCURRENCY
          MaxYear,      \* bound on the years that pass
          MaxFaults     \* bound on the injected errors and crashes

ASSUME TicketsAssumption ==
    /\ IsFiniteSet(Messages)
    /\ Concurrency \in Nat \ {0}
    /\ MaxYear \in Nat /\ MaxFaults \in Nat

VARIABLES year,      \* new Date().getFullYear()
          tickets,   \* the complaints table, in the order of the inserts
          job,       \* the inbound job of each message
          pc,        \* the call its handler is about to make
          drawn,     \* the ticket id it has drawn
          filed,     \* the row it has inserted
          audits,    \* complaint_created audit rows of each message
          replied,   \* the row its author was last given as his ticket
          faults     \* errors and crashes so far

vars == <<year, tickets, job, pc, drawn, filed, audits, replied, faults>>

Years == 0..MaxYear
TicketId == [year : Years, number : Nat \ {0}]
NoTicket == [year |-> 0, number |-> 0]

Steps == {"idle", "count", "insert", "audit", "reply", "record"}

Init ==
    /\ year = 0
    /\ tickets = <<>>
    /\ job = [m \in Messages |-> NoJob]
    /\ pc = [m \in Messages |-> "idle"]
    /\ drawn = [m \in Messages |-> NoTicket]
    /\ filed = [m \in Messages |-> 0]
    /\ audits = [m \in Messages |-> 0]
    /\ replied = [m \in Messages |-> 0]
    /\ faults = 0

GoTo(m, step) == pc' = [pc EXCEPT ![m] = step]
tableVars == <<tickets, audits>>
localVars == <<drawn, filed>>

\* The handlers of the messages in S end, their local variables with them.
End(S) ==
    /\ pc' = [m \in Messages |-> IF m \in S THEN "idle" ELSE pc[m]]
    /\ drawn' = [m \in Messages |-> IF m \in S THEN NoTicket ELSE drawn[m]]
    /\ filed' = [m \in Messages |-> IF m \in S THEN 0 ELSE filed[m]]

-----------------------------------------------------------------------------
(* The calendar and the inbound queue.                                     *)

NewYear ==
    /\ year < MaxYear
    /\ year' = year + 1
    /\ UNCHANGED <<tableVars, job, pc, localVars, replied, faults>>

ResidentSends(m) ==
    /\ job[m].state = "absent"
    /\ job' = [job EXCEPT ![m] = NewJob]
    /\ UNCHANGED <<year, tableVars, pc, localVars, replied, faults>>

TakeJob(m) ==
    /\ job[m].state = "waiting"
    /\ Cardinality({n \in Messages : job[n].state = "active"}) < Concurrency
    /\ job' = [job EXCEPT ![m] = Taken(@)]
    /\ GoTo(m, "count")
    /\ UNCHANGED <<year, tableVars, localVars, replied, faults>>

\* replyAndRecord appends the reply to the conversation, and the job is done.
CompleteJob(m) ==
    /\ pc[m] = "record"
    /\ job' = [job EXCEPT ![m] = Completed(@)]
    /\ End({m})
    /\ UNCHANGED <<year, tableVars, replied, faults>>

AttemptFails(m) ==
    /\ job' = [job EXCEPT ![m] = Retried(@)]
    /\ End({m})

-----------------------------------------------------------------------------
(* createComplaint.                                                        *)

Of(y) == {i \in 1..Len(tickets) : tickets[i].id.year = y}

\* Mutant of NextNumber: every row counts, whatever its year.
NextNumberEver(y) == Len(tickets) + 1
\* Mutant of NextNumber: the + 1 is forgotten.
LastNumber(y) == Cardinality(Of(y))
\* Mutant of NextNumber: the LIKE pattern matches no row.
FirstNumber(y) == 1
NextNumber(y) == Cardinality(Of(y)) + 1

DrawTicket(m) ==
    /\ pc[m] = "count"
    /\ drawn' = [drawn EXCEPT ![m] = [year |-> year, number |-> NextNumber(year)]]
    /\ GoTo(m, "insert")
    /\ UNCHANGED <<year, tableVars, job, filed, replied, faults>>

\* Mutant of InUse: without the unique constraint.
NeverInUse(id) == FALSE
InUse(id) == \E i \in 1..Len(tickets) : tickets[i].id = id

Insert(m) ==
    /\ ~InUse(drawn[m])
    /\ tickets' = Append(tickets, [id |-> drawn[m], by |-> m])

InsertTicket(m) ==
    /\ pc[m] = "insert"
    /\ Insert(m)
    /\ filed' = [filed EXCEPT ![m] = Len(tickets) + 1]
    /\ drawn' = [drawn EXCEPT ![m] = NoTicket]
    /\ GoTo(m, "audit")
    /\ UNCHANGED <<year, audits, job, replied, faults>>

\* The number was drawn twice: unique violation.
InsertCollides(m) ==
    /\ pc[m] = "insert"
    /\ InUse(drawn[m])
    /\ AttemptFails(m)
    /\ UNCHANGED <<year, tableVars, replied, faults>>

-----------------------------------------------------------------------------
(* The rest of fileComplaint and of the orchestrator's branch.  The notice *)
(* to the secretary is best effort, its error is swallowed and nothing     *)
(* depends on it: it is part of the step that writes the audit row.        *)

\* Mutant of AfterLog: the message is dispatched once more.
FileAgain == "count"
AfterLog == "reply"

LogAction(m) ==
    /\ pc[m] = "audit"
    /\ audits' = [audits EXCEPT ![m] = @ + 1]
    /\ GoTo(m, AfterLog)
    /\ UNCHANGED <<year, tickets, job, localVars, replied, faults>>

TicketOfReply(m) == filed[m]


Reply(m) ==
    /\ pc[m] = "reply"
    /\ replied' = [replied EXCEPT ![m] = TicketOfReply(m)]
    /\ GoTo(m, "record")
    /\ UNCHANGED <<year, tableVars, job, drawn, filed, faults>>

-----------------------------------------------------------------------------
(* Errors and crashes.  A call may fail before or after its effect; the    *)
(* latter is the error of the call that follows it, but for the insert,    *)
(* which a notice that swallows errors follows.                            *)

Fault == faults < MaxFaults /\ faults' = faults + 1

HandlerThrows(m) ==
    /\ Fault
    /\ pc[m] # "idle"
    /\ AttemptFails(m)
    /\ UNCHANGED <<year, tableVars, replied>>

\* The row is in, and the handler never learns it.
InsertUnanswered(m) ==
    /\ Fault
    /\ pc[m] = "insert"
    /\ Insert(m)
    /\ AttemptFails(m)
    /\ UNCHANGED <<year, audits, replied>>

\* The process of the inbound worker dies with all its handlers.
Crash ==
    /\ Fault
    /\ \E m \in Messages : pc[m] # "idle"
    /\ job' = [m \in Messages |-> IF pc[m] # "idle" THEN Stalled(job[m]) ELSE job[m]]
    /\ End(Messages)
    /\ UNCHANGED <<year, tableVars, replied>>

-----------------------------------------------------------------------------

HandlerStep(m) ==
    \/ TakeJob(m)
    \/ DrawTicket(m)
    \/ InsertTicket(m)
    \/ InsertCollides(m)
    \/ LogAction(m)
    \/ Reply(m)
    \/ CompleteJob(m)

Next ==
    \/ NewYear
    \/ \E m \in Messages : \/ ResidentSends(m)
                           \/ HandlerStep(m)
                           \/ HandlerThrows(m)
                           \/ InsertUnanswered(m)
    \/ Crash

Spec == Init /\ [][Next]_vars

-----------------------------------------------------------------------------
(* Properties.                                                             *)

\* Every variable has its type; no job is tried more often than it may be.
TypeOK ==
    /\ year \in Years
    /\ tickets \in Seq([id : TicketId, by : Messages])
    /\ job \in [Messages -> BoundedJob]
    /\ pc \in [Messages -> Steps]
    /\ drawn \in [Messages -> TicketId \cup {NoTicket}]
    /\ filed \in [Messages -> 0..Len(tickets)]
    /\ audits \in [Messages -> Nat]
    /\ replied \in [Messages -> 0..Len(tickets)]
    /\ faults \in 0..MaxFaults

\* However the counts and inserts of handlers interleave, a year's tickets
\* are numbered 1, 2, 3, ... in the order they were filed, with no gap.
NumberedInOrder ==
    \A i \in 1..Len(tickets) :
        tickets[i].id.number = Cardinality({j \in Of(tickets[i].id.year) : j <= i})

\* An attempt is used up by a fault or by a ticket somebody else filed: two
\* complaints cannot keep failing each other.
AttemptsCostFaultsOrTickets ==
    \A m \in Messages :
        job[m].attempts <=
            faults + Cardinality({i \in 1..Len(tickets) : tickets[i].by # m})

Filed(m) == {i \in 1..Len(tickets) : tickets[i].by = m}

\* One message files one ticket, and one more for each fault: a retry never
\* files again what an earlier attempt filed undisturbed.
\* A ticket lacks its audit row only on the way to it or because of a fault.
TicketsAndAuditsCostFaults ==
    \A m \in Messages :
        /\ Cardinality(Filed(m)) <= 1 + faults
        /\ Cardinality(Filed(m)) <=
               audits[m] + (IF pc[m] = "audit" THEN 1 ELSE 0) + faults

\* A complaint that is done with was answered with a ticket of its own; and
\* with no more complaints than attempts none is given up on without a fault:
\* the races of nextTicketId alone do not lose a complaint.
RacesLoseNothing ==
    \A m \in Messages :
        /\ job[m].state = "completed" =>
              replied[m] # 0 /\ tickets[replied[m]].by = m
        /\ job[m].state = "failed" /\ Cardinality(Messages) <= MaxAttempts =>
              faults > 0
=============================================================================
