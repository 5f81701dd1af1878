----------------------------- MODULE Broadcast ------------------------------
(***************************************************************************)
(* The life of an announcement: the secretary's "draft" and "approve"      *)
(* messages, each an inbound job handled concurrently with others          *)
(* (gateway/orchestrator.ts, modules/broadcast.ts), the announcements      *)
(* table behind them (tools/broadcastTool.ts), the queue of scheduled      *)
(* sends (gateway/broadcastQueue.ts) and the worker that runs it           *)
(* (gateway/broadcastWorker.ts).                                           *)
(*                                                                         *)
(* No database transaction spans two statements in this code, so every     *)
(* awaited call is a step of its own.  A process is an inbound command or  *)
(* the broadcast worker; pc[p] names the call p is about to make.  A       *)
(* scheduled_at of null is the time 0: the code treats both as "now".      *)
(***************************************************************************)
EXTENDS Integers, FiniteSets, Jobs

CONSTANTS Announcements,  \* ids of announcements rows
          Commands,       \* ids of messages to the secretary's number
          Approvers,      \* phone numbers that write to that number
          Prefixes,       \* the sets of ids a typed <ref> can match
          Worker,         \* the broadcast worker (concurrency 1)
          None,           \* null
          Concurrency,    \* INBOUND_QUEUE_CONCURRENCY
          MaxTime,        \* bound on the clock
          MaxFaults       \* bound on the injected errors and crashes

Times == 0..MaxTime

ASSUME ConstantsAssumption ==
    /\ Prefixes \subseteq SUBSET Announcements
    /\ Worker \notin Commands
    /\ None \notin Announcements \cup Approvers \cup Times
    /\ Concurrency \in Nat \ {0}
    /\ MaxTime \in Nat /\ MaxFaults \in Nat

VARIABLES now,        \* Date.now()
          rows,       \* the announcements table
          command,    \* the text of each inbound message
          inbound,    \* its job on the inbound queue
          scheduled,  \* the job of each announcement on the broadcast queue
          dueAt,      \* when its delay is over
          pc,         \* the call each process is about to make
          found,      \* the row each process read last
          runAt,      \* the scheduled_at an approve handler read first
          approver,   \* the approvedBy the worker read
          overlaps,   \* times a row was found pending while whoever had found it
                      \* so was yet to write it; no process reads this
          begun,      \* fan-outs begun, per announcement
          sent,       \* fan-outs completed, per announcement
          audits,     \* broadcast_sent audit rows, per announcement
          replied,    \* the last reply the author of a command received
          faults      \* errors and crashes so far

vars == <<now, rows, command, inbound, scheduled, dueAt, pc, found, runAt,
          approver, overlaps, begun, sent, audits, replied, faults>>

Processes == Commands \cup {Worker}

-----------------------------------------------------------------------------
ActiveCommands == {c \in Commands : inbound[c].state = "active"}

-----------------------------------------------------------------------------
(* The announcements table.                                                *)

Statuses == {"none", "pending_approval", "approved", "broadcast"}
Row == [status : Statuses, approvedBy : Approvers \cup {None}, at : Times]

Exists(a) == rows[a].status # "none"
\* findByPrefix has no ORDER BY: any row the prefix matches may come back.
Matches(c) == {a \in command[c].prefix : Exists(a)}
\* Mutant of Pending: any row will do.
PendingOrNot(a) == Exists(a)
Pending(a) == rows[a].status = "pending_approval"
MayRunNow(a) == rows[a].at <= now

GoTo(p, step) == pc' = [pc EXCEPT ![p] = step]

(* The order of the calls, and plausible mistakes in it.                   *)

\* Mutant of AfterDraft: drafting sends.
SendDraft == "recipients"
AfterDraft == "preview"

AfterGet(a) == IF MayRunNow(a) THEN "recheck" ELSE "mark"

\* Mutant of AfterRecheck: the job is enqueued and the row never marked.
EnqueueUnmarked(step) == IF step = "mark" THEN "enqueue" ELSE "recipients"
AfterRecheck(step) == IF step = "mark" THEN "approve" ELSE "recipients"

\* Mutant of AfterMarking: scheduleBroadcast is forgotten.
TellAtOnce == "tellScheduled"
AfterMarking == "enqueue"

\* Mutant of AfterBeginning: the fan-out is not awaited.
FinalizeAtOnce == "finalize"
AfterBeginning == "fanout"

\* Mutant of AfterFinalizing: the immediate path has no logSent.
LogScheduledOnly(p) == IF p = Worker THEN "audit" ELSE "tellSent"
AfterFinalizing(p) == "audit"

(* The calls an approve command makes inside its try block. *)
ApproveTry == {"get", "mark", "approve", "enqueue", "recheck", "recipients",
               "fanout", "finalize", "audit", "tellScheduled", "tellSent"}
CommandSteps == ApproveTry \cup {"idle", "draft", "preview", "apologize", "done"}
WorkerSteps == {"idle", "load", "recipients", "fanout", "finalize", "audit", "done"}

NoCommand == [kind |-> "none", prefix |-> {}, at |-> 0, by |-> None]
Command == [kind : {"none", "draft", "approve"}, prefix : SUBSET Announcements,
            at : Times, by : Approvers \cup {None}]

Init ==
    /\ now = 0
    /\ rows = [a \in Announcements |->
                  [status |-> "none", approvedBy |-> None, at |-> 0]]
    /\ command = [c \in Commands |-> NoCommand]
    /\ inbound = [c \in Commands |-> NoJob]
    /\ scheduled = [a \in Announcements |-> NoJob]
    /\ dueAt = [a \in Announcements |-> 0]
    /\ pc = [p \in Processes |-> "idle"]
    /\ found = [p \in Processes |-> None]
    /\ runAt = [c \in Commands |-> 0]
    /\ approver = None
    /\ overlaps = [a \in Announcements |-> 0]
    /\ begun = [a \in Announcements |-> 0]
    /\ sent = [a \in Announcements |-> 0]
    /\ audits = [a \in Announcements |-> 0]
    /\ replied = [c \in Commands |-> "none"]
    /\ faults = 0

handlerVars == <<command, inbound, replied>>
queueVars == <<scheduled, dueAt>>
readVars == <<found, runAt, approver, overlaps>>
historyVars == <<begun, sent, audits>>

-----------------------------------------------------------------------------
(* Time and the inbound queue.                                             *)

Tick ==
    /\ now < MaxTime
    /\ now' = now + 1
    /\ UNCHANGED <<rows, queueVars, pc, readVars, faults, handlerVars,
                   historyVars>>

\* The secretary's message reaches the webhook, which enqueues it.
SecretarySends(c, text) ==
    /\ inbound[c].state = "absent"
    /\ command' = [command EXCEPT ![c] = text]
    /\ inbound' = [inbound EXCEPT ![c] = NewJob]
    /\ UNCHANGED <<now, rows, queueVars, pc, readVars, faults, replied,
                   historyVars>>

TakeCommand(c) ==
    /\ inbound[c].state = "waiting"
    /\ Cardinality(ActiveCommands) < Concurrency
    /\ inbound' = [inbound EXCEPT ![c] = Taken(@)]
    /\ GoTo(c, IF command[c].kind = "draft" THEN "draft" ELSE "get")
    /\ UNCHANGED <<now, rows, queueVars, readVars, faults, command, replied,
                   historyVars>>

CompleteCommand(c) ==
    /\ pc[c] = "done"
    /\ inbound' = [inbound EXCEPT ![c] = Completed(@)]
    /\ GoTo(c, "idle")
    /\ UNCHANGED <<now, rows, queueVars, readVars, faults, command, replied,
                   historyVars>>

Reply(c, step, outcome) ==
    /\ pc[c] = step
    /\ replied' = [replied EXCEPT ![c] = outcome]
    /\ GoTo(c, "done")
    /\ UNCHANGED <<now, rows, queueVars, readVars, faults, command, inbound,
                   historyVars>>

-----------------------------------------------------------------------------
(* Drafting: the row is inserted as pending_approval, the preview follows. *)

InsertDraft(c, a) ==
    /\ pc[c] = "draft"
    /\ ~Exists(a)
    /\ rows' = [rows EXCEPT ![a] = [status |-> "pending_approval",
                                    approvedBy |-> None,
                                    at |-> command[c].at]]
    /\ found' = [found EXCEPT ![c] = a]
    /\ GoTo(c, AfterDraft)
    /\ UNCHANGED <<now, queueVars, runAt, approver, overlaps, faults, handlerVars,
                   historyVars>>

\* The ids are a bound: a draft beyond Announcements is a row nobody approves.
InsertUntracked(c) ==
    /\ pc[c] = "draft"
    /\ \A a \in Announcements : Exists(a)
    /\ GoTo(c, "preview")
    /\ UNCHANGED <<now, rows, queueVars, readVars, faults, handlerVars,
                   historyVars>>

-----------------------------------------------------------------------------
(* approveAnnouncement.  Each of its three lookups goes by prefix again    *)
(* and throws unless the row it gets is pending.                           *)

LookupFails(c) ==
    /\ pc[c] \in {"get", "mark", "recheck"}
    /\ \/ Matches(c) = {}
       \/ \E a \in Matches(c) : ~Pending(a)
    /\ GoTo(c, "apologize")
    /\ UNCHANGED <<now, rows, queueVars, readVars, faults, handlerVars,
                   historyVars>>

\* getAnnouncement, then the choice between sending now and scheduling.
GetAnnouncement(c, a) ==
    /\ pc[c] = "get"
    /\ a \in Matches(c) /\ Pending(a)
    /\ found' = [found EXCEPT ![c] = a]
    /\ runAt' = [runAt EXCEPT ![c] = rows[a].at]
    /\ GoTo(c, AfterGet(a))
    /\ UNCHANGED <<now, rows, queueVars, approver, overlaps, faults, handlerVars,
                   historyVars>>

\* The handlers that found the row pending and are yet to write it.
Undecided(a) ==
    {c \in Commands : /\ found[c] = a
                      /\ pc[c] \in {"approve", "recipients", "fanout", "finalize"}}

\* The SELECT of markApprovedForSchedule and of approveAndSend.
Recheck(c, a) ==
    /\ pc[c] \in {"mark", "recheck"}
    /\ a \in Matches(c) /\ Pending(a)
    /\ found' = [found EXCEPT ![c] = a]
    /\ overlaps' = [overlaps EXCEPT ![a] = IF Undecided(a) = {} THEN @ ELSE @ + 1]
    /\ GoTo(c, AfterRecheck(pc[c]))
    /\ UNCHANGED <<now, rows, queueVars, runAt, approver, faults, handlerVars,
                   historyVars>>

\* The UPDATE of markApprovedForSchedule: by id alone, whatever the status.
MarkApproved(c) ==
    /\ pc[c] = "approve"
    /\ rows' = [rows EXCEPT ![found[c]] =
                   [@ EXCEPT !.status = "approved", !.approvedBy = command[c].by]]
    /\ GoTo(c, AfterMarking)
    /\ UNCHANGED <<now, queueVars, readVars, faults, handlerVars, historyVars>>

\* scheduleBroadcast: BullMQ ignores an add whose jobId it already holds.
ScheduleBroadcast(c) ==
    /\ pc[c] = "enqueue"
    /\ scheduled' = [scheduled EXCEPT ![found[c]] =
                        IF @.state = "absent" THEN NewJob ELSE @]
    /\ dueAt' = IF scheduled[found[c]].state = "absent"
                THEN [dueAt EXCEPT ![found[c]] = runAt[c]] ELSE dueAt
    /\ GoTo(c, "tellScheduled")
    /\ UNCHANGED <<now, rows, readVars, faults, handlerVars, historyVars>>

-----------------------------------------------------------------------------
(* sendAndFinalize and logSent, run by a handler or by the worker.         *)

\* Mutant of ApprovedBy: the worker forgets who approved.
ApprovedByCommand(p) == IF p = Worker THEN None ELSE command[p].by
ApprovedBy(p) == IF p = Worker THEN approver ELSE command[p].by

\* listAllPhones, then broadcastMessage starts fanning out.
BeginFanout(p) ==
    /\ pc[p] = "recipients"
    /\ begun' = [begun EXCEPT ![found[p]] = @ + 1]
    /\ GoTo(p, AfterBeginning)
    /\ UNCHANGED <<now, rows, queueVars, readVars, faults, handlerVars, sent,
                   audits>>

FinishFanout(p) ==
    /\ pc[p] = "fanout"
    /\ sent' = [sent EXCEPT ![found[p]] = @ + 1]
    /\ GoTo(p, "finalize")
    /\ UNCHANGED <<now, rows, queueVars, readVars, faults, handlerVars, begun,
                   audits>>

\* UPDATE ... SET status = 'broadcast' WHERE id = row.id.
Finalize(p) ==
    /\ pc[p] = "finalize"
    /\ rows' = [rows EXCEPT ![found[p]] =
                   [@ EXCEPT !.status = "broadcast", !.approvedBy = ApprovedBy(p)]]
    /\ GoTo(p, AfterFinalizing(p))
    /\ UNCHANGED <<now, queueVars, readVars, faults, handlerVars, historyVars>>

LogSent(p) ==
    /\ pc[p] = "audit"
    /\ audits' = [audits EXCEPT ![found[p]] = @ + 1]
    /\ GoTo(p, IF p = Worker THEN "done" ELSE "tellSent")
    /\ UNCHANGED <<now, rows, queueVars, readVars, faults, handlerVars, begun,
                   sent>>

-----------------------------------------------------------------------------
(* The broadcast worker.                                                   *)

\* Mutant of DelayOver: the job is added without its delay.
Undelayed(a) == TRUE
DelayOver(a) == dueAt[a] <= now

TakeScheduled(a) ==
    /\ pc[Worker] = "idle"
    /\ scheduled[a].state = "waiting"
    /\ DelayOver(a)
    /\ scheduled' = [scheduled EXCEPT ![a] = Taken(@)]
    /\ found' = [found EXCEPT ![Worker] = a]
    /\ GoTo(Worker, "load")
    /\ UNCHANGED <<now, rows, dueAt, runAt, approver, overlaps, faults, handlerVars,
                   historyVars>>

\* Mutant of Sendable: the check of the immediate path.
SendableIfPending(a) == rows[a].status = "pending_approval"
Sendable(a) == rows[a].status = "approved" /\ rows[a].approvedBy # None

\* sendApprovedAnnouncement's SELECT finds the row as it has to be ...
LoadApproved ==
    /\ pc[Worker] = "load"
    /\ Sendable(found[Worker])
    /\ approver' = rows[found[Worker]].approvedBy
    /\ GoTo(Worker, "recipients")
    /\ UNCHANGED <<now, rows, queueVars, found, runAt, overlaps, faults, handlerVars,
                   historyVars>>

EndAttempt(job) ==
    /\ scheduled' = [scheduled EXCEPT ![found[Worker]] = job]
    /\ GoTo(Worker, "idle")
    /\ UNCHANGED <<now, rows, dueAt, readVars, handlerVars, historyVars>>

\* ... or throws.
RefuseToSend ==
    /\ pc[Worker] = "load"
    /\ ~Sendable(found[Worker])
    /\ EndAttempt(Retried(scheduled[found[Worker]]))
    /\ UNCHANGED faults

CompleteScheduled ==
    /\ pc[Worker] = "done"
    /\ EndAttempt(Completed(scheduled[found[Worker]]))
    /\ UNCHANGED faults

-----------------------------------------------------------------------------
(* What can go wrong.  An error may surface before the effect of a call or *)
(* after it: the latter is the error of the next call here, or of the      *)
(* reply itself, which is the last one.                                    *)

Fault == faults < MaxFaults /\ faults' = faults + 1

\* Inside the try block of "approve" the handler answers "Couldn't approve".
ApproveThrows(c) ==
    /\ Fault
    /\ pc[c] \in ApproveTry \ {"fanout"}
    /\ GoTo(c, "apologize")
    /\ UNCHANGED <<now, rows, queueVars, readVars, handlerVars, historyVars>>

\* Elsewhere, and in getOrCreateSession before the first call, it ends the attempt
\* of the inbound job.
CommandThrows(c) ==
    /\ Fault
    /\ pc[c] \in {"draft", "get", "preview", "apologize"}
    /\ inbound' = [inbound EXCEPT ![c] = Retried(@)]
    /\ GoTo(c, "idle")
    /\ UNCHANGED <<now, rows, queueVars, readVars, command, replied, historyVars>>

\* The reply arrives, its answer does not: "sent" is followed by an apology.
ReplyUnanswered(c, step, outcome) ==
    /\ Fault
    /\ pc[c] = step
    /\ replied' = [replied EXCEPT ![c] = outcome]
    /\ IF step \in ApproveTry
       THEN GoTo(c, "apologize") /\ UNCHANGED inbound
       ELSE GoTo(c, "idle") /\ inbound' = [inbound EXCEPT ![c] = Retried(@)]
    /\ UNCHANGED <<now, rows, queueVars, readVars, command, historyVars>>

\* broadcastMessage reports failed recipients and never throws.
WorkerThrows ==
    /\ Fault
    /\ pc[Worker] \in WorkerSteps \ {"idle", "fanout"}
    /\ EndAttempt(Retried(scheduled[found[Worker]]))

\* The inbound worker's process dies with everything it was doing.
InboundCrash ==
    /\ Fault
    /\ ActiveCommands # {}
    /\ inbound' = [c \in Commands |->
                      IF c \in ActiveCommands THEN Stalled(inbound[c])
                                              ELSE inbound[c]]
    /\ pc' = [p \in Processes |-> IF p \in ActiveCommands THEN "idle" ELSE pc[p]]
    /\ UNCHANGED <<now, rows, queueVars, readVars, command, replied, historyVars>>

WorkerCrash ==
    /\ Fault
    /\ pc[Worker] # "idle"
    /\ EndAttempt(Stalled(scheduled[found[Worker]]))

-----------------------------------------------------------------------------

Drafts == [kind : {"draft"}, prefix : {{}}, at : Times, by : Approvers]
Approvals == [kind : {"approve"}, prefix : Prefixes, at : {0}, by : Approvers]

\* What the secretary is told, by the step that tells it.
Replies == {<<"preview", "preview">>, <<"tellScheduled", "scheduled">>,
            <<"tellSent", "sent">>, <<"apologize", "error">>}

FinishSend(p) == BeginFanout(p) \/ FinishFanout(p) \/ Finalize(p) \/ LogSent(p)

CommandStep(c) ==
    \/ TakeCommand(c)
    \/ \E a \in Announcements : InsertDraft(c, a)
    \/ InsertUntracked(c)
    \/ LookupFails(c)
    \/ \E a \in Announcements : GetAnnouncement(c, a) \/ Recheck(c, a)
    \/ MarkApproved(c)
    \/ ScheduleBroadcast(c)
    \/ FinishSend(c)
    \/ \E reply \in Replies : Reply(c, reply[1], reply[2])
    \/ CompleteCommand(c)

WorkerStep ==
    \/ \E a \in Announcements : TakeScheduled(a)
    \/ LoadApproved
    \/ RefuseToSend
    \/ FinishSend(Worker)
    \/ CompleteScheduled

Next ==
    \/ Tick
    \/ \E c \in Commands : \/ \E text \in Drafts \cup Approvals : SecretarySends(c, text)
                           \/ CommandStep(c)
                           \/ ApproveThrows(c)
                           \/ CommandThrows(c)
                           \/ \E reply \in Replies : ReplyUnanswered(c, reply[1], reply[2])
    \/ WorkerStep
    \/ WorkerThrows
    \/ InboundCrash
    \/ WorkerCrash

Spec == Init /\ [][Next]_vars

\* Both workers keep taking jobs and time passes; nobody has to write.
FairSpec ==
    /\ Spec
    /\ WF_vars(Tick)
    /\ \A c \in Commands : WF_vars(CommandStep(c))
    /\ WF_vars(WorkerStep)

-----------------------------------------------------------------------------
(* Properties.                                                             *)

Outcomes == {"none", "preview", "scheduled", "sent", "error"}

\* Every variable has its type; no job is tried more often than its options
\* allow (attempts: 3 in gateway/queue.ts and gateway/broadcastQueue.ts).
TypeOK ==
    /\ now \in Times
    /\ rows \in [Announcements -> Row]
    /\ command \in [Commands -> Command]
    /\ inbound \in [Commands -> BoundedJob]
    /\ scheduled \in [Announcements -> BoundedJob]
    /\ dueAt \in [Announcements -> Times]
    /\ pc \in [Processes -> CommandSteps \cup WorkerSteps]
    /\ found \in [Processes -> Announcements \cup {None}]
    /\ runAt \in [Commands -> Times]
    /\ approver \in Approvers \cup {None}
    /\ overlaps \in [Announcements -> Nat]
    /\ begun \in [Announcements -> Nat]
    /\ sent \in [Announcements -> Nat]
    /\ audits \in [Announcements -> Nat]
    /\ replied \in [Commands -> Outcomes]
    /\ faults \in 0..MaxFaults

\* What the secretary's refs are when nobody abbreviates them into another.
UniquePrefixes == \A S \in Prefixes : \A a, b \in S : a = b

Authorised(a) ==
    \E c \in Commands : command[c].kind = "approve" /\ a \in command[c].prefix

\* No announcement goes out that no "approve" message names.
NeverUnapproved == \A a \in Announcements : begun[a] > 0 => Authorised(a)

\* A row says broadcast only after a whole fan-out of that announcement.
BroadcastMeansSent ==
    \A a \in Announcements : rows[a].status = "broadcast" => sent[a] > 0

\* Every audit row stands for a fan-out of its own that ran to the end.
Unlogged(a) == {p \in Processes : found[p] = a /\ pc[p] \in {"finalize", "audit"}}
AuditsMatchFanouts ==
    \A a \in Announcements : /\ audits[a] + Cardinality(Unlogged(a)) <= sent[a]
                             /\ sent[a] <= begun[a]

\* The secretary is told "sent" only of a send on record, and "it'll
\* broadcast automatically" only when a job for it is on the queue.  An
\* ambiguous ref is excepted: what the retry finds may be another row.
RepliesTruthful ==
    \A c \in Commands :
        /\ replied[c] = "sent" => audits[found[c]] > 0
        /\ replied[c] = "scheduled" => scheduled[found[c]].state # "absent"

\* A job on the broadcast queue belongs to an announcement that is approved
\* or already sent, so the worker can only ever refuse a stale one.
JobsAreApproved ==
    \A a \in Announcements :
        scheduled[a].state # "absent" => rows[a].status \in {"approved", "broadcast"}

\* Once approved an announcement is never pending again, whatever fails: no
\* second preview, and its schedule and approver stay on record.
ApprovalIsFinal ==
    [][\A a \in Announcements :
          rows[a].status \in {"approved", "broadcast"} =>
              /\ rows'[a].status \in {"approved", "broadcast"}
              /\ rows'[a].approvedBy # None
              /\ rows'[a].at = rows[a].at]_vars

\* However many commands are handled at a time, every fan-out after the first is
\* the price of an error or a crash, or of two approvals that both found the row
\* pending, one price for each: else residents hear of an announcement once.
FanoutsHaveCauses ==
    \A a \in Announcements : begun[a] <= 1 + faults + overlaps[a]

\* A completed fan-out lacks its audit row only while it is being written, for an
\* error or a crash, or because a crash also killed another that overlapped it.
MissingAuditsHaveCauses ==
    \A a \in Announcements :
        sent[a] <= audits[a] + Cardinality(Unlogged(a)) + faults + overlaps[a]

\* Every message of the secretary is answered or given up on.
CommandsEnd ==
    \A c \in Commands :
        inbound[c].state = "waiting" ~> inbound[c].state \in {"completed", "failed"}

\* Handled one at a time and without faults, what is approved is sent.
ApprovedIsSent ==
    \A a \in Announcements :
        rows[a].status = "approved" ~> (rows[a].status = "broadcast" \/ faults > 0)

(* What the code's own comments and docs say, and the code does not do.    *)

\* The transitions of tools/broadcastTool.ts lead forward only.
Rank(status) == CASE status = "none" -> 0 [] status = "pending_approval" -> 1
                  [] status = "approved" -> 2 [] status = "broadcast" -> 3
StatusMovesForward ==
    [][\A a \in Announcements : Rank(rows[a].status) <= Rank(rows'[a].status)]_vars

\* An approval whose message was retried leaves a job on the queue:
\* "re-approving the same announcement (e.g. a retried secretary message)
\* replaces the pending job instead of double-scheduling it".
AllCommandsOver ==
    \A c \in Commands : inbound[c].state \in {"absent", "completed", "failed"}
RetriedApprovalSchedules ==
    \A c \in Commands, a \in Announcements :
        /\ AllCommandsOver
        /\ inbound[c].attempts + inbound[c].stalls > 0
        /\ a \in command[c].prefix
        /\ rows[a].status = "approved"
        => scheduled[a].state # "absent"

\* "Every successful send writes one audit_logs row": once all is quiet, a
\* row that says broadcast has one.
BroadcastIsAudited ==
    AllCommandsOver /\ pc[Worker] = "idle" =>
        \A a \in Announcements : /\ rows[a].status = "broadcast"
                                 /\ scheduled[a].state # "waiting"
                                 => audits[a] > 0

-----------------------------------------------------------------------------
(* Broadcast implements the contract when refs are unambiguous.            *)

Contract == INSTANCE AnnouncementContract
    WITH Undrafted <- None,
         clock <- now,
         schedule <- [a \in Announcements |-> IF Exists(a) THEN rows[a].at ELSE None],
         authorised <- {a \in Announcements : Authorised(a)},
         deliveries <- begun,
         logged <- audits

KeepsContract == Contract!ContractSpec
=============================================================================
