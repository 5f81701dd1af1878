-------------------------- MODULE BroadcastProofs ---------------------------
(***************************************************************************)
(* Proofs about Broadcast for every number of announcements, messages and  *)
(* approvers handled at a time, and any number of faults: the types; that  *)
(* nothing goes out unapproved or early, or is recorded as broadcast       *)
(* unsent; that every audit record stands for a fan-out and an approval is *)
(* final; that a fan-out too many, or an audit record that is missing, is  *)
(* paid for by a fault or by handlers that overlapped; that what the       *)
(* sender of a message is told is so; and that each announcement keeps the *)
(* AnnouncementContract.                                                   *)
(***************************************************************************)
EXTENDS Broadcast, JobsProofs

-----------------------------------------------------------------------------
(* Types.  A job still to be run has attempts left, and a busy process is  *)
(* running a job: the two facts that keep attempts and stalls in bounds.   *)

JobsHaveAttemptsLeft ==
    /\ \A c \in Commands : HasAttemptsLeft(inbound[c])
    /\ \A a \in Announcements : HasAttemptsLeft(scheduled[a])

BusyOnActiveJobs ==
    /\ \A c \in Commands : pc[c] # "idle" => inbound[c].state = "active"
    /\ pc[Worker] # "idle" => /\ found[Worker] \in Announcements
                              /\ scheduled[found[Worker]].state = "active"

TypeInv == TypeOK /\ JobsHaveAttemptsLeft /\ BusyOnActiveJobs

\* The initial state: nothing drafted, nothing queued, nobody at work.
LEMMA TypeInit == Init => TypeInv
    <1> SUFFICES ASSUME Init PROVE TypeInv
        OBVIOUS
    <1>1. TypeOK
        BY NewJobs, ConstantsAssumption
        DEF Init, TypeOK, Outcomes, Times, Row, Statuses, Command, NoCommand, Processes,
            CommandSteps, WorkerSteps
    <1>2. JobsHaveAttemptsLeft /\ BusyOnActiveJobs
        BY NewJobs, ConstantsAssumption
        DEF Init, JobsHaveAttemptsLeft, BusyOnActiveJobs, Processes
    <1> QED
        BY <1>1, <1>2 DEF TypeInv

-----------------------------------------------------------------------------
(* Every step keeps the types.                                             *)

\* The parts of TypeInv a step that only moves one process along has to keep:
\* it may leave its job active.
LEMMA MoveKeepsTypes ==
    ASSUME TypeInv, NEW p \in Processes, NEW step \in CommandSteps \cup WorkerSteps,
           pc' = [pc EXCEPT ![p] = step], pc[p] # "idle",
           UNCHANGED <<inbound, scheduled>>, found'[Worker] = found[Worker]
    PROVE  /\ pc' \in [Processes -> CommandSteps \cup WorkerSteps]
           /\ JobsHaveAttemptsLeft'
           /\ BusyOnActiveJobs'
    BY ConstantsAssumption
    DEF TypeInv, TypeOK, JobsHaveAttemptsLeft, BusyOnActiveJobs, Processes,
        HasAttemptsLeft

\* The UPDATEs of an announcement's status and approver keep rows well typed.
LEMMA RowUpdates ==
    ASSUME NEW table \in [Announcements -> Row], NEW id,
           NEW status \in Statuses, NEW by \in Approvers \cup {None}
    PROVE  [table EXCEPT ![id] = [@ EXCEPT !.status = status, !.approvedBy = by]]
               \in [Announcements -> Row]
    BY DEF Row

\* Steps of a command in hand, which leave both queues alone.
LEMMA CommandStepKeepsTypes ==
    ASSUME TypeInv, NEW c \in Commands,
           \/ \E a \in Announcements : \/ InsertDraft(c, a)
                                       \/ GetAnnouncement(c, a)
                                       \/ Recheck(c, a)
           \/ InsertUntracked(c)
           \/ LookupFails(c)
           \/ MarkApproved(c)
           \/ \E reply \in Replies : Reply(c, reply[1], reply[2])
           \/ ApproveThrows(c)
    PROVE  TypeInv'
    <1>0. c \in Processes /\ Worker \in Processes /\ c # Worker
        BY ConstantsAssumption DEF Processes
    <1> USE <1>0, MoveKeepsTypes
        DEF TypeInv, TypeOK, CommandSteps, ApproveTry, queueVars, readVars,
            handlerVars, historyVars, GoTo
    <1>1. ASSUME NEW a \in Announcements, InsertDraft(c, a)
          PROVE  TypeInv'
        <2>1. rows' \in [Announcements -> Row]
            BY <1>1 DEF InsertDraft, Row, Statuses, Command
        <2>2. found' \in [Processes -> Announcements \cup {None}]
            BY <1>1 DEF InsertDraft
        <2> QED
            BY <1>1, <2>1, <2>2 DEF InsertDraft, AfterDraft
    <1>2. ASSUME NEW a \in Announcements, GetAnnouncement(c, a)
          PROVE  TypeInv'
        <2>1. runAt' \in [Commands -> Times]
            BY <1>2 DEF GetAnnouncement, Row
        <2>2. found' \in [Processes -> Announcements \cup {None}]
            BY <1>2 DEF GetAnnouncement
        <2>3. AfterGet(a) \in CommandSteps \cup WorkerSteps
            BY DEF AfterGet
        <2>4. /\ pc' \in [Processes -> CommandSteps \cup WorkerSteps]
              /\ JobsHaveAttemptsLeft' /\ BusyOnActiveJobs'
            BY <1>2, <2>3 DEF GetAnnouncement
        <2> QED
            BY <1>2, <2>1, <2>2, <2>4 DEF GetAnnouncement
    <1>3. ASSUME NEW a \in Announcements, Recheck(c, a)
          PROVE  TypeInv'
        <2>1. found' \in [Processes -> Announcements \cup {None}]
            BY <1>3 DEF Recheck
        <2>2. AfterRecheck(pc[c]) \in CommandSteps \cup WorkerSteps
            BY DEF AfterRecheck
        <2>3. /\ pc' \in [Processes -> CommandSteps \cup WorkerSteps]
              /\ JobsHaveAttemptsLeft' /\ BusyOnActiveJobs'
            BY <1>3, <2>2 DEF Recheck
        <2>4. overlaps' \in [Announcements -> Nat]
            BY <1>3 DEF Recheck
        <2> QED
            BY <1>3, <2>1, <2>3, <2>4 DEF Recheck
    <1>4. CASE InsertUntracked(c)
        BY <1>4 DEF InsertUntracked
    <1>5. CASE LookupFails(c)
        BY <1>5 DEF LookupFails
    <1>6. CASE MarkApproved(c)
        <2>1. rows' \in [Announcements -> Row]
            BY <1>6, RowUpdates DEF MarkApproved, Statuses, Command
        <2> QED
            BY <1>6, <2>1 DEF MarkApproved, AfterMarking
    <1>7. ASSUME NEW reply \in Replies, Reply(c, reply[1], reply[2])
          PROVE  TypeInv'
        <2>1. reply[1] \in CommandSteps \ {"idle"} /\ reply[2] \in Outcomes
            BY <1>7 DEF Replies, Outcomes
        <2> QED
            BY <1>7, <2>1 DEF Reply
    <1>8. CASE ApproveThrows(c)
        <2>1. faults' \in 0..MaxFaults
            BY <1>8, ConstantsAssumption DEF ApproveThrows, Fault
        <2> QED
            BY <1>8, <2>1 DEF ApproveThrows
    <1> QED
        BY <1>1, <1>2, <1>3, <1>4, <1>5, <1>6, <1>7, <1>8

\* Steps on the inbound queue: a job is added, taken, finished or given back.
LEMMA InboundQueueKeepsTypes ==
    ASSUME TypeInv,
           \/ \E c \in Commands, text \in Drafts \cup Approvals : SecretarySends(c, text)
           \/ \E c \in Commands : \/ TakeCommand(c)
                                 \/ CompleteCommand(c)
                                 \/ CommandThrows(c)
                                 \/ \E reply \in Replies :
                                        ReplyUnanswered(c, reply[1], reply[2])
           \/ InboundCrash
    PROVE  TypeInv'
    <1> USE ConstantsAssumption
        DEF TypeInv, queueVars, readVars, handlerVars, historyVars, GoTo
    <1>0. /\ Worker \in Processes /\ Worker \notin Commands
          /\ Commands \subseteq Processes
        BY DEF Processes
    <1>1. ASSUME NEW c \in Commands, NEW text \in Drafts \cup Approvals,
                 SecretarySends(c, text)
          PROVE  TypeInv'
        <2>1. text \in Command
            BY DEF Drafts, Approvals, Command, Times
        <2>2. TypeOK'
            BY <1>1, <2>1, NewJobs DEF SecretarySends, TypeOK
        <2> QED
            BY <1>0, <1>1, <2>2, NewJobs
            DEF SecretarySends, JobsHaveAttemptsLeft, BusyOnActiveJobs, TypeOK
    <1>2. ASSUME NEW c \in Commands, TakeCommand(c)
          PROVE  TypeInv'
        <2>0. /\ Taken(inbound[c]) \in BoundedJob /\ HasAttemptsLeft(Taken(inbound[c]))
              /\ Taken(inbound[c]).state = "active"
            BY <1>2, JobTaken DEF TakeCommand, TypeOK, JobsHaveAttemptsLeft
        <2>1. inbound' \in [Commands -> BoundedJob]
            BY <1>2, <2>0 DEF TakeCommand, TypeOK
        <2>2. (IF command[c].kind = "draft" THEN "draft" ELSE "get") \in CommandSteps
            BY DEF CommandSteps, ApproveTry
        <2>3. TypeOK'
            BY <1>0, <1>2, <2>1, <2>2 DEF TakeCommand, TypeOK
        <2> QED
            BY <1>0, <1>2, <2>0, <2>3
            DEF TakeCommand, JobsHaveAttemptsLeft, BusyOnActiveJobs, TypeOK
    <1>3. ASSUME NEW c \in Commands, NEW job, pc[c] # "idle",
                 job \in {Completed(inbound[c]), Retried(inbound[c])},
                 inbound' = [inbound EXCEPT ![c] = job],
                 pc' = [pc EXCEPT ![c] = "idle"], faults' \in 0..MaxFaults,
                 replied' \in [Commands -> Outcomes],
                 UNCHANGED <<now, rows, queueVars, readVars, command, historyVars>>
          PROVE  TypeInv'
        <2>1. job \in BoundedJob /\ HasAttemptsLeft(job)
            BY <1>3, JobTransitions DEF TypeOK, BusyOnActiveJobs, JobsHaveAttemptsLeft
        <2>2. TypeOK'
            BY <1>0, <1>3, <2>1 DEF TypeOK, CommandSteps, Outcomes
        <2> QED
            BY <1>0, <1>3, <2>1, <2>2 DEF JobsHaveAttemptsLeft, BusyOnActiveJobs, TypeOK
    <1>4. ASSUME NEW c \in Commands, CompleteCommand(c)
          PROVE  TypeInv'
        BY <1>3, <1>4 DEF CompleteCommand, TypeOK, Outcomes
    <1>5. ASSUME NEW c \in Commands, CommandThrows(c)
          PROVE  TypeInv'
        <2>1. faults' \in 0..MaxFaults
            BY <1>5 DEF CommandThrows, Fault, TypeOK
        <2> QED
            BY <1>3, <1>5, <2>1 DEF CommandThrows, TypeOK, Outcomes
    <1>7. ASSUME NEW c \in Commands, NEW reply \in Replies,
                 ReplyUnanswered(c, reply[1], reply[2])
          PROVE  TypeInv'
        <2>1. /\ faults' \in 0..MaxFaults
              /\ replied' \in [Commands -> Outcomes]
              /\ pc[c] # "idle"
            BY <1>7 DEF ReplyUnanswered, Fault, TypeOK, Replies, Outcomes
        <2>2. CASE reply[1] \in ApproveTry
            <3>1. TypeOK'
                BY <1>0, <1>7, <2>1, <2>2
                DEF ReplyUnanswered, TypeOK, CommandSteps, Outcomes
            <3> QED
                BY <1>0, <1>7, <2>1, <2>2, <3>1
                DEF ReplyUnanswered, TypeOK, JobsHaveAttemptsLeft, BusyOnActiveJobs
        <2>3. CASE reply[1] \notin ApproveTry
            BY <1>3, <1>7, <2>1, <2>3 DEF ReplyUnanswered
        <2> QED
            BY <2>2, <2>3
    <1>6. CASE InboundCrash
        <2>1. \A c \in Commands : inbound'[c] \in BoundedJob /\ HasAttemptsLeft(inbound'[c])
            <3> SUFFICES ASSUME NEW c \in Commands
                         PROVE  inbound'[c] \in BoundedJob /\ HasAttemptsLeft(inbound'[c])
                OBVIOUS
            <3>1. inbound'[c] = IF c \in ActiveCommands THEN Stalled(inbound[c])
                                                        ELSE inbound[c]
                BY <1>6 DEF InboundCrash
            <3>2. inbound[c] \in BoundedJob /\ HasAttemptsLeft(inbound[c])
                BY DEF TypeOK, JobsHaveAttemptsLeft
            <3> QED
                BY <3>1, <3>2, JobTransitions DEF ActiveCommands
        <2>2. inbound' \in [Commands -> BoundedJob]
            BY <1>6, <2>1 DEF InboundCrash
        <2>3. pc' \in [Processes -> CommandSteps \cup WorkerSteps]
            BY <1>6 DEF InboundCrash, TypeOK, CommandSteps
        <2>4. faults' \in 0..MaxFaults
            BY <1>6 DEF InboundCrash, Fault, TypeOK
        <2>5. BusyOnActiveJobs'
            BY <1>0, <1>6 DEF InboundCrash, ActiveCommands, BusyOnActiveJobs, TypeOK
        <2> QED
            BY <1>6, <2>1, <2>2, <2>3, <2>4, <2>5
            DEF InboundCrash, TypeOK, JobsHaveAttemptsLeft
    <1> QED
        BY <1>1, <1>2, <1>4, <1>5, <1>6, <1>7

\* Counting one more fan-out or audit row of an announcement keeps the type.
LEMMA OneMore ==
    ASSUME NEW counts \in [Announcements -> Nat], NEW id
    PROVE  [counts EXCEPT ![id] = @ + 1] \in [Announcements -> Nat]
    <1>1. CASE id \in Announcements
        BY <1>1
    <1>2. CASE id \notin Announcements
        BY <1>2
    <1> QED
        BY <1>1, <1>2

\* The fan-out steps of a handler or of the worker, which move it along.
LEMMA SendKeepsTypes ==
    ASSUME TypeInv, NEW p \in Processes, FinishSend(p)
    PROVE  TypeInv'
    <1> USE ConstantsAssumption, MoveKeepsTypes
        DEF TypeInv, TypeOK, CommandSteps, ApproveTry, WorkerSteps, queueVars,
            readVars, handlerVars, historyVars, GoTo
    <1>1. CASE BeginFanout(p)
        <2>1. begun' \in [Announcements -> Nat]
            BY <1>1, OneMore DEF BeginFanout
        <2> QED
            BY <1>1, <2>1 DEF BeginFanout, AfterBeginning
    <1>2. CASE FinishFanout(p)
        <2>1. sent' \in [Announcements -> Nat]
            BY <1>2, OneMore DEF FinishFanout
        <2> QED
            BY <1>2, <2>1 DEF FinishFanout
    <1>3. CASE Finalize(p)
        <2>1. ApprovedBy(p) \in Approvers \cup {None}
            BY DEF ApprovedBy, Processes, Command
        <2>2. rows' \in [Announcements -> Row]
            BY <1>3, <2>1, RowUpdates DEF Finalize, Statuses
        <2> QED
            BY <1>3, <2>2 DEF Finalize, AfterFinalizing
    <1>4. CASE LogSent(p)
        <2>1. (IF p = Worker THEN "done" ELSE "tellSent") \in CommandSteps \cup WorkerSteps
            OBVIOUS
        <2>2. audits' \in [Announcements -> Nat]
            BY <1>4, OneMore DEF LogSent
        <2> QED
            BY <1>4, <2>1, <2>2 DEF LogSent
    <1> QED
        BY <1>1, <1>2, <1>3, <1>4 DEF FinishSend

\* Steps on the broadcast queue: a job is added, taken, finished or given back.
LEMMA BroadcastQueueKeepsTypes ==
    ASSUME TypeInv,
           \/ \E c \in Commands : ScheduleBroadcast(c)
           \/ \E a \in Announcements : TakeScheduled(a)
           \/ LoadApproved
           \/ RefuseToSend
           \/ CompleteScheduled
           \/ WorkerThrows
           \/ WorkerCrash
    PROVE  TypeInv'
    <1> USE ConstantsAssumption
        DEF TypeInv, queueVars, readVars, handlerVars, historyVars, GoTo
    <1>0. /\ Worker \in Processes /\ Worker \notin Commands
          /\ Commands \subseteq Processes
        BY DEF Processes
    <1>1. ASSUME NEW c \in Commands, ScheduleBroadcast(c)
          PROVE  TypeInv'
        <2>1. scheduled' \in [Announcements -> BoundedJob]
            BY <1>1, NewJobs DEF ScheduleBroadcast, TypeOK
        <2>2. dueAt' \in [Announcements -> Times]
            BY <1>1 DEF ScheduleBroadcast, TypeOK
        <2>3. TypeOK'
            BY <1>0, <1>1, <2>1, <2>2
            DEF ScheduleBroadcast, TypeOK, CommandSteps, ApproveTry
        <2> QED
            BY <1>0, <1>1, <2>3, NewJobs
            DEF ScheduleBroadcast, JobsHaveAttemptsLeft, BusyOnActiveJobs, TypeOK
    <1>2. ASSUME NEW a \in Announcements, TakeScheduled(a)
          PROVE  TypeInv'
        <2>0. /\ Taken(scheduled[a]) \in BoundedJob /\ HasAttemptsLeft(Taken(scheduled[a]))
              /\ Taken(scheduled[a]).state = "active"
            BY <1>2, JobTaken DEF TakeScheduled, TypeOK, JobsHaveAttemptsLeft
        <2>1. scheduled' \in [Announcements -> BoundedJob]
            BY <1>2, <2>0 DEF TakeScheduled, TypeOK
        <2>2. TypeOK'
            BY <1>0, <1>2, <2>1 DEF TakeScheduled, TypeOK, WorkerSteps
        <2> QED
            BY <1>0, <1>2, <2>0, <2>2
            DEF TakeScheduled, JobsHaveAttemptsLeft, BusyOnActiveJobs, TypeOK
    <1>3. CASE LoadApproved
        <2>1. approver' \in Approvers \cup {None}
            BY <1>3 DEF LoadApproved, TypeOK, BusyOnActiveJobs, Row
        <2> QED
            BY <1>0, <1>3, <2>1, MoveKeepsTypes DEF LoadApproved, TypeOK, WorkerSteps
    <1>4. ASSUME NEW job, pc[Worker] # "idle", EndAttempt(job),
                 job \in {Completed(scheduled[found[Worker]]),
                          Retried(scheduled[found[Worker]]),
                          Stalled(scheduled[found[Worker]])},
                 faults' \in 0..MaxFaults
          PROVE  TypeInv'
        <2>1. job \in BoundedJob /\ HasAttemptsLeft(job)
            BY <1>4, JobTransitions DEF TypeOK, BusyOnActiveJobs, JobsHaveAttemptsLeft
        <2>2. TypeOK'
            BY <1>0, <1>4, <2>1 DEF EndAttempt, TypeOK, WorkerSteps
        <2> QED
            BY <1>0, <1>4, <2>1, <2>2
            DEF EndAttempt, JobsHaveAttemptsLeft, BusyOnActiveJobs, TypeOK
    <1>5. CASE RefuseToSend
        BY <1>4, <1>5 DEF RefuseToSend, TypeOK
    <1>6. CASE CompleteScheduled
        BY <1>4, <1>6 DEF CompleteScheduled, TypeOK
    <1>7. CASE WorkerThrows
        <2>1. faults' \in 0..MaxFaults
            BY <1>7 DEF WorkerThrows, Fault, TypeOK
        <2> QED
            BY <1>4, <1>7, <2>1 DEF WorkerThrows
    <1>8. CASE WorkerCrash
        <2>1. faults' \in 0..MaxFaults
            BY <1>8 DEF WorkerCrash, Fault, TypeOK
        <2> QED
            BY <1>4, <1>8, <2>1 DEF WorkerCrash
    <1> QED
        BY <1>1, <1>2, <1>3, <1>5, <1>6, <1>7, <1>8

\* Every step keeps the types.
LEMMA TypeStep == TypeInv /\ [Next]_vars => TypeInv'
    <1> SUFFICES ASSUME TypeInv, [Next]_vars PROVE TypeInv'
        OBVIOUS
    <1>1. CASE Tick
        BY <1>1, ConstantsAssumption
        DEF TypeInv, Tick, TypeOK, Times, JobsHaveAttemptsLeft, BusyOnActiveJobs,
            queueVars, readVars, handlerVars, historyVars
    <1>2. ASSUME NEW c \in Commands, CommandStep(c)
          PROVE  TypeInv'
        BY <1>2, CommandStepKeepsTypes, InboundQueueKeepsTypes, SendKeepsTypes,
           BroadcastQueueKeepsTypes
        DEF CommandStep, Processes
    <1>3. CASE WorkerStep
        BY <1>3, SendKeepsTypes, BroadcastQueueKeepsTypes DEF WorkerStep, Processes
    <1>4. CASE UNCHANGED vars
        BY <1>4
        DEF vars, TypeInv, TypeOK, JobsHaveAttemptsLeft, BusyOnActiveJobs
    <1> QED
        BY <1>1, <1>2, <1>3, <1>4, CommandStepKeepsTypes, InboundQueueKeepsTypes,
           BroadcastQueueKeepsTypes
        DEF Next

\* Every variable has its type in every reachable state, and no job is tried
\* more often than its options allow (gateway/queue.ts, broadcastQueue.ts).
THEOREM TypeCorrect == Spec => []TypeOK
    <1>1. TypeInv => TypeOK
        BY DEF TypeInv
    <1> QED
        BY <1>1, TypeInit, TypeStep, PTL DEF Spec

-----------------------------------------------------------------------------
(* What holds of every announcement whatever errors and crashes do: it     *)
(* goes out only if an "approve" message names it, its job exists only     *)
(* once it is approved, and it is recorded as broadcast only once it was   *)
(* sent.  None of these is inductive alone: a handler carries the row it   *)
(* read across its calls, so the invariant says what it knows of that row  *)
(* at each of them.                                                        *)

\* A message's job is absent until the message is sent, and only an "approve"
\* message enters the approve branch.
CommandsAreGiven ==
    \A c \in Commands :
        /\ inbound[c].state = "absent" <=> command[c].kind = "none"
        /\ pc[c] \in ApproveTry => command[c].kind = "approve"

\* After its first lookup a handler holds a row its ref matches.
HandlersHoldNamedRows ==
    \A c \in Commands :
        pc[c] \in ApproveTry \ {"get"} =>
            /\ found[c] \in Announcements
            /\ Exists(found[c])
            /\ found[c] \in command[c].prefix

\* Between marking a row and enqueuing its job the row stays approved.
EnqueuedAreApproved ==
    \A c \in Commands :
        pc[c] = "enqueue" => rows[found[c]].status \in {"approved", "broadcast"}

JobsAreNamed == \A a \in Announcements : scheduled[a].state # "absent" => Authorised(a)

\* A process about to flip the status has sent what it holds.
FinalizersHaveSent ==
    \A p \in Processes : pc[p] = "finalize" => found[p] \in Announcements /\ sent[found[p]] > 0

SafetyInv ==
    /\ TypeInv
    /\ CommandsAreGiven
    /\ HandlersHoldNamedRows
    /\ EnqueuedAreApproved
    /\ JobsAreNamed
    /\ FinalizersHaveSent
    /\ JobsAreApproved
    /\ NeverUnapproved
    /\ BroadcastMeansSent

-----------------------------------------------------------------------------

\* Initially there is nothing to be wrong about.
LEMMA SafetyInit == Init => SafetyInv
    <1> SUFFICES ASSUME Init PROVE SafetyInv
        OBVIOUS
    <1>1. TypeInv
        BY TypeInit
    <1>2. \A p \in Processes : pc[p] \notin ApproveTry
        BY DEF Init, ApproveTry
    <1>3. \A a \in Announcements : /\ rows[a].status = "none"
                                  /\ scheduled[a].state = "absent"
                                  /\ begun[a] = 0
        BY NewJobs DEF Init
    <1>4. \A c \in Commands : inbound[c].state = "absent" /\ command[c].kind = "none"
        BY NewJobs DEF Init, NoCommand
    <1> QED
        BY <1>1, <1>2, <1>3, <1>4
        DEF SafetyInv, CommandsAreGiven, HandlersHoldNamedRows, EnqueuedAreApproved,
            JobsAreNamed, FinalizersHaveSent, JobsAreApproved, NeverUnapproved,
            BroadcastMeansSent, ApproveTry, Processes

\* A step that changes no row, message or count and creates no job keeps the
\* invariant, if every handler it moves leaves the approve branch or enters it
\* with an "approve" message in hand.
LEMMA FrameKeepsSafety ==
    ASSUME SafetyInv, TypeInv', UNCHANGED <<rows, command, begun, sent>>,
           \A c \in Commands : inbound'[c].state = "absent" <=> inbound[c].state = "absent",
           \A a \in Announcements :
               scheduled'[a].state = "absent" <=> scheduled[a].state = "absent",
           \A c \in Commands : \/ pc'[c] = pc[c] /\ found'[c] = found[c]
                               \/ pc'[c] \notin ApproveTry
                               \/ pc'[c] = "get" /\ command[c].kind = "approve",
           \/ pc'[Worker] = pc[Worker] /\ found'[Worker] = found[Worker]
           \/ pc'[Worker] # "finalize"
    PROVE  SafetyInv'
    <1> USE DEF SafetyInv, Authorised
    <1>1. CommandsAreGiven'
        BY DEF CommandsAreGiven
    <1>2. HandlersHoldNamedRows'
        BY DEF HandlersHoldNamedRows, Exists
    <1>3. EnqueuedAreApproved'
        BY DEF EnqueuedAreApproved, ApproveTry
    <1>4. JobsAreNamed' /\ JobsAreApproved' /\ NeverUnapproved' /\ BroadcastMeansSent'
        BY DEF JobsAreNamed, JobsAreApproved, NeverUnapproved, BroadcastMeansSent
    <1>5. FinalizersHaveSent'
        BY DEF FinalizersHaveSent, ApproveTry, Processes
    <1> QED
        BY <1>1, <1>2, <1>3, <1>4, <1>5

\* The steps of a handler that the frame lemma covers.
LEMMA QuietCommandSteps ==
    ASSUME SafetyInv, TypeInv', NEW c \in Commands,
           \/ TakeCommand(c) \/ CompleteCommand(c) \/ InsertUntracked(c) \/ LookupFails(c)
           \/ \E reply \in Replies : \/ Reply(c, reply[1], reply[2])
                                    \/ ReplyUnanswered(c, reply[1], reply[2])
           \/ ApproveThrows(c) \/ CommandThrows(c)
    PROVE  SafetyInv'
    <1>0. /\ TypeInv /\ c \in Processes /\ Worker \in Processes /\ c # Worker
          /\ Commands \subseteq Processes
        BY ConstantsAssumption DEF SafetyInv, Processes
    <1> USE <1>0, FrameKeepsSafety
        DEF TypeInv, TypeOK, GoTo, ApproveTry, queueVars, readVars, handlerVars, historyVars
    <1>1. CASE TakeCommand(c)
        <2>1. pc'[c] = "draft" \/ (pc'[c] = "get" /\ command[c].kind = "approve")
            BY <1>1 DEF TakeCommand, SafetyInv, CommandsAreGiven, Command
        <2>2. \A d \in Commands : inbound'[d].state = "absent" <=> inbound[d].state = "absent"
            BY <1>1 DEF TakeCommand, Taken, BoundedJob
        <2> QED
            BY <1>1, <2>1, <2>2 DEF TakeCommand
    <1>2. CASE CompleteCommand(c)
        <2>1. inbound[c].state = "active"
            BY <1>2 DEF CompleteCommand, BusyOnActiveJobs
        <2>2. \A d \in Commands : inbound'[d].state = "absent" <=> inbound[d].state = "absent"
            BY <1>2, <2>1 DEF CompleteCommand, Completed, BoundedJob
        <2> QED
            BY <1>2, <2>2 DEF CompleteCommand
    <1>3. CASE InsertUntracked(c)
        BY <1>3 DEF InsertUntracked
    <1>4. CASE LookupFails(c)
        BY <1>4 DEF LookupFails
    <1>5. ASSUME NEW reply \in Replies, Reply(c, reply[1], reply[2])
          PROVE  SafetyInv'
        BY <1>5 DEF Reply
    <1>8. ASSUME NEW reply \in Replies, ReplyUnanswered(c, reply[1], reply[2])
          PROVE  SafetyInv'
        <2>1. pc[c] # "idle" /\ inbound[c].state = "active"
            BY <1>8 DEF ReplyUnanswered, Replies, BusyOnActiveJobs
        <2>2. \A d \in Commands : inbound'[d].state = "absent" <=> inbound[d].state = "absent"
            <3>1. Retried(inbound[c]).state # "absent"
                BY <2>1, JobTransitions DEF JobsHaveAttemptsLeft
            <3> QED
                BY <1>8, <2>1, <3>1 DEF ReplyUnanswered
        <2>3. pc'[c] \notin ApproveTry
            BY <1>8 DEF ReplyUnanswered
        <2> QED
            BY <1>8, <2>2, <2>3 DEF ReplyUnanswered
    <1>6. CASE ApproveThrows(c)
        BY <1>6 DEF ApproveThrows
    <1>7. CASE CommandThrows(c)
        <2>1. inbound[c].state = "active"
            BY <1>7 DEF CommandThrows, BusyOnActiveJobs
        <2>2. \A d \in Commands : inbound'[d].state = "absent" <=> inbound[d].state = "absent"
            BY <1>7, <2>1 DEF CommandThrows, Retried, BoundedJob
        <2> QED
            BY <1>7, <2>2 DEF CommandThrows
    <1> QED
        BY <1>1, <1>2, <1>3, <1>4, <1>5, <1>6, <1>7, <1>8

\* The steps of time, of the worker and of its faults that the frame lemma
\* covers: an attempt that ends leaves a job that is not absent.
LEMMA QuietOtherSteps ==
    ASSUME SafetyInv, TypeInv',
           \/ Tick \/ InboundCrash \/ UNCHANGED vars
           \/ \E a \in Announcements : TakeScheduled(a)
           \/ LoadApproved \/ RefuseToSend \/ CompleteScheduled
           \/ WorkerThrows \/ WorkerCrash
    PROVE  SafetyInv'
    <1>0. /\ TypeInv /\ Worker \in Processes /\ Worker \notin Commands
          /\ Commands \subseteq Processes
        BY ConstantsAssumption DEF SafetyInv, Processes
    <1> USE <1>0, FrameKeepsSafety
        DEF TypeInv, TypeOK, GoTo, queueVars, readVars, handlerVars, historyVars
    <1>1. CASE Tick
        BY <1>1 DEF Tick
    <1>2. CASE InboundCrash
        <2>1. \A c \in Commands : inbound'[c].state = "absent" <=> inbound[c].state = "absent"
            <3> SUFFICES ASSUME NEW c \in Commands
                         PROVE  inbound'[c].state = "absent" <=> inbound[c].state = "absent"
                OBVIOUS
            <3>1. inbound'[c] = IF c \in ActiveCommands THEN Stalled(inbound[c])
                                                        ELSE inbound[c]
                BY <1>2 DEF InboundCrash
            <3> QED
                BY <3>1 DEF Stalled, ActiveCommands, BoundedJob
        <2>2. \A c \in Commands : pc'[c] = pc[c] \/ pc'[c] \notin ApproveTry
            BY <1>2 DEF InboundCrash, ApproveTry
        <2>3. pc'[Worker] = pc[Worker]
            BY <1>2 DEF InboundCrash, ActiveCommands
        <2> QED
            BY <1>2, <2>1, <2>2, <2>3 DEF InboundCrash
    <1>3. CASE UNCHANGED vars
        BY <1>3 DEF vars
    <1>4. ASSUME NEW a \in Announcements, TakeScheduled(a)
          PROVE  SafetyInv'
        <2>1. \A b \in Announcements :
                  scheduled'[b].state = "absent" <=> scheduled[b].state = "absent"
            BY <1>4 DEF TakeScheduled, Taken, BoundedJob
        <2> QED
            BY <1>4, <2>1 DEF TakeScheduled
    <1>5. CASE LoadApproved
        BY <1>5 DEF LoadApproved
    <1>6. ASSUME NEW job, pc[Worker] # "idle", EndAttempt(job),
                 job \in {Completed(scheduled[found[Worker]]),
                          Retried(scheduled[found[Worker]]),
                          Stalled(scheduled[found[Worker]])}
          PROVE  SafetyInv'
        <2>1. /\ found[Worker] \in Announcements
              /\ scheduled[found[Worker]].state = "active"
            BY <1>6 DEF BusyOnActiveJobs
        <2>2. job.state # "absent"
            <3>1. ASSUME NEW old \in BoundedJob
                  PROVE  /\ Completed(old).state # "absent"
                         /\ Retried(old).state # "absent"
                         /\ Stalled(old).state # "absent"
                BY DEF Completed, Retried, Stalled, BoundedJob
            <3> QED
                BY <1>6, <2>1, <3>1
        <2>3. \A b \in Announcements :
                  scheduled'[b].state = "absent" <=> scheduled[b].state = "absent"
            BY <1>6, <2>1, <2>2 DEF EndAttempt
        <2> QED
            BY <1>6, <2>3 DEF EndAttempt
    <1>7. CASE RefuseToSend \/ CompleteScheduled \/ WorkerThrows \/ WorkerCrash
        BY <1>6, <1>7 DEF RefuseToSend, CompleteScheduled, WorkerThrows, WorkerCrash
    <1> QED
        BY <1>1, <1>2, <1>3, <1>4, <1>5, <1>7

\* A new message is not yet a handler's, and an authorisation is never undone.
LEMMA SecretarySendsKeepsSafety ==
    ASSUME SafetyInv, TypeInv', NEW c \in Commands, NEW text \in Drafts \cup Approvals,
           SecretarySends(c, text)
    PROVE  SafetyInv'
    <1>0. /\ TypeInv /\ inbound[c].state = "absent"
          /\ pc[c] \notin ApproveTry /\ command[c].kind = "none"
        BY DEF SafetyInv, SecretarySends, CommandsAreGiven, TypeInv, BusyOnActiveJobs,
               ApproveTry
    <1> USE <1>0
        DEF SafetyInv, TypeInv, TypeOK, SecretarySends, queueVars, readVars, historyVars
    <1>1. \A d \in Commands : d # c => command'[d] = command[d] /\ inbound'[d] = inbound[d]
        OBVIOUS
    <1>2. CommandsAreGiven'
        <2>1. text.kind # "none"
            BY DEF Drafts, Approvals
        <2> QED
            BY <1>1, <2>1, NewJobs DEF CommandsAreGiven
    <1>3. HandlersHoldNamedRows' /\ EnqueuedAreApproved' /\ FinalizersHaveSent'
        BY <1>1
        DEF HandlersHoldNamedRows, EnqueuedAreApproved, FinalizersHaveSent, Exists, ApproveTry
    <1>4. \A a \in Announcements : Authorised(a) => Authorised(a)'
        BY <1>1 DEF Authorised
    <1> QED
        BY <1>2, <1>3, <1>4
        DEF JobsAreNamed, JobsAreApproved, NeverUnapproved, BroadcastMeansSent

\* Draft, lookup and UPDATE: the handler holds a row of its own ref, and no
\* row leaves the approved statuses.
LEMMA HandlerKeepsSafety ==
    ASSUME SafetyInv, TypeInv', NEW c \in Commands,
           \/ \E a \in Announcements : \/ InsertDraft(c, a)
                                       \/ GetAnnouncement(c, a)
                                       \/ Recheck(c, a)
           \/ MarkApproved(c)
           \/ ScheduleBroadcast(c)
    PROVE  SafetyInv'
    <1>0. /\ TypeInv /\ c \in Processes /\ Worker \in Processes /\ c # Worker
          /\ Commands \subseteq Processes
        BY ConstantsAssumption DEF SafetyInv, Processes
    <1> USE <1>0
        DEF SafetyInv, TypeInv, TypeOK, GoTo, queueVars, handlerVars, historyVars,
            CommandsAreGiven, Authorised
    <1>1. ASSUME NEW a \in Announcements, InsertDraft(c, a)
          PROVE  SafetyInv'
        <2>1. /\ rows[a].status = "none"
              /\ \A b \in Announcements : b # a => rows'[b] = rows[b]
              /\ rows'[a].status = "pending_approval"
              /\ pc'[c] \notin ApproveTry
              /\ \A p \in Processes : p # c => pc'[p] = pc[p] /\ found'[p] = found[p]
            BY <1>1 DEF InsertDraft, Exists, AfterDraft, ApproveTry
        <2>2. CommandsAreGiven'
            BY <1>1, <2>1 DEF InsertDraft
        <2>3. HandlersHoldNamedRows'
            BY <1>1, <2>1 DEF InsertDraft, HandlersHoldNamedRows, Exists
        <2>4. EnqueuedAreApproved' /\ FinalizersHaveSent'
            BY <1>1, <2>1
            DEF InsertDraft, EnqueuedAreApproved, FinalizersHaveSent, ApproveTry,
                HandlersHoldNamedRows
        <2>5. JobsAreNamed' /\ JobsAreApproved' /\ NeverUnapproved' /\ BroadcastMeansSent'
            BY <1>1, <2>1
            DEF InsertDraft, JobsAreNamed, JobsAreApproved, NeverUnapproved, BroadcastMeansSent
        <2> QED
            BY <2>2, <2>3, <2>4, <2>5
    <1>2. ASSUME NEW a \in Announcements, GetAnnouncement(c, a) \/ Recheck(c, a)
          PROVE  SafetyInv'
        <2>1. /\ pc[c] \in ApproveTry
              /\ a \in command[c].prefix /\ Exists(a)
              /\ found'[c] = a /\ pc'[c] \in ApproveTry
              /\ pc'[c] \notin {"enqueue", "finalize"}
              /\ \A p \in Processes : p # c => pc'[p] = pc[p] /\ found'[p] = found[p]
            BY <1>2
            DEF GetAnnouncement, Recheck, Matches, AfterGet, AfterRecheck, ApproveTry
        <2>2. UNCHANGED <<rows, command, inbound, scheduled, begun, sent>>
            BY <1>2 DEF GetAnnouncement, Recheck
        <2>3. HandlersHoldNamedRows'
            BY <2>1, <2>2 DEF HandlersHoldNamedRows, Exists
        <2>4. EnqueuedAreApproved' /\ FinalizersHaveSent'
            BY <2>1, <2>2 DEF EnqueuedAreApproved, FinalizersHaveSent
        <2> QED
            BY <2>1, <2>2, <2>3, <2>4
            DEF JobsAreNamed, JobsAreApproved, NeverUnapproved, BroadcastMeansSent
    <1>3. CASE MarkApproved(c)
        <2>1. /\ found[c] \in Announcements /\ Exists(found[c])
              /\ found[c] \in command[c].prefix
            BY <1>3 DEF MarkApproved, HandlersHoldNamedRows, ApproveTry
        <2>2. /\ \A b \in Announcements : b # found[c] => rows'[b] = rows[b]
              /\ rows'[found[c]].status = "approved"
              /\ pc[c] \in ApproveTry /\ pc'[c] = "enqueue"
              /\ \A p \in Processes : p # c => pc'[p] = pc[p]
              /\ UNCHANGED <<found, command, inbound, scheduled, begun, sent>>
            BY <1>3, <2>1 DEF MarkApproved, AfterMarking, ApproveTry, readVars, Row
        <2>3. HandlersHoldNamedRows'
            BY <2>1, <2>2 DEF HandlersHoldNamedRows, Exists
        <2>4. EnqueuedAreApproved' /\ FinalizersHaveSent'
            BY <2>1, <2>2
            DEF EnqueuedAreApproved, FinalizersHaveSent, HandlersHoldNamedRows, ApproveTry
        <2> QED
            BY <2>1, <2>2, <2>3, <2>4
            DEF JobsAreNamed, JobsAreApproved, NeverUnapproved, BroadcastMeansSent
    <1>4. CASE ScheduleBroadcast(c)
        <2>1. /\ found[c] \in Announcements /\ found[c] \in command[c].prefix
              /\ rows[found[c]].status \in {"approved", "broadcast"}
              /\ command[c].kind = "approve"
            BY <1>4
            DEF ScheduleBroadcast, HandlersHoldNamedRows, EnqueuedAreApproved, ApproveTry
        <2>2. /\ \A b \in Announcements : b # found[c] => scheduled'[b] = scheduled[b]
              /\ pc[c] \in ApproveTry
              /\ pc'[c] = "tellScheduled"
              /\ \A p \in Processes : p # c => pc'[p] = pc[p]
              /\ UNCHANGED <<rows, found, command, inbound, begun, sent>>
            BY <1>4, <2>1 DEF ScheduleBroadcast, ApproveTry, readVars
        <2>3. HandlersHoldNamedRows'
            BY <2>1, <2>2 DEF HandlersHoldNamedRows, Exists
        <2>4. EnqueuedAreApproved' /\ FinalizersHaveSent'
            BY <2>1, <2>2 DEF EnqueuedAreApproved, FinalizersHaveSent
        <2>5. JobsAreNamed' /\ JobsAreApproved'
            BY <2>1, <2>2 DEF JobsAreNamed, JobsAreApproved
        <2> QED
            BY <2>1, <2>2, <2>3, <2>4, <2>5 DEF NeverUnapproved, BroadcastMeansSent
    <1> QED
        BY <1>1, <1>2, <1>3, <1>4

\* The fan-out and its record, by a handler that holds a row its ref names or
\* by the worker with a job.
LEMMA SendKeepsSafety ==
    ASSUME SafetyInv, TypeInv', NEW p \in Processes, FinishSend(p)
    PROVE  SafetyInv'
    <1>0. /\ TypeInv /\ Worker \in Processes /\ Worker \notin Commands
          /\ Commands \subseteq Processes
        BY ConstantsAssumption DEF SafetyInv, Processes
    <1> USE <1>0
        DEF SafetyInv, TypeInv, TypeOK, GoTo, queueVars, readVars, handlerVars,
            CommandsAreGiven
    <1>1. /\ found[p] \in Announcements
          /\ Authorised(found[p])
          /\ Exists(found[p])
          /\ pc[p] \in {"recipients", "fanout", "finalize", "audit"}
        <2>1. pc[p] \in {"recipients", "fanout", "finalize", "audit"}
            BY DEF FinishSend, BeginFanout, FinishFanout, Finalize, LogSent
        <2>2. CASE p \in Commands
            BY <2>1, <2>2 DEF HandlersHoldNamedRows, ApproveTry, Authorised
        <2>3. CASE p = Worker
            BY <2>1, <2>3
            DEF BusyOnActiveJobs, JobsAreNamed, JobsAreApproved, Exists
        <2> QED
            BY <2>1, <2>2, <2>3 DEF Processes
    <1>2. /\ \A q \in Processes : q # p => pc'[q] = pc[q]
          /\ UNCHANGED <<found, command, inbound, scheduled>>
          /\ pc'[p] \in {"fanout", "finalize", "audit", "done", "tellSent"}
          /\ \A a \in Announcements : Authorised(a)' <=> Authorised(a)
        BY DEF FinishSend, BeginFanout, FinishFanout, Finalize, LogSent, AfterBeginning,
               AfterFinalizing, Authorised
    <1>3. CommandsAreGiven'
        BY <1>1, <1>2 DEF ApproveTry
    <1>4. /\ \A a \in Announcements : a # found[p] => rows'[a] = rows[a]
          /\ rows'[found[p]].status \in {rows[found[p]].status, "broadcast"}
        <2>1. CASE Finalize(p)
            BY <1>1, <2>1 DEF Finalize, Row
        <2>2. CASE ~Finalize(p)
            <3>1. rows' = rows
                BY <2>2 DEF FinishSend, BeginFanout, FinishFanout, LogSent
            <3> QED
                BY <3>1
        <2> QED
            BY <2>1, <2>2
    <1>5. HandlersHoldNamedRows' /\ EnqueuedAreApproved'
        <2>1. \A a \in Announcements : Exists(a) => Exists(a)'
            BY <1>4 DEF Exists
        <2>2. \A c \in Commands : pc'[c] \in ApproveTry \ {"get"} => pc[c] \in ApproveTry \ {"get"}
            BY <1>1, <1>2 DEF ApproveTry
        <2>3. HandlersHoldNamedRows'
            BY <1>2, <2>1, <2>2 DEF HandlersHoldNamedRows
        <2>4. \A c \in Commands : pc'[c] = "enqueue" => pc[c] = "enqueue" /\ c # p
            BY <1>1, <1>2
        <2>5. \A c \in Commands : pc'[c] = "enqueue" => found[c] \in Announcements
            BY <2>4 DEF HandlersHoldNamedRows, ApproveTry
        <2> QED
            BY <1>2, <1>4, <2>3, <2>4, <2>5 DEF EnqueuedAreApproved
    <1>6. JobsAreNamed' /\ JobsAreApproved'
        BY <1>1, <1>2, <1>4 DEF JobsAreNamed, JobsAreApproved
    <1>7. \A a \in Announcements : begun'[a] > 0 => begun[a] > 0 \/ a = found[p]
        BY <1>1 DEF FinishSend, BeginFanout, FinishFanout, Finalize, LogSent, historyVars
    <1>8. NeverUnapproved'
        BY <1>1, <1>2, <1>7 DEF NeverUnapproved
    <1>9. /\ \A a \in Announcements : sent[a] > 0 => sent'[a] > 0
          /\ pc'[p] = "finalize" => sent'[found[p]] > 0
        BY <1>1
        DEF FinishSend, BeginFanout, FinishFanout, Finalize, LogSent, AfterBeginning,
            AfterFinalizing, historyVars
    <1>10. FinalizersHaveSent'
        BY <1>1, <1>2, <1>9 DEF FinalizersHaveSent
    <1>11. rows' # rows => pc[p] = "finalize"
        BY DEF FinishSend, BeginFanout, FinishFanout, Finalize, LogSent
    <1>12. BroadcastMeansSent'
        BY <1>1, <1>4, <1>9, <1>11 DEF FinalizersHaveSent, BroadcastMeansSent
    <1> QED
        BY <1>3, <1>5, <1>6, <1>8, <1>10, <1>12

\* Every step keeps the invariant.
LEMMA SafetyStep == SafetyInv /\ [Next]_vars => SafetyInv'
    <1> SUFFICES ASSUME SafetyInv, [Next]_vars PROVE SafetyInv'
        OBVIOUS
    <1>0. TypeInv'
        BY TypeStep DEF SafetyInv
    <1>1. ASSUME NEW c \in Commands, CommandStep(c)
          PROVE  SafetyInv'
        BY <1>0, <1>1, QuietCommandSteps, HandlerKeepsSafety, SendKeepsSafety
        DEF CommandStep, Processes
    <1>2. CASE WorkerStep
        BY <1>0, <1>2, QuietOtherSteps, SendKeepsSafety DEF WorkerStep, Processes
    <1> QED
        BY <1>0, <1>1, <1>2, SecretarySendsKeepsSafety, QuietCommandSteps, QuietOtherSteps
        DEF Next

\* The invariant of every behaviour, from which the three theorems follow.
LEMMA Safety == Spec => []SafetyInv
    BY SafetyInit, SafetyStep, PTL DEF Spec

\* No announcement goes out that no "approve" message names: approveAnnouncement
\* is the only path to broadcastMessage, by the handler or by the job it adds.
THEOREM OnlyApprovedGoesOut == Spec => []NeverUnapproved
    <1>1. SafetyInv => NeverUnapproved
        BY DEF SafetyInv
    <1> QED
        BY <1>1, Safety, PTL

\* A job on the broadcast queue belongs to an announcement approved or sent.
THEOREM JobsBelongToApproved == Spec => []JobsAreApproved
    <1>1. SafetyInv => JobsAreApproved
        BY DEF SafetyInv
    <1> QED
        BY <1>1, Safety, PTL

\* A row says broadcast only after a whole fan-out (sendAndFinalize's order).
THEOREM BroadcastRowsWereSent == Spec => []BroadcastMeansSent
    <1>1. SafetyInv => BroadcastMeansSent
        BY DEF SafetyInv
    <1> QED
        BY <1>1, Safety, PTL

-----------------------------------------------------------------------------
(* Counting fan-outs.  A process is counted while it has a fan-out under   *)
(* way and while it has one without an audit row.                          *)

Counted == {"fanout", "finalize", "audit"}
Fanning(a) == {p \in Processes : found[p] = a /\ pc[p] = "fanout"}
Busy == {p \in Processes : pc[p] # "idle"}

Counts(a) == <<begun[a], sent[a], audits[a]>>
\* What a step may do to the counts of an announcement: nothing,
Rests(a) ==
    /\ Fanning(a)' = Fanning(a) /\ Unlogged(a)' = Unlogged(a)
    /\ Counts(a)' = Counts(a) /\ faults' >= faults
\* begin a fan-out,
Starts(a) ==
    \E p \in Processes \ Fanning(a) :
        /\ Fanning(a)' = Fanning(a) \cup {p} /\ Unlogged(a)' = Unlogged(a)
        /\ Counts(a)' = <<begun[a] + 1, sent[a], audits[a]>> /\ faults' = faults
\* finish one,
Finishes(a) ==
    \E p \in Fanning(a) \ Unlogged(a) :
        /\ Fanning(a)' = Fanning(a) \ {p} /\ Unlogged(a)' = Unlogged(a) \cup {p}
        /\ Counts(a)' = <<begun[a], sent[a] + 1, audits[a]>> /\ faults' = faults
\* log one,
Logs(a) ==
    \E p \in Unlogged(a) :
        /\ Fanning(a)' = Fanning(a) /\ Unlogged(a)' = Unlogged(a) \ {p}
        /\ Counts(a)' = <<begun[a], sent[a], audits[a] + 1>> /\ faults' = faults
\* or lose a process, or every command that is being handled, to a fault.
Loses(a) ==
    \E S \in {ActiveCommands} \cup {{p} : p \in Processes} :
        /\ Fanning(a)' = Fanning(a) \ S /\ Unlogged(a)' = Unlogged(a) \ S
        /\ Counts(a)' = Counts(a) /\ faults' = faults + 1

\* A process that keeps out of the counted steps, or stays where it is.
Keeps(q) ==
    \/ pc'[q] = pc[q] /\ found'[q] = found[q]
    \/ pc[q] \notin Counted /\ pc'[q] \notin Counted

\* A step of other processes, or of none, leaves the counts alone.
LEMMA KeptIsResting ==
    ASSUME UNCHANGED historyVars, faults' >= faults, \A q \in Processes : Keeps(q)
    PROVE  \A a : Rests(a)
    BY DEF Keeps, Rests, Fanning, Unlogged, Counts, historyVars, Counted

\* A process that fails is counted no more.
LEMMA FailedIsLost ==
    ASSUME NEW p \in Processes, UNCHANGED historyVars, faults' = faults + 1,
           pc'[p] \notin Counted, \A q \in Processes \ {p} : Keeps(q)
    PROVE  \A a : Loses(a)
    <1> SUFFICES ASSUME NEW a PROVE Loses(a)
        OBVIOUS
    <1>1. Fanning(a)' = Fanning(a) \ {p} /\ Unlogged(a)' = Unlogged(a) \ {p}
        BY DEF Keeps, Fanning, Unlogged, Counted
    <1> QED
        BY <1>1 DEF Loses, Counts, historyVars

\* Every step does one of these.
LEMMA Tally ==
    ASSUME SafetyInv, [Next]_vars, NEW a \in Announcements
    PROVE  Rests(a) \/ Starts(a) \/ Finishes(a) \/ Logs(a) \/ Loses(a)
    <1>0. /\ TypeInv /\ faults \in Nat /\ MaxFaults \in Nat
          /\ Commands \subseteq Processes /\ Worker \in Processes /\ Worker \notin Commands
          /\ pc \in [Processes -> CommandSteps \cup WorkerSteps]
          /\ found \in [Processes -> Announcements \cup {None}]
          /\ begun \in [Announcements -> Nat] /\ sent \in [Announcements -> Nat]
          /\ audits \in [Announcements -> Nat]
        BY ConstantsAssumption DEF SafetyInv, TypeInv, TypeOK, Processes
    <1>1. CASE Tick \/ UNCHANGED vars
        BY <1>0, <1>1, KeptIsResting DEF Tick, vars, Keeps, historyVars, readVars
    <1>2. ASSUME NEW c \in Commands,
                 \/ \E text \in Drafts \cup Approvals : SecretarySends(c, text)
                 \/ TakeCommand(c) \/ InsertUntracked(c) \/ LookupFails(c)
                 \/ \E b \in Announcements : \/ InsertDraft(c, b)
                                             \/ GetAnnouncement(c, b)
                                             \/ Recheck(c, b)
                 \/ MarkApproved(c) \/ ScheduleBroadcast(c)
                 \/ \E reply \in Replies : Reply(c, reply[1], reply[2])
                 \/ CompleteCommand(c)
          PROVE  Rests(a)
        <2>0. faults' >= faults /\ UNCHANGED historyVars
            BY <1>0, <1>2 DEF SecretarySends, TakeCommand, InsertUntracked, LookupFails,
               InsertDraft, GetAnnouncement, Recheck, MarkApproved, ScheduleBroadcast, Reply,
               CompleteCommand
        <2>1. \A q \in Processes \ {c} : pc'[q] = pc[q] /\ found'[q] = found[q]
            BY <1>0, <1>2 DEF SecretarySends, TakeCommand, InsertUntracked, LookupFails,
               InsertDraft, GetAnnouncement, Recheck, MarkApproved, ScheduleBroadcast, Reply,
               CompleteCommand, readVars, GoTo
        <2>2. ASSUME TakeCommand(c) PROVE Keeps(c)
            <3>1. pc[c] = "idle"
                BY <1>0, <2>2 DEF TakeCommand, TypeInv, BusyOnActiveJobs
            <3>2. pc'[c] = "draft" \/ pc'[c] = "get"
                BY <1>0, <2>2 DEF TakeCommand, GoTo
            <3> QED
                BY <3>1, <3>2 DEF Keeps, Counted
        <2>3. ASSUME ~TakeCommand(c) PROVE Keeps(c)
            <3>1. \/ pc'[c] = pc[c] /\ found'[c] = found[c]
                  \/ pc[c] \notin Counted /\ pc'[c] \in {"preview", "recheck", "mark", "approve",
                         "recipients", "apologize", "enqueue", "tellScheduled", "done", "idle"}
                BY <1>0, <1>2, <2>3 DEF SecretarySends, InsertUntracked, LookupFails,
                   InsertDraft, GetAnnouncement, Recheck, MarkApproved, ScheduleBroadcast, Reply,
                   CompleteCommand, readVars, GoTo, Counted, AfterDraft, AfterGet, AfterRecheck,
                   AfterMarking, Replies
            <3> QED
                BY <3>1 DEF Keeps, Counted
        <2> QED
            BY <2>0, <2>1, <2>2, <2>3, KeptIsResting DEF Keeps
    <1>3. ASSUME NEW p \in Processes, FinishSend(p)
          PROVE  Rests(a) \/ Starts(a) \/ Finishes(a) \/ Logs(a)
        <2>0. /\ found[p] \in Announcements /\ faults' = faults /\ found' = found
              /\ pc' = [pc EXCEPT ![p] = pc'[p]]
            <3>1. pc[p] \in {"recipients", "fanout", "finalize", "audit"}
                BY <1>3 DEF FinishSend, BeginFanout, FinishFanout, Finalize, LogSent
            <3>2. found[p] \in Announcements
                BY <1>0, <3>1 DEF SafetyInv, TypeInv, HandlersHoldNamedRows, BusyOnActiveJobs,
                   ApproveTry, Processes
            <3> QED
                BY <1>0, <1>3, <3>2 DEF FinishSend, BeginFanout, FinishFanout, Finalize, LogSent,
                   readVars, GoTo
        <2>1. CASE BeginFanout(p)
            <3>1. /\ pc[p] = "recipients" /\ pc'[p] = "fanout" /\ sent' = sent
                  /\ audits' = audits /\ begun' = [begun EXCEPT ![found[p]] = @ + 1]
                BY <1>0, <2>1 DEF BeginFanout, GoTo, AfterBeginning
            <3>2. Unlogged(a)' = Unlogged(a)
                BY <1>0, <2>0, <3>1 DEF Unlogged
            <3>3. CASE found[p] = a
                <4>1. Fanning(a)' = Fanning(a) \cup {p} /\ p \notin Fanning(a)
                    BY <1>0, <2>0, <3>1, <3>3 DEF Fanning
                <4> QED
                    BY <1>0, <2>0, <3>1, <3>2, <3>3, <4>1 DEF Starts, Counts
            <3>4. CASE found[p] # a
                <4>1. Fanning(a)' = Fanning(a)
                    BY <1>0, <2>0, <3>1, <3>4 DEF Fanning
                <4> QED
                    BY <1>0, <2>0, <3>1, <3>2, <3>4, <4>1 DEF Rests, Counts
            <3> QED
                BY <3>3, <3>4
        <2>2. CASE FinishFanout(p)
            <3>1. /\ pc[p] = "fanout" /\ pc'[p] = "finalize" /\ begun' = begun
                  /\ audits' = audits /\ sent' = [sent EXCEPT ![found[p]] = @ + 1]
                BY <1>0, <2>2 DEF FinishFanout, GoTo
            <3>2. CASE found[p] = a
                <4>1. /\ Fanning(a)' = Fanning(a) \ {p} /\ p \in Fanning(a)
                      /\ Unlogged(a)' = Unlogged(a) \cup {p} /\ p \notin Unlogged(a)
                    BY <1>0, <2>0, <3>1, <3>2 DEF Fanning, Unlogged
                <4> QED
                    BY <1>0, <2>0, <3>1, <3>2, <4>1 DEF Finishes, Counts
            <3>3. CASE found[p] # a
                <4>1. Fanning(a)' = Fanning(a) /\ Unlogged(a)' = Unlogged(a)
                    BY <1>0, <2>0, <3>1, <3>3 DEF Fanning, Unlogged
                <4> QED
                    BY <1>0, <2>0, <3>1, <3>3, <4>1 DEF Rests, Counts
            <3> QED
                BY <3>2, <3>3
        <2>3. CASE Finalize(p)
            <3>1. pc[p] = "finalize" /\ pc'[p] = "audit" /\ UNCHANGED historyVars
                BY <1>0, <2>3 DEF Finalize, GoTo, AfterFinalizing
            <3>2. Fanning(a)' = Fanning(a) /\ Unlogged(a)' = Unlogged(a)
                BY <1>0, <2>0, <3>1 DEF Fanning, Unlogged
            <3> QED
                BY <1>0, <2>0, <3>1, <3>2 DEF Rests, Counts, historyVars
        <2>4. CASE LogSent(p)
            <3>1. /\ pc[p] = "audit" /\ (pc'[p] = "done" \/ pc'[p] = "tellSent")
                  /\ begun' = begun /\ sent' = sent
                  /\ audits' = [audits EXCEPT ![found[p]] = @ + 1]
                BY <1>0, <2>4 DEF LogSent, GoTo
            <3>2. Fanning(a)' = Fanning(a)
                BY <1>0, <2>0, <3>1 DEF Fanning
            <3>3. CASE found[p] = a
                <4>1. Unlogged(a)' = Unlogged(a) \ {p} /\ p \in Unlogged(a)
                    BY <1>0, <2>0, <3>1, <3>3 DEF Unlogged
                <4> QED
                    BY <1>0, <2>0, <3>1, <3>2, <3>3, <4>1 DEF Logs, Counts
            <3>4. CASE found[p] # a
                <4>1. Unlogged(a)' = Unlogged(a)
                    BY <1>0, <2>0, <3>1, <3>4 DEF Unlogged
                <4> QED
                    BY <1>0, <2>0, <3>1, <3>2, <3>4, <4>1 DEF Rests, Counts
            <3> QED
                BY <3>3, <3>4
        <2> QED
            BY <1>3, <2>1, <2>2, <2>3, <2>4 DEF FinishSend
    <1>4. ASSUME NEW c \in Commands,
                 \/ ApproveThrows(c) \/ CommandThrows(c)
                 \/ \E reply \in Replies : ReplyUnanswered(c, reply[1], reply[2])
          PROVE  Loses(a)
        <2>1. /\ faults' = faults + 1 /\ UNCHANGED historyVars
              /\ \A q \in Processes \ {c} : pc'[q] = pc[q] /\ found'[q] = found[q]
              /\ pc'[c] = "apologize" \/ pc'[c] = "idle"
            BY <1>0, <1>4 DEF ApproveThrows, CommandThrows, ReplyUnanswered, Fault, readVars, GoTo
        <2> QED
            BY <1>0, <2>1, FailedIsLost DEF Keeps, Counted
    <1>5. CASE WorkerStep /\ ~FinishSend(Worker)
        <2>1. /\ faults' = faults /\ UNCHANGED historyVars
              /\ \A q \in Processes \ {Worker} : pc'[q] = pc[q] /\ found'[q] = found[q]
              /\ pc[Worker] \in {"idle", "load", "done"}
              /\ pc'[Worker] \in {"idle", "load", "recipients"}
            BY <1>0, <1>5 DEF WorkerStep, TakeScheduled, LoadApproved, RefuseToSend,
               CompleteScheduled, EndAttempt, readVars, GoTo
        <2> QED
            BY <1>0, <2>1, KeptIsResting DEF Keeps, Counted
    <1>6. CASE WorkerThrows \/ WorkerCrash
        <2>1. /\ faults' = faults + 1 /\ UNCHANGED historyVars /\ pc'[Worker] = "idle"
              /\ \A q \in Processes \ {Worker} : pc'[q] = pc[q] /\ found'[q] = found[q]
            BY <1>0, <1>6 DEF WorkerThrows, WorkerCrash, EndAttempt, Fault, readVars, GoTo
        <2> QED
            BY <1>0, <2>1, FailedIsLost DEF Keeps, Counted
    <1>7. CASE InboundCrash
        <2>1. /\ faults' = faults + 1 /\ UNCHANGED historyVars /\ found' = found
              /\ \A q \in Processes : pc'[q] = IF q \in ActiveCommands THEN "idle" ELSE pc[q]
            BY <1>7 DEF InboundCrash, Fault, readVars
        <2>2. /\ Fanning(a)' = Fanning(a) \ ActiveCommands
              /\ Unlogged(a)' = Unlogged(a) \ ActiveCommands
            BY <2>1 DEF Fanning, Unlogged
        <2> QED
            BY <2>1, <2>2 DEF Loses, Counts, historyVars
    <1>8. ASSUME NEW c \in Commands, CommandStep(c), ~FinishSend(c)
          PROVE  Rests(a)
        BY <1>2, <1>8 DEF CommandStep
    <1> QED
        BY <1>0, <1>1, <1>2, <1>3, <1>4, <1>5, <1>6, <1>7, <1>8 DEF Next, CommandStep, WorkerStep

\* Every audit row has a fan-out of its own, those of Unlogged(a) are still to
\* have one, and those of Fanning(a) are still under way.
AccountInv(a) ==
    /\ IsFiniteSet(Fanning(a)) /\ IsFiniteSet(Unlogged(a))
    /\ audits[a] + Cardinality(Unlogged(a)) <= sent[a]
    /\ sent[a] + Cardinality(Fanning(a)) <= begun[a]
AccountsHold == \A a \in Announcements : AccountInv(a)

\* Removing an element, and adding a new one, by cardinality.
LEMMA OneInOneOut ==
    ASSUME NEW S, NEW x, IsFiniteSet(S)
    PROVE  /\ IsFiniteSet(S \cup {x}) /\ IsFiniteSet(S \ {x})
           /\ Cardinality(S) \in Nat
           /\ x \notin S => Cardinality(S \cup {x}) = Cardinality(S) + 1
           /\ x \in S => Cardinality(S \ {x}) = Cardinality(S) - 1
    BY FS_AddElement, FS_RemoveElement, FS_CardinalityType

\* Every step keeps the accounts.
LEMMA AccountsStep ==
    ASSUME SafetyInv, AccountsHold, [Next]_vars
    PROVE  AccountsHold'
    <1> SUFFICES ASSUME NEW a \in Announcements PROVE AccountInv(a)'
        BY DEF AccountsHold
    <1>0. /\ begun[a] \in Nat /\ sent[a] \in Nat /\ audits[a] \in Nat
          /\ AccountInv(a)
        BY DEF AccountsHold, SafetyInv, TypeInv, TypeOK
    <1>1. Cardinality(Fanning(a)) \in Nat /\ Cardinality(Unlogged(a)) \in Nat
        BY <1>0, FS_CardinalityType DEF AccountInv
    <1>2. CASE Rests(a)
        BY <1>0, <1>2 DEF AccountInv, Rests, Counts
    <1>3. CASE Starts(a)
        <2>1. PICK p : /\ p \notin Fanning(a) /\ Fanning(a)' = Fanning(a) \cup {p}
                       /\ Unlogged(a)' = Unlogged(a) /\ begun'[a] = begun[a] + 1
                       /\ sent'[a] = sent[a] /\ audits'[a] = audits[a]
            BY <1>3 DEF Starts, Counts
        <2>2. /\ IsFiniteSet(Fanning(a)')
              /\ Cardinality(Fanning(a)') = Cardinality(Fanning(a)) + 1
            BY <1>0, <2>1, OneInOneOut DEF AccountInv
        <2> QED
            BY <1>0, <1>1, <2>1, <2>2 DEF AccountInv
    <1>4. CASE Finishes(a)
        <2>1. PICK p : /\ p \in Fanning(a) /\ Fanning(a)' = Fanning(a) \ {p}
                       /\ p \notin Unlogged(a) /\ Unlogged(a)' = Unlogged(a) \cup {p}
                       /\ begun'[a] = begun[a] /\ sent'[a] = sent[a] + 1
                       /\ audits'[a] = audits[a]
            BY <1>4 DEF Finishes, Counts
        <2>2. /\ IsFiniteSet(Fanning(a)') /\ IsFiniteSet(Unlogged(a)')
              /\ Cardinality(Fanning(a)') = Cardinality(Fanning(a)) - 1
              /\ Cardinality(Unlogged(a)') = Cardinality(Unlogged(a)) + 1
            BY <1>0, <2>1, OneInOneOut, SMTT(30) DEF AccountInv
        <2> QED
            BY <1>0, <1>1, <2>1, <2>2 DEF AccountInv
    <1>5. CASE Logs(a)
        <2>1. PICK p : /\ Fanning(a)' = Fanning(a)
                       /\ p \in Unlogged(a) /\ Unlogged(a)' = Unlogged(a) \ {p}
                       /\ begun'[a] = begun[a] /\ sent'[a] = sent[a]
                       /\ audits'[a] = audits[a] + 1
            BY <1>5 DEF Logs, Counts
        <2>2. /\ IsFiniteSet(Unlogged(a)')
              /\ Cardinality(Unlogged(a)') = Cardinality(Unlogged(a)) - 1
            BY <1>0, <2>1, OneInOneOut DEF AccountInv
        <2> QED
            BY <1>0, <1>1, <2>1, <2>2 DEF AccountInv
    <1>6. CASE Loses(a)
        <2>1. PICK S : /\ Fanning(a)' = Fanning(a) \ S /\ Unlogged(a)' = Unlogged(a) \ S
                       /\ Counts(a)' = Counts(a)
            BY <1>6 DEF Loses
        <2>2. /\ IsFiniteSet(Fanning(a)') /\ IsFiniteSet(Unlogged(a)')
              /\ Cardinality(Fanning(a)') <= Cardinality(Fanning(a))
              /\ Cardinality(Unlogged(a)') <= Cardinality(Unlogged(a))
              /\ Cardinality(Fanning(a)') \in Nat /\ Cardinality(Unlogged(a)') \in Nat
            BY <1>0, <2>1, FS_Subset, NoElementMore DEF AccountInv
        <2> QED
            BY <1>0, <1>1, <2>1, <2>2 DEF AccountInv, Counts
    <1> QED
        BY <1>2, <1>3, <1>4, <1>5, <1>6, Tally

\* At first the accounts are empty.
LEMMA AccountsInit ==
    ASSUME Init
    PROVE  AccountsHold
    <1> SUFFICES ASSUME NEW a \in Announcements PROVE AccountInv(a)
        BY DEF AccountsHold
    <1>1. Fanning(a) = {} /\ Unlogged(a) = {}
        BY DEF Init, Fanning, Unlogged
    <1>2. begun[a] = 0 /\ sent[a] = 0 /\ audits[a] = 0
        BY DEF Init
    <1> QED
        BY <1>1, <1>2, FS_EmptySet DEF AccountInv

\* No audit row without a fan-out of its own that ran to the end (logSent comes
\* last, in the handler as in the worker), however many are handled at once.
THEOREM AuditRowsStandForFanouts == Spec => []AuditsMatchFanouts
    <1>1. SafetyInv /\ AccountsHold => AuditsMatchFanouts
        <2> SUFFICES ASSUME SafetyInv, AccountsHold, NEW a \in Announcements
                     PROVE  /\ audits[a] + Cardinality(Unlogged(a)) <= sent[a]
                            /\ sent[a] <= begun[a]
            BY DEF AuditsMatchFanouts
        <2>1. AccountInv(a) /\ sent[a] \in Nat /\ begun[a] \in Nat
            BY DEF AccountsHold, SafetyInv, TypeInv, TypeOK
        <2>2. Cardinality(Fanning(a)) \in Nat
            BY <2>1, FS_CardinalityType DEF AccountInv
        <2> QED
            BY <2>1, <2>2 DEF AccountInv
    <1> QED
        BY AccountsInit, <1>1, SafetyInit, SafetyStep, AccountsStep, PTL DEF Spec

-----------------------------------------------------------------------------
(* What a step does to one row, one process, one message and one job.      *)

\* A row changes when it is drafted, marked or finalized.
LEMMA RowMoves ==
    ASSUME SafetyInv, [Next]_vars, NEW a \in Announcements, rows'[a] # rows[a]
    PROVE  \/ \E c \in Commands : InsertDraft(c, a)
           \/ \E c \in Commands : MarkApproved(c) /\ found[c] = a
           \/ \E p \in Processes : Finalize(p) /\ found[p] = a
    <1>1. \/ \E c \in Commands : MarkApproved(c) \/ \E b \in Announcements : InsertDraft(c, b)
          \/ \E p \in Processes : Finalize(p)
        BY DEF Next, CommandStep, WorkerStep, FinishSend, vars, Tick, SecretarySends, TakeCommand,
           CompleteCommand, InsertUntracked, LookupFails, GetAnnouncement, Recheck,
           ScheduleBroadcast, BeginFanout, FinishFanout, LogSent, Reply, TakeScheduled,
           LoadApproved, RefuseToSend, CompleteScheduled, EndAttempt, ApproveThrows,
           CommandThrows, ReplyUnanswered, WorkerThrows, InboundCrash, WorkerCrash, Processes
    <1>2. rows \in [Announcements -> Row]
        BY DEF SafetyInv, TypeInv, TypeOK
    <1> QED
        BY <1>1, <1>2 DEF MarkApproved, InsertDraft, Finalize

\* Steps at which a process is about nothing that was approved.
Aside == {"idle", "draft", "get", "preview", "apologize", "done", "load"}

\* Steps between finding a row fit to be sent, or to be marked, and writing it.
Immediate == {"approve", "recipients", "fanout", "finalize"}

\* A process fails, ends, or begins anew, or takes one of the steps that lead on.
Moves(q) ==
    \/ /\ pc'[q] \in Aside
       /\ \/ found'[q] = found[q]
          \/ q = Worker /\ pc'[q] = "load" /\ TakeScheduled(found'[q])
          \/ q \in Commands /\ \E a \in Announcements : InsertDraft(q, a)
       /\ pc[q] \in Immediate \cup {"audit"} => faults' = faults + 1
       /\ pc'[q] = "draft" => q \in Commands /\ TakeCommand(q)
       /\ pc'[q] = "load" => \E a \in Announcements : TakeScheduled(a)
    \/ q \in Commands /\ \E a \in Announcements : GetAnnouncement(q, a) \/ Recheck(q, a)
    \/ q \in Commands /\ (MarkApproved(q) \/ ScheduleBroadcast(q))
    \/ FinishSend(q)
    \/ q = Worker /\ LoadApproved

\* Every step moves a process so or leaves it where it is.
LEMMA ProcessMoves ==
    ASSUME SafetyInv, [Next]_vars, NEW q \in Processes
    PROVE  Moves(q) \/ (pc'[q] = pc[q] /\ found'[q] = found[q])
    <1>0. /\ Commands \subseteq Processes /\ Worker \in Processes /\ Worker \notin Commands
          /\ pc \in [Processes -> CommandSteps \cup WorkerSteps]
          /\ found \in [Processes -> Announcements \cup {None}]
          /\ \A c \in Commands : pc[c] # "idle" => inbound[c].state = "active"
        BY ConstantsAssumption DEF SafetyInv, TypeInv, TypeOK, Processes, BusyOnActiveJobs
    <1>1. CASE Tick \/ UNCHANGED vars
        BY <1>1 DEF Tick, vars, readVars
    <1>2. ASSUME NEW c \in Commands,
                 \/ \E text \in Drafts \cup Approvals : SecretarySends(c, text)
                 \/ CommandStep(c) \/ ApproveThrows(c) \/ CommandThrows(c)
                 \/ \E reply \in Replies : ReplyUnanswered(c, reply[1], reply[2])
          PROVE  /\ q # c => pc'[q] = pc[q] /\ found'[q] = found[q]
                 /\ Moves(c) \/ (pc'[c] = pc[c] /\ found'[c] = found[c])
        <2>1. q # c => pc'[q] = pc[q] /\ found'[q] = found[q]
            BY <1>0, <1>2 DEF SecretarySends, CommandStep, ApproveThrows, CommandThrows,
               ReplyUnanswered, TakeCommand, InsertDraft, InsertUntracked, LookupFails,
               GetAnnouncement, Recheck, MarkApproved, ScheduleBroadcast, FinishSend, BeginFanout,
               FinishFanout, Finalize, LogSent, Reply, CompleteCommand, readVars, GoTo
        <2>2. CASE \E text \in Drafts \cup Approvals : SecretarySends(c, text)
            BY <2>1, <2>2 DEF SecretarySends, readVars
        <2>3. CASE TakeCommand(c)
            <3>1. /\ pc[c] = "idle" /\ found'[c] = found[c]
                  /\ pc'[c] = "draft" \/ pc'[c] = "get"
                BY <1>0, <2>3 DEF TakeCommand, GoTo, readVars
            <3> QED
                BY <2>1, <2>3, <3>1 DEF Moves, Aside, Immediate
        <2>4. CASE \/ InsertUntracked(c) \/ LookupFails(c) \/ CompleteCommand(c)
                   \/ \E reply \in Replies : Reply(c, reply[1], reply[2])
            <3>1. /\ pc[c] \notin Immediate \cup {"audit"} /\ found'[c] = found[c]
                  /\ pc'[c] \in {"preview", "apologize", "done", "idle"}
                BY <1>0, <2>4 DEF InsertUntracked, LookupFails, Reply, CompleteCommand, GoTo,
                   readVars, Replies, Immediate
            <3> QED
                BY <2>1, <3>1 DEF Moves, Aside, Immediate
        <2>5. CASE \E a \in Announcements : InsertDraft(c, a)
            <3>1. pc[c] = "draft" /\ pc'[c] = "preview"
                BY <1>0, <2>5 DEF InsertDraft, GoTo, AfterDraft
            <3> QED
                BY <2>1, <2>5, <3>1 DEF Moves, Aside, Immediate
        <2>6. CASE \/ \E a \in Announcements : GetAnnouncement(c, a) \/ Recheck(c, a)
                   \/ MarkApproved(c) \/ ScheduleBroadcast(c) \/ FinishSend(c)
            BY <2>1, <2>6 DEF Moves
        <2>7. CASE \/ ApproveThrows(c) \/ CommandThrows(c)
                   \/ \E reply \in Replies : ReplyUnanswered(c, reply[1], reply[2])
            <3>1. /\ faults' = faults + 1 /\ found'[c] = found[c]
                  /\ pc'[c] \in {"apologize", "idle"}
                BY <1>0, <2>7 DEF ApproveThrows, CommandThrows, ReplyUnanswered, Fault, GoTo,
                   readVars
            <3> QED
                BY <2>1, <3>1 DEF Moves, Aside, Immediate
        <2> QED
            BY <1>2, <2>1, <2>2, <2>3, <2>4, <2>5, <2>6, <2>7 DEF CommandStep
    <1>3. ASSUME WorkerStep \/ WorkerThrows \/ WorkerCrash
          PROVE  /\ q # Worker => pc'[q] = pc[q] /\ found'[q] = found[q]
                 /\ Moves(Worker)
        <2>1. q # Worker => pc'[q] = pc[q] /\ found'[q] = found[q]
            BY <1>0, <1>3 DEF WorkerStep, TakeScheduled, LoadApproved, RefuseToSend,
               CompleteScheduled, WorkerThrows, WorkerCrash, EndAttempt, FinishSend, BeginFanout,
               FinishFanout, Finalize, LogSent, readVars, GoTo
        <2>2. ASSUME NEW a \in Announcements, TakeScheduled(a)
              PROVE  Moves(Worker)
            <3>1. /\ pc[Worker] = "idle" /\ pc'[Worker] = "load" /\ found'[Worker] = a
                BY <1>0, <2>2 DEF TakeScheduled, GoTo
            <3> QED
                BY <2>2, <3>1 DEF Moves, Aside, Immediate
        <2>3. CASE LoadApproved \/ FinishSend(Worker)
            BY <2>1, <2>3 DEF Moves
        <2>4. CASE RefuseToSend \/ CompleteScheduled \/ WorkerThrows \/ WorkerCrash
            <3>1. /\ pc'[Worker] = "idle" /\ found'[Worker] = found[Worker]
                  /\ faults' = faults + 1 \/ pc[Worker] \in {"load", "done"}
                BY <1>0, <2>4 DEF RefuseToSend, CompleteScheduled, WorkerThrows, WorkerCrash,
                   EndAttempt, GoTo, readVars, Fault
            <3> QED
                BY <2>1, <3>1 DEF Moves, Aside, Immediate
        <2> QED
            BY <1>3, <2>1, <2>2, <2>3, <2>4 DEF WorkerStep
    <1>4. CASE InboundCrash
        <2>1. /\ faults' = faults + 1 /\ found'[q] = found[q]
              /\ pc'[q] = "idle" \/ pc'[q] = pc[q]
            BY <1>4 DEF InboundCrash, Fault, readVars
        <2> QED
            BY <2>1 DEF Moves, Aside, Immediate
    <1> QED
        BY <1>1, <1>2, <1>3, <1>4 DEF Next

\* Time and faults only grow, jobs stay on the queue, and a message that was
\* sent stays what it is.
LEMMA RecordsStay ==
    ASSUME SafetyInv, [Next]_vars
    PROVE  /\ now' \in Nat /\ now \in Nat /\ now <= now'
           /\ \A a \in Announcements :
                  /\ scheduled[a].state # "absent" => scheduled'[a].state # "absent"
                  /\ dueAt'[a] # dueAt[a] => \E c \in Commands : ScheduleBroadcast(c)
           /\ \A c \in Commands : command'[c] # command[c] =>
                  /\ command[c].kind = "none" /\ inbound[c].state = "absent" /\ pc[c] = "idle"
                  /\ command'[c] \in Drafts \cup Approvals
    <1>0. /\ now \in Nat /\ MaxTime \in Nat
          /\ dueAt \in [Announcements -> Times] /\ scheduled \in [Announcements -> BoundedJob]
          /\ command \in [Commands -> Command]
          /\ \A c \in Commands : inbound[c].state = "absent" <=> command[c].kind = "none"
          /\ \A c \in Commands : pc[c] # "idle" => inbound[c].state = "active"
          /\ \A a \in Announcements : HasAttemptsLeft(scheduled[a])
          /\ pc[Worker] # "idle" => /\ found[Worker] \in Announcements
                                    /\ scheduled[found[Worker]].state = "active"
        BY ConstantsAssumption DEF SafetyInv, TypeInv, TypeOK, Times, CommandsAreGiven,
           BusyOnActiveJobs, JobsHaveAttemptsLeft
    <1>1. now' \in Nat /\ now <= now'
        <2>1. now' = now \/ now' = now + 1
            BY ZenonT(60) DEF Next, CommandStep, WorkerStep, FinishSend, vars, Tick, SecretarySends,
               TakeCommand, CompleteCommand, InsertDraft, InsertUntracked, LookupFails,
               GetAnnouncement, Recheck, MarkApproved, ScheduleBroadcast, BeginFanout,
               FinishFanout, Finalize, LogSent, Reply, TakeScheduled, LoadApproved, RefuseToSend,
               CompleteScheduled, EndAttempt, ApproveThrows, CommandThrows, ReplyUnanswered,
               WorkerThrows, InboundCrash, WorkerCrash
        <2> QED
            BY <1>0, <2>1
    <1>2. ASSUME NEW a \in Announcements, dueAt'[a] # dueAt[a]
          PROVE  \E c \in Commands : ScheduleBroadcast(c)
        BY <1>2, ZenonT(60) DEF Next, CommandStep, WorkerStep, FinishSend, vars, Tick,
           SecretarySends,
           TakeCommand, CompleteCommand, InsertDraft, InsertUntracked, LookupFails,
           GetAnnouncement, Recheck, MarkApproved, BeginFanout, FinishFanout, Finalize, LogSent,
           Reply, TakeScheduled, LoadApproved, RefuseToSend, CompleteScheduled, EndAttempt,
           ApproveThrows, CommandThrows, ReplyUnanswered, WorkerThrows, InboundCrash, WorkerCrash,
           queueVars
    <1>3. ASSUME NEW a \in Announcements, scheduled[a].state # "absent"
          PROVE  scheduled'[a].state # "absent"
        <2>1. \/ scheduled' = scheduled
              \/ \E c \in Commands : ScheduleBroadcast(c)
              \/ \E b \in Announcements : TakeScheduled(b)
              \/ RefuseToSend \/ CompleteScheduled \/ WorkerThrows \/ WorkerCrash
            BY ZenonT(60) DEF Next, CommandStep, WorkerStep, FinishSend, vars, Tick, SecretarySends,
               TakeCommand, CompleteCommand, InsertDraft, InsertUntracked, LookupFails,
               GetAnnouncement, Recheck, MarkApproved, BeginFanout, FinishFanout, Finalize,
               LogSent, Reply, LoadApproved, ApproveThrows, CommandThrows, ReplyUnanswered,
               InboundCrash, queueVars
        <2>2. CASE \E c \in Commands : ScheduleBroadcast(c)
            BY <1>0, <1>3, <2>2, NewJobs DEF ScheduleBroadcast
        <2>3. ASSUME NEW b \in Announcements, TakeScheduled(b)
              PROVE  scheduled'[a].state # "absent"
            BY <1>0, <1>3, <2>3 DEF TakeScheduled, Taken, BoundedJob
        <2>4. CASE RefuseToSend \/ CompleteScheduled \/ WorkerThrows \/ WorkerCrash
            <3>1. PICK x \in {Completed(scheduled[found[Worker]]),
                              Retried(scheduled[found[Worker]]),
                              Stalled(scheduled[found[Worker]])} :
                      scheduled' = [scheduled EXCEPT ![found[Worker]] = x]
                BY <2>4 DEF RefuseToSend, CompleteScheduled, WorkerThrows, WorkerCrash, EndAttempt
            <3>2. pc[Worker] # "idle"
                BY <2>4 DEF RefuseToSend, CompleteScheduled, WorkerThrows, WorkerCrash
            <3>3. x.state # "absent"
                BY <1>0, <3>1, <3>2, JobTransitions
            <3> QED
                BY <1>0, <1>3, <3>1, <3>3
        <2> QED
            BY <1>3, <2>1, <2>2, <2>3, <2>4
    <1>4. ASSUME NEW c \in Commands, command'[c] # command[c]
          PROVE  /\ command[c].kind = "none" /\ inbound[c].state = "absent" /\ pc[c] = "idle"
                 /\ command'[c] \in Drafts \cup Approvals
        <2>1. PICK d \in Commands : \E text \in Drafts \cup Approvals : SecretarySends(d, text)
            BY <1>4, ZenonT(60) DEF Next, CommandStep, WorkerStep, FinishSend, vars, Tick,
               TakeCommand,
               CompleteCommand, InsertDraft, InsertUntracked, LookupFails, GetAnnouncement,
               Recheck, MarkApproved, ScheduleBroadcast, BeginFanout, FinishFanout, Finalize,
               LogSent, Reply, TakeScheduled, LoadApproved, RefuseToSend, CompleteScheduled,
               EndAttempt, ApproveThrows, CommandThrows, ReplyUnanswered, WorkerThrows,
               InboundCrash, WorkerCrash, handlerVars
        <2> QED
            BY <1>0, <1>4, <2>1 DEF SecretarySends
    <1> QED
        BY <1>0, <1>1, <1>2, <1>3, <1>4

-----------------------------------------------------------------------------
(* Who approved.                                                           *)

\* An approved row, and whoever is to finalize one, says who approved it.
ApprovalInv ==
    /\ \A a \in Announcements :
           rows[a].status \in {"approved", "broadcast"} => rows[a].approvedBy # None
    /\ pc[Worker] \in {"recipients", "fanout", "finalize"} => approver # None
    /\ \A c \in Commands : command[c].kind = "approve" => command[c].by # None

\* Whoever marks or finalizes a row has an approver's name to write.
LEMMA WritersAreNamed ==
    ASSUME SafetyInv, ApprovalInv
    PROVE  /\ \A c \in Commands : pc[c] \in {"approve", "finalize"} => command[c].by # None
           /\ \A p \in Processes : pc[p] = "finalize" => ApprovedBy(p) # None
    <1>1. \A c \in Commands : pc[c] \in {"approve", "finalize"} => command[c].by # None
        BY DEF SafetyInv, CommandsAreGiven, ApproveTry, ApprovalInv
    <1> QED
        BY <1>1, ConstantsAssumption DEF ApprovalInv, ApprovedBy, Processes

\* What is approved stays so, with its approver and its time.
LEMMA ApprovalStays ==
    ASSUME SafetyInv, ApprovalInv, [Next]_vars, NEW a \in Announcements,
           rows[a].status \in {"approved", "broadcast"}
    PROVE  /\ rows'[a].status \in {"approved", "broadcast"}
           /\ rows'[a].approvedBy # None
           /\ rows'[a].at = rows[a].at
    <1>0. rows \in [Announcements -> Row] /\ rows[a].approvedBy # None
        BY DEF SafetyInv, TypeInv, TypeOK, ApprovalInv
    <1>1. CASE rows'[a] = rows[a]
        BY <1>0, <1>1
    <1>2. CASE \E c \in Commands : InsertDraft(c, a)
        BY <1>2 DEF InsertDraft, Exists
    <1>3. CASE \E c \in Commands : MarkApproved(c) /\ found[c] = a
        <2>1. PICK c \in Commands : MarkApproved(c) /\ found[c] = a
            BY <1>3
        <2>2. command[c].by # None
            BY <2>1, WritersAreNamed DEF MarkApproved
        <2> QED
            BY <1>0, <2>1, <2>2 DEF MarkApproved, Row
    <1>4. CASE \E p \in Processes : Finalize(p) /\ found[p] = a
        <2>1. PICK p \in Processes : Finalize(p) /\ found[p] = a
            BY <1>4
        <2>2. ApprovedBy(p) # None
            BY <2>1, WritersAreNamed DEF Finalize
        <2> QED
            BY <1>0, <2>1, <2>2 DEF Finalize, Row
    <1> QED
        BY <1>1, <1>2, <1>3, <1>4, RowMoves

\* Every step keeps the approvers.
LEMMA ApprovalStep ==
    ASSUME SafetyInv, ApprovalInv, [Next]_vars
    PROVE  ApprovalInv'
    <1>0. /\ rows \in [Announcements -> Row] /\ Worker \in Processes /\ Worker \notin Commands
          /\ pc \in [Processes -> CommandSteps \cup WorkerSteps]
          /\ found[Worker] \in Announcements \cup {None}
          /\ pc[Worker] # "idle" => found[Worker] \in Announcements
        BY ConstantsAssumption DEF SafetyInv, TypeInv, TypeOK, Processes, BusyOnActiveJobs
    <1>1. ASSUME NEW a \in Announcements, rows'[a].status \in {"approved", "broadcast"}
          PROVE  rows'[a].approvedBy # None
        <2>1. CASE rows'[a] = rows[a]
            BY <1>1, <2>1 DEF ApprovalInv
        <2>2. CASE \E c \in Commands : InsertDraft(c, a)
            BY <1>0, <1>1, <2>2 DEF InsertDraft
        <2>3. CASE \E c \in Commands : MarkApproved(c) /\ found[c] = a
            BY <1>0, <2>3, WritersAreNamed DEF MarkApproved, Row
        <2>4. CASE \E p \in Processes : Finalize(p) /\ found[p] = a
            BY <1>0, <2>4, WritersAreNamed DEF Finalize, Row
        <2> QED
            BY <2>1, <2>2, <2>3, <2>4, RowMoves
    <1>2. ASSUME pc'[Worker] \in {"recipients", "fanout", "finalize"}
          PROVE  approver' # None
        <2>1. CASE LoadApproved
            BY <1>0, <2>1 DEF LoadApproved, Sendable
        <2>2. CASE ~LoadApproved
            <3>1. approver' = approver
                BY <2>2, ZenonT(60) DEF Next, CommandStep, WorkerStep, FinishSend, vars, Tick,
                   SecretarySends,
                   TakeCommand, CompleteCommand, InsertDraft, InsertUntracked, LookupFails,
                   GetAnnouncement, Recheck, MarkApproved, ScheduleBroadcast, BeginFanout,
                   FinishFanout, Finalize, LogSent, Reply, TakeScheduled, RefuseToSend,
                   CompleteScheduled, EndAttempt, ApproveThrows, CommandThrows, ReplyUnanswered,
                   WorkerThrows, InboundCrash, WorkerCrash, readVars
            <3>2. pc'[Worker] = pc[Worker] \/ FinishSend(Worker)
                BY <1>0, <1>2, <2>2, ProcessMoves DEF Moves, Aside
            <3>3. pc[Worker] \in {"recipients", "fanout", "finalize"}
                BY <1>0, <1>2, <3>2 DEF FinishSend, BeginFanout, FinishFanout, Finalize, LogSent,
                   GoTo
            <3> QED
                BY <3>1, <3>3 DEF ApprovalInv
        <2> QED
            BY <2>1, <2>2
    <1>3. ASSUME NEW c \in Commands, command'[c].kind = "approve"
          PROVE  command'[c].by # None
        <2>1. CASE command'[c] = command[c]
            BY <1>3, <2>1 DEF ApprovalInv
        <2>2. CASE command'[c] \in Drafts \cup Approvals
            BY <1>3, <2>2, ConstantsAssumption DEF Drafts, Approvals
        <2> QED
            BY <2>1, <2>2, RecordsStay
    <1> QED
        BY <1>1, <1>2, <1>3 DEF ApprovalInv

\* Once approved an announcement is never pending again, and never without its
\* approver: what UPDATEs by id alone write in tools/broadcastTool.ts.
THEOREM ApprovalsAreFinal == Spec => ApprovalIsFinal
    <1>1. ASSUME Init PROVE ApprovalInv
        <2>1. /\ \A a \in Announcements : rows[a].status = "none"
              /\ \A c \in Commands : command[c].kind = "none"
              /\ pc[Worker] = "idle"
            BY <1>1 DEF Init, NoCommand, Processes
        <2> QED
            BY <2>1 DEF ApprovalInv
    <1>2. ASSUME SafetyInv, ApprovalInv, [Next]_vars
          PROVE  [\A a \in Announcements :
                     rows[a].status \in {"approved", "broadcast"} =>
                         /\ rows'[a].status \in {"approved", "broadcast"}
                         /\ rows'[a].approvedBy # None
                         /\ rows'[a].at = rows[a].at]_vars
        BY <1>2, ApprovalStays
    <1> QED
        BY <1>1, <1>2, SafetyInit, SafetyStep, ApprovalStep, PTL DEF Spec, ApprovalIsFinal

-----------------------------------------------------------------------------
(* What an extra fan-out, or a missing audit row, costs.  A handler that   *)
(* found the row pending holds a claim to one fan-out, which it spends     *)
(* itself or hands to the queue.  The first claim is free; another is an   *)
(* overlap while the first is undecided, and is refused once the row is no *)
(* longer pending; it is free again only if a fault ended the first.       *)

Flag(b) == IF b THEN 1 ELSE 0

\* The handlers that may yet begin a fan-out, or hand one to the queue,
Claims(a) ==
    {c \in Commands : found[c] = a /\ pc[c] \in {"approve", "enqueue", "recipients"}}
\* a job that may yet begin one,
Waits(a) ==
    \/ scheduled[a].state = "waiting"
    \/ found[Worker] = a /\ pc[Worker] \in {"load", "recipients"}
\* and whether the row is somebody's, or decided.
Chosen(a) == Undecided(a) # {} \/ rows[a].status \in {"approved", "broadcast"}

Promised(a) == begun[a] + Flag(Waits(a))
Allowed(a) == faults + overlaps[a] + Flag(Chosen(a))
FanoutInv(a) ==
    /\ IsFiniteSet(Claims(a))
    /\ Promised(a) + Cardinality(Claims(a)) <= Allowed(a)

\* The handlers whose fan-out is still to end, and those on the way to logging one.
Unsent(a) == {c \in Commands : found[c] = a /\ pc[c] \in {"recipients", "fanout"}}
Sending(a) ==
    {c \in Commands : /\ found[c] = a
                      /\ pc[c] \in {"recipients", "fanout", "finalize", "audit"}}
WorkerLogs(a) == found[Worker] = a /\ pc[Worker] \in {"finalize", "audit"}

Excused(a) ==
    audits[a] + Flag(WorkerLogs(a)) + faults + overlaps[a] + Flag(Sending(a) # {})
MissingInv(a) ==
    /\ IsFiniteSet(Unsent(a))
    /\ sent[a] + Cardinality(Unsent(a)) <= Excused(a)

\* A row that is being logged is decided.
LoggedAreDecided ==
    \A c \in Commands : pc[c] = "audit" => rows[found[c]].status \in {"approved", "broadcast"}

CostInv == /\ SafetyInv /\ ApprovalInv /\ LoggedAreDecided
           /\ \A a \in Announcements : FanoutInv(a) /\ MissingInv(a)

-----------------------------------------------------------------------------

\* A count and a set that may grow no further than what is allowed: the set is
\* given up or spent on the count, or it grows with the allowance.
Balanced(S, T, spent, after, allowed, allowedAfter) ==
    \/ T \subseteq S /\ after + allowed <= spent + allowedAfter
    \/ \E x \in S : T \subseteq S \ {x} /\ after + allowed <= spent + 1 + allowedAfter
    \/ \E x : T \subseteq S \cup {x} /\ after + allowed + 1 <= spent + allowedAfter

\* Such a step keeps the balance.
LEMMA BalanceKept ==
    ASSUME NEW S, NEW T, IsFiniteSet(S), NEW spent \in Nat, NEW after \in Nat,
           NEW allowed \in Nat, NEW allowedAfter \in Nat,
           Balanced(S, T, spent, after, allowed, allowedAfter),
           spent + Cardinality(S) <= allowed
    PROVE  IsFiniteSet(T) /\ after + Cardinality(T) <= allowedAfter
    <1>0. Cardinality(S) \in Nat
        BY FS_CardinalityType
    <1>1. CASE T \subseteq S /\ after + allowed <= spent + allowedAfter
        <2>1. IsFiniteSet(T) /\ Cardinality(T) <= Cardinality(S) /\ Cardinality(T) \in Nat
            BY <1>1, NoElementMore, FS_Subset
        <2> QED
            BY <1>0, <1>1, <2>1
    <1>2. CASE \E x \in S : T \subseteq S \ {x} /\ after + allowed <= spent + 1 + allowedAfter
        <2>1. PICK x \in S : T \subseteq S \ {x} /\ after + allowed <= spent + 1 + allowedAfter
            BY <1>2
        <2>2. IsFiniteSet(S \ {x}) /\ Cardinality(S \ {x}) = Cardinality(S) - 1
            BY OneInOneOut
        <2>3. /\ IsFiniteSet(T) /\ Cardinality(T) \in Nat
              /\ Cardinality(T) <= Cardinality(S \ {x})
            BY <2>1, <2>2, NoElementMore, FS_Subset
        <2> QED
            BY <1>0, <2>1, <2>2, <2>3
    <1>3. CASE \E x : T \subseteq S \cup {x} /\ after + allowed + 1 <= spent + allowedAfter
        <2>1. PICK x : T \subseteq S \cup {x} /\ after + allowed + 1 <= spent + allowedAfter
            BY <1>3
        <2>2. Cardinality(T) <= Cardinality(S) + 1 /\ Cardinality(T) \in Nat
            BY <2>1, OneElementMore
        <2>3. IsFiniteSet(T)
            BY <2>1, OneInOneOut, FS_Subset
        <2> QED
            BY <1>0, <2>1, <2>2, <2>3
    <1> QED
        BY <1>1, <1>2, <1>3 DEF Balanced

\* Counts of an announcement move only with a process that is sending it.
LEMMA CountsMove ==
    ASSUME SafetyInv, [Next]_vars, NEW a \in Announcements, Counts(a)' # Counts(a)
    PROVE  \E p \in Processes : FinishSend(p) /\ found[p] = a
    <1>1. \E p \in Processes : FinishSend(p)
        BY ZenonT(60) DEF Next, CommandStep, WorkerStep, vars, Tick, SecretarySends,
           TakeCommand, CompleteCommand, InsertDraft, InsertUntracked, LookupFails,
           GetAnnouncement, Recheck, MarkApproved, ScheduleBroadcast,
           Reply, TakeScheduled, LoadApproved, RefuseToSend, CompleteScheduled,
           EndAttempt, ApproveThrows, CommandThrows, ReplyUnanswered, WorkerThrows, InboundCrash,
           WorkerCrash, historyVars, Processes, Counts
    <1>2. PICK p \in Processes : FinishSend(p)
        BY <1>1
    <1>3. begun \in [Announcements -> Nat] /\ sent \in [Announcements -> Nat]
          /\ audits \in [Announcements -> Nat]
        BY DEF SafetyInv, TypeInv, TypeOK
    <1>4. found[p] # a => Counts(a)' = Counts(a)
        BY <1>2, <1>3 DEF FinishSend, BeginFanout, FinishFanout, Finalize, LogSent, historyVars,
           Counts
    <1> QED
        BY <1>2, <1>4

\* Faults and overlaps only grow, overlaps when a row is found pending.
LEMMA CausesGrow ==
    ASSUME SafetyInv, [Next]_vars, NEW a \in Announcements
    PROVE  /\ faults \in Nat /\ faults' \in Nat /\ faults <= faults'
           /\ overlaps[a] \in Nat /\ overlaps'[a] \in Nat /\ overlaps[a] <= overlaps'[a]
    <1>1. /\ faults \in Nat /\ faults' \in Nat
          /\ overlaps \in [Announcements -> Nat] /\ overlaps'[a] \in Nat
        BY TypeStep, ConstantsAssumption DEF SafetyInv, TypeInv, TypeOK
    <1>2. faults <= faults'
        BY <1>1, Tally DEF Rests, Starts, Finishes, Logs, Loses
    <1>3. \/ overlaps' = overlaps
          \/ \E c \in Commands, b \in Announcements : Recheck(c, b)
        BY ZenonT(60) DEF Next, CommandStep, WorkerStep, FinishSend, vars, Tick, SecretarySends,
           TakeCommand, CompleteCommand, InsertDraft, InsertUntracked, LookupFails,
           GetAnnouncement, MarkApproved, ScheduleBroadcast, BeginFanout, FinishFanout, Finalize,
           LogSent, Reply, TakeScheduled, LoadApproved, RefuseToSend, CompleteScheduled,
           EndAttempt, ApproveThrows, CommandThrows, ReplyUnanswered, WorkerThrows, InboundCrash,
           WorkerCrash, readVars
    <1>4. ASSUME NEW c \in Commands, NEW b \in Announcements, Recheck(c, b)
          PROVE  overlaps[a] <= overlaps'[a]
        BY <1>1, <1>4 DEF Recheck
    <1> QED
        BY <1>1, <1>2, <1>3, <1>4

\* A step of a command leaves the worker where it is.
LEMMA WorkerMoves ==
    ASSUME SafetyInv, [Next]_vars
    PROVE  \/ WorkerStep \/ WorkerThrows \/ WorkerCrash
           \/ pc'[Worker] = pc[Worker] /\ found'[Worker] = found[Worker]
    <1>0. /\ Commands \subseteq Processes /\ Worker \in Processes /\ Worker \notin Commands
          /\ pc \in [Processes -> CommandSteps \cup WorkerSteps]
          /\ found \in [Processes -> Announcements \cup {None}]
        BY ConstantsAssumption DEF SafetyInv, TypeInv, TypeOK, Processes
    <1>1. CASE Tick \/ UNCHANGED vars
        BY <1>1 DEF Tick, vars, readVars
    <1>2. ASSUME NEW c \in Commands,
                 \/ \E text \in Drafts \cup Approvals : SecretarySends(c, text)
                 \/ CommandStep(c) \/ ApproveThrows(c) \/ CommandThrows(c)
                 \/ \E reply \in Replies : ReplyUnanswered(c, reply[1], reply[2])
          PROVE  pc'[Worker] = pc[Worker] /\ found'[Worker] = found[Worker]
        BY <1>0, <1>2 DEF SecretarySends, CommandStep, ApproveThrows, CommandThrows,
           ReplyUnanswered, TakeCommand, InsertDraft, InsertUntracked, LookupFails,
           GetAnnouncement, Recheck, MarkApproved, ScheduleBroadcast, FinishSend, BeginFanout,
           FinishFanout, Finalize, LogSent, Reply, CompleteCommand, readVars, GoTo
    <1>3. CASE InboundCrash
        BY <1>0, <1>3 DEF InboundCrash, ActiveCommands, readVars
    <1> QED
        BY <1>1, <1>2, <1>3 DEF Next

-----------------------------------------------------------------------------
(* Claims to a fan-out.                                                    *)

\* A handler comes by a claim, or by a fan-out to send, when it finds the row
\* pending.
LEMMA ClaimsComeByRecheck ==
    ASSUME SafetyInv, [Next]_vars, NEW a \in Announcements, NEW c \in Commands,
           c \in Claims(a)' \ Claims(a) \/ c \in Unsent(a)' \ Unsent(a)
    PROVE  Recheck(c, a)
    <1>0. /\ c \in Processes /\ c # Worker /\ pc \in [Processes -> CommandSteps \cup WorkerSteps]
          /\ found \in [Processes -> Announcements \cup {None}]
        BY ConstantsAssumption DEF SafetyInv, TypeInv, TypeOK, Processes
    <1>1. /\ found'[c] = a /\ pc'[c] \in {"approve", "enqueue", "recipients", "fanout"}
          /\ ~(pc'[c] = pc[c] /\ found'[c] = found[c])
        BY DEF Claims, Unsent
    <1>2. ~\E b \in Announcements : GetAnnouncement(c, b)
        BY <1>0, <1>1 DEF GetAnnouncement, GoTo, AfterGet
    <1>3. ~MarkApproved(c)
        <2>1. ASSUME MarkApproved(c)
              PROVE  /\ pc[c] = "approve" /\ pc'[c] = "enqueue" /\ found'[c] = found[c]
            BY <1>0, <2>1 DEF MarkApproved, GoTo, AfterMarking, readVars
        <2> QED
            BY <1>1, <2>1 DEF Claims, Unsent
    <1>4. ~ScheduleBroadcast(c)
        BY <1>0, <1>1 DEF ScheduleBroadcast, GoTo
    <1>5. ~FinishSend(c)
        <2>1. ASSUME FinishSend(c)
              PROVE  /\ found'[c] = found[c]
                     /\ pc'[c] = "fanout" => pc[c] = "recipients"
                     /\ pc'[c] \in {"fanout", "finalize", "audit", "tellSent"}
            BY <1>0, <2>1 DEF FinishSend, BeginFanout, FinishFanout, Finalize, LogSent, GoTo,
               readVars, AfterBeginning, AfterFinalizing
        <2> QED
            BY <1>1, <2>1 DEF Claims, Unsent
    <1>6. PICK b \in Announcements : Recheck(c, b)
        BY <1>0, <1>1, <1>2, <1>3, <1>4, <1>5, ProcessMoves DEF Moves, Aside
    <1>7. found'[c] = b
        BY <1>0, <1>6 DEF Recheck
    <1> QED
        BY <1>1, <1>6, <1>7

\* What is somebody's or decided stays so, but for a fault.
LEMMA ChosenStays ==
    ASSUME SafetyInv, ApprovalInv, [Next]_vars, NEW a \in Announcements, Chosen(a)
    PROVE  Chosen(a)' \/ faults' = faults + 1
    <1>0. /\ pc \in [Processes -> CommandSteps \cup WorkerSteps]
          /\ rows \in [Announcements -> Row]
          /\ Commands \subseteq Processes /\ Worker \notin Commands
        BY ConstantsAssumption DEF SafetyInv, TypeInv, TypeOK, Processes
    <1>1. CASE rows[a].status \in {"approved", "broadcast"}
        BY <1>1, ApprovalStays DEF Chosen
    <1>2. ASSUME NEW c \in Commands, found[c] = a, pc[c] \in Immediate
          PROVE  Chosen(a)' \/ faults' = faults + 1
        <2>1. CASE pc'[c] = pc[c] /\ found'[c] = found[c]
            BY <1>2, <2>1 DEF Chosen, Undecided, Immediate
        <2>2. CASE MarkApproved(c) \/ Finalize(c)
            <3>1. PICK status \in {"approved", "broadcast"} :
                      \E by : rows' = [rows EXCEPT ![a] = [@ EXCEPT !.status = status,
                                                                   !.approvedBy = by]]
                BY <1>2, <2>2 DEF MarkApproved, Finalize
            <3>2. rows'[a].status = status
                BY <1>0, <3>1 DEF Row
            <3> QED
                BY <3>1, <3>2 DEF Chosen
        <2>3. CASE BeginFanout(c) \/ FinishFanout(c)
            <3>1. pc'[c] \in {"fanout", "finalize"} /\ found'[c] = found[c]
                BY <1>0, <2>3 DEF BeginFanout, FinishFanout, GoTo, AfterBeginning, readVars
            <3> QED
                BY <1>2, <3>1 DEF Chosen, Undecided
        <2>4. /\ ~LogSent(c) /\ ~ScheduleBroadcast(c)
              /\ \A b : ~GetAnnouncement(c, b) /\ ~Recheck(c, b)
            BY <1>2 DEF LogSent, ScheduleBroadcast, GetAnnouncement, Recheck, Immediate
        <2> QED
            BY <1>0, <1>2, <2>1, <2>2, <2>3, <2>4, ProcessMoves DEF Moves, FinishSend
    <1> QED
        BY <1>1, <1>2 DEF Chosen, Undecided, Immediate

\* A job comes to wait when it is added, or is given back after a fault.
LEMMA WaitsBegin ==
    ASSUME SafetyInv, [Next]_vars, NEW a \in Announcements, Waits(a)', ~Waits(a)
    PROVE  \/ \E c \in Commands : ScheduleBroadcast(c) /\ found[c] = a
           \/ WorkerThrows \/ WorkerCrash
    <1>0. /\ Worker \in Processes /\ Worker \notin Commands
          /\ pc \in [Processes -> CommandSteps \cup WorkerSteps]
          /\ found \in [Processes -> Announcements \cup {None}]
          /\ scheduled \in [Announcements -> BoundedJob]
          /\ \A b \in Announcements : HasAttemptsLeft(scheduled[b])
          /\ pc[Worker] # "idle" => /\ found[Worker] \in Announcements
                                    /\ scheduled[found[Worker]].state = "active"
        BY ConstantsAssumption DEF SafetyInv, TypeInv, TypeOK, Processes, BusyOnActiveJobs,
           JobsHaveAttemptsLeft
    <1>1. /\ scheduled[a].state # "waiting"
          /\ ~(found[Worker] = a /\ pc[Worker] \in {"load", "recipients"})
        BY DEF Waits
    <1>2. ~(found'[Worker] = a /\ pc'[Worker] \in {"load", "recipients"})
        <2> SUFFICES ASSUME found'[Worker] = a, pc'[Worker] \in {"load", "recipients"}
                     PROVE  FALSE
            OBVIOUS
        <2>1. ~\E b \in Announcements : TakeScheduled(b)
            BY <1>0, <1>1 DEF TakeScheduled
        <2>2. ~LoadApproved
            BY <1>0, <1>1 DEF LoadApproved
        <2>3. ~FinishSend(Worker)
            BY <1>0, <1>1 DEF FinishSend, BeginFanout, FinishFanout, Finalize, LogSent, GoTo,
               readVars, AfterBeginning, AfterFinalizing
        <2> QED
            BY <1>0, <1>1, <2>1, <2>2, <2>3, ProcessMoves DEF Moves, Aside
    <1>3. scheduled'[a].state = "waiting"
        BY <1>2 DEF Waits
    <1>4. \/ \E c \in Commands : ScheduleBroadcast(c)
          \/ \E b \in Announcements : TakeScheduled(b)
          \/ RefuseToSend \/ CompleteScheduled \/ WorkerThrows \/ WorkerCrash
        BY <1>1, <1>3, ZenonT(60) DEF Next, CommandStep, WorkerStep, FinishSend, vars, Tick,
           SecretarySends, TakeCommand, CompleteCommand, InsertDraft, InsertUntracked,
           LookupFails, GetAnnouncement, Recheck, MarkApproved, BeginFanout, FinishFanout,
           Finalize, LogSent, Reply, LoadApproved, ApproveThrows, CommandThrows,
           ReplyUnanswered, InboundCrash, queueVars
    <1>5. ~\E b \in Announcements : TakeScheduled(b)
        BY <1>0, <1>1, <1>3 DEF TakeScheduled
    <1>6. ~RefuseToSend
        BY <1>0, <1>1, <1>3 DEF RefuseToSend, EndAttempt
    <1>7. ~CompleteScheduled
        <2> SUFFICES ASSUME CompleteScheduled PROVE FALSE
            OBVIOUS
        <2>1. /\ scheduled' = [scheduled EXCEPT ![found[Worker]] =
                                   Completed(scheduled[found[Worker]])]
              /\ found[Worker] \in Announcements
            BY <1>0 DEF CompleteScheduled, EndAttempt
        <2>2. Completed(scheduled[found[Worker]]).state # "waiting"
            BY <1>0, <2>1 DEF Completed, BoundedJob
        <2> QED
            BY <1>0, <1>1, <1>3, <2>1, <2>2
    <1>8. ASSUME NEW c \in Commands, ScheduleBroadcast(c)
          PROVE  found[c] = a
        BY <1>0, <1>1, <1>3, <1>8 DEF ScheduleBroadcast
    <1> QED
        BY <1>4, <1>5, <1>6, <1>7, <1>8

\* Every step keeps the claims to a fan-out balanced.
LEMMA FanoutBalance ==
    ASSUME SafetyInv, ApprovalInv, [Next]_vars, NEW a \in Announcements
    PROVE  Balanced(Claims(a), Claims(a)', Promised(a), Promised(a)', Allowed(a), Allowed(a)')
    <1>0. /\ Commands \subseteq Processes /\ Worker \in Processes /\ Worker \notin Commands
          /\ pc \in [Processes -> CommandSteps \cup WorkerSteps]
          /\ found \in [Processes -> Announcements \cup {None}]
          /\ begun \in [Announcements -> Nat] /\ overlaps \in [Announcements -> Nat]
          /\ scheduled \in [Announcements -> BoundedJob]
          /\ pc[Worker] # "idle" => scheduled[found[Worker]].state = "active"
        BY ConstantsAssumption DEF SafetyInv, TypeInv, TypeOK, Processes, BusyOnActiveJobs
    <1>1. /\ faults \in Nat /\ faults' \in Nat /\ faults <= faults'
          /\ overlaps[a] \in Nat /\ overlaps'[a] \in Nat /\ overlaps[a] <= overlaps'[a]
          /\ begun[a] \in Nat
        BY <1>0, CausesGrow
    <1>2. ASSUME NEW c \in Commands, Recheck(c, a)
          PROVE  \E x : /\ Claims(a)' \subseteq Claims(a) \cup {x}
                        /\ Promised(a)' + Allowed(a) + 1 <= Promised(a) + Allowed(a)'
        <2>1. /\ found' = [found EXCEPT ![c] = a] /\ pc' = [pc EXCEPT ![c] = pc'[c]]
              /\ pc'[c] \in {"approve", "recipients"}
              /\ UNCHANGED <<rows, scheduled, begun, faults>>
              /\ overlaps'[a] = IF Undecided(a) = {} THEN overlaps[a] ELSE overlaps[a] + 1
              /\ Pending(a)
            BY <1>0, <1>2 DEF Recheck, GoTo, AfterRecheck, queueVars, historyVars
        <2>2. Claims(a)' \subseteq Claims(a) \cup {c}
            BY <1>0, <2>1 DEF Claims
        <2>3. Waits(a)' = Waits(a)
            BY <1>0, <2>1 DEF Waits
        <2>4. Chosen(a)' /\ (Chosen(a) <=> Undecided(a) # {})
            BY <1>0, <2>1 DEF Chosen, Undecided, Pending
        <2>5. Promised(a)' = Promised(a) /\ Promised(a) \in Nat
            BY <1>1, <2>1, <2>3 DEF Promised, Flag
        <2>6. Allowed(a)' = Allowed(a) + 1 /\ Allowed(a) \in Nat
            BY <1>1, <2>1, <2>4 DEF Allowed, Flag
        <2> QED
            BY <2>2, <2>5, <2>6
    <1>3. ASSUME NEW c \in Commands, found[c] = a, c \in Claims(a),
                 pc' = [pc EXCEPT ![c] = pc'[c]], pc'[c] \in {"fanout", "tellScheduled"},
                 found' = found, rows' = rows, overlaps' = overlaps, faults' = faults,
                 pc'[c] = "tellScheduled" => pc[c] = "enqueue",
                 Promised(a)' <= Promised(a) + 1, Promised(a)' \in Nat
          PROVE  \E x \in Claims(a) :
                     /\ Claims(a)' \subseteq Claims(a) \ {x}
                     /\ Promised(a)' + Allowed(a) <= Promised(a) + 1 + Allowed(a)'
        <2>1. Claims(a)' \subseteq Claims(a) \ {c}
            BY <1>0, <1>3 DEF Claims
        <2>2. Undecided(a) \subseteq Undecided(a)'
            BY <1>0, <1>3 DEF Undecided, Claims
        <2>3. Chosen(a) => Chosen(a)'
            BY <1>3, <2>2 DEF Chosen
        <2>4. Allowed(a) <= Allowed(a)' /\ Allowed(a) \in Nat /\ Allowed(a)' \in Nat
            BY <1>1, <1>3, <2>3 DEF Allowed, Flag
        <2>5. Promised(a) \in Nat
            BY <1>1 DEF Promised, Flag
        <2> QED
            BY <1>3, <2>1, <2>4, <2>5
    <1>4. ASSUME NEW c \in Commands, found[c] = a, BeginFanout(c) \/ ScheduleBroadcast(c)
          PROVE  \E x \in Claims(a) :
                     /\ Claims(a)' \subseteq Claims(a) \ {x}
                     /\ Promised(a)' + Allowed(a) <= Promised(a) + 1 + Allowed(a)'
        <2>1. /\ c \in Claims(a)
              /\ pc' = [pc EXCEPT ![c] = pc'[c]] /\ pc'[c] \in {"fanout", "tellScheduled"}
              /\ found' = found /\ rows' = rows /\ overlaps' = overlaps /\ faults' = faults
              /\ pc'[c] = "tellScheduled" => pc[c] = "enqueue"
            BY <1>0, <1>4 DEF BeginFanout, ScheduleBroadcast, GoTo, AfterBeginning, readVars,
               Claims
        <2>2. \/ begun'[a] = begun[a]
              \/ begun'[a] = begun[a] + 1 /\ Waits(a)' = Waits(a)
            <3>1. CASE BeginFanout(c)
                <4>1. begun' = [begun EXCEPT ![a] = @ + 1] /\ scheduled' = scheduled
                    BY <1>4, <3>1 DEF BeginFanout, queueVars
                <4> QED
                    BY <1>0, <2>1, <4>1 DEF Waits
            <3>2. CASE ScheduleBroadcast(c)
                BY <3>2 DEF ScheduleBroadcast, historyVars
            <3> QED
                BY <1>4, <3>1, <3>2
        <2>3. Promised(a)' <= Promised(a) + 1 /\ Promised(a)' \in Nat
            BY <1>1, <2>2 DEF Promised, Flag
        <2> QED
            BY <1>3, <1>4, <2>1, <2>3
    <1>5. ASSUME Claims(a)' \subseteq Claims(a), Promised(a)' <= Promised(a),
                 Promised(a)' \in Nat, Chosen(a) => Chosen(a)' \/ faults' = faults + 1
          PROVE  /\ Claims(a)' \subseteq Claims(a)
                 /\ Promised(a)' + Allowed(a) <= Promised(a) + Allowed(a)'
        <2>1. Allowed(a) <= Allowed(a)' /\ Allowed(a) \in Nat /\ Allowed(a)' \in Nat
            BY <1>1, <1>5 DEF Allowed, Flag
        <2>2. Promised(a) \in Nat
            BY <1>1 DEF Promised, Flag
        <2> QED
            BY <1>5, <2>1, <2>2
    <1>6. CASE BeginFanout(Worker) /\ found[Worker] = a
        <2>1. /\ begun' = [begun EXCEPT ![a] = @ + 1] /\ scheduled' = scheduled
              /\ pc[Worker] = "recipients" /\ pc' = [pc EXCEPT ![Worker] = "fanout"]
              /\ found' = found
            BY <1>6 DEF BeginFanout, GoTo, AfterBeginning, readVars, queueVars
        <2>2. scheduled[a].state = "active"
            BY <1>0, <1>6, <2>1
        <2>3. Waits(a) /\ ~Waits(a)'
            BY <1>0, <1>6, <2>1, <2>2 DEF Waits
        <2>4. Promised(a)' = Promised(a) /\ Promised(a)' \in Nat
            BY <1>0, <1>1, <2>1, <2>3 DEF Promised, Flag
        <2>5. Claims(a)' \subseteq Claims(a)
            BY <1>0, <2>1 DEF Claims
        <2> QED
            BY <1>5, <2>4, <2>5, ChosenStays DEF Balanced
    <1>7. CASE WorkerThrows \/ WorkerCrash
        <2>1. /\ pc' = [pc EXCEPT ![Worker] = "idle"] /\ found' = found /\ rows' = rows
              /\ begun' = begun /\ faults' = faults + 1
            BY <1>7 DEF WorkerThrows, WorkerCrash, EndAttempt, Fault, GoTo, readVars, historyVars
        <2>2. Claims(a)' = Claims(a) /\ Undecided(a)' = Undecided(a)
            BY <1>0, <2>1 DEF Claims, Undecided
        <2>3. Chosen(a) => Chosen(a)'
            BY <2>1, <2>2 DEF Chosen
        <2>4. Promised(a)' <= Promised(a) + 1 /\ Promised(a) \in Nat /\ Promised(a)' \in Nat
            BY <1>1, <2>1 DEF Promised, Flag
        <2>5. Allowed(a) + 1 <= Allowed(a)' /\ Allowed(a) \in Nat /\ Allowed(a)' \in Nat
            BY <1>1, <2>1, <2>3 DEF Allowed, Flag
        <2> QED
            BY <2>2, <2>4, <2>5 DEF Balanced
    <1>8. ASSUME ~\E c \in Commands : Recheck(c, a),
                 ~\E c \in Commands : ScheduleBroadcast(c) /\ found[c] = a,
                 ~\E p \in Processes : BeginFanout(p) /\ found[p] = a,
                 ~WorkerThrows, ~WorkerCrash
          PROVE  /\ Claims(a)' \subseteq Claims(a)
                 /\ Promised(a)' + Allowed(a) <= Promised(a) + Allowed(a)'
        <2>1. Claims(a)' \subseteq Claims(a)
            BY <1>8, ClaimsComeByRecheck DEF Claims
        <2>2. begun'[a] = begun[a]
            <3>1. ASSUME NEW p \in Processes, FinishSend(p), ~BeginFanout(p)
                  PROVE  begun' = begun
                BY <3>1 DEF FinishSend, FinishFanout, Finalize, LogSent, historyVars
            <3> QED
                BY <1>8, <3>1, CountsMove DEF Counts
        <2>3. Waits(a)' => Waits(a)
            BY <1>8, WaitsBegin
        <2>4. Promised(a)' <= Promised(a) /\ Promised(a)' \in Nat
            BY <1>1, <2>2, <2>3 DEF Promised, Flag
        <2> QED
            BY <1>5, <2>1, <2>4, ChosenStays
    <1>9. CASE \E c \in Commands : Recheck(c, a)
        BY <1>2, <1>9 DEF Balanced
    <1>10. CASE \E c \in Commands : found[c] = a /\ (BeginFanout(c) \/ ScheduleBroadcast(c))
        BY <1>4, <1>10 DEF Balanced
    <1>11. CASE /\ ~\E c \in Commands : Recheck(c, a)
                /\ ~\E c \in Commands : ScheduleBroadcast(c) /\ found[c] = a
                /\ ~\E p \in Processes : BeginFanout(p) /\ found[p] = a
                /\ ~WorkerThrows /\ ~WorkerCrash
        BY <1>8, <1>11 DEF Balanced
    <1> QED
        BY <1>6, <1>7, <1>9, <1>10, <1>11 DEF Processes

-----------------------------------------------------------------------------
(* Fan-outs without an audit row.                                          *)

\* A handler that is sending stays so until it logs, but for a fault.
LEMMA SendingStays ==
    ASSUME SafetyInv, [Next]_vars, NEW a \in Announcements, Sending(a) # {}
    PROVE  \/ Sending(a)' # {} \/ faults' = faults + 1
           \/ \E c \in Commands : LogSent(c) /\ found[c] = a
    <1>0. /\ pc \in [Processes -> CommandSteps \cup WorkerSteps]
          /\ Commands \subseteq Processes /\ Worker \notin Commands
        BY ConstantsAssumption DEF SafetyInv, TypeInv, TypeOK, Processes
    <1>1. PICK c \in Commands :
              found[c] = a /\ pc[c] \in {"recipients", "fanout", "finalize", "audit"}
        BY DEF Sending
    <1>2. CASE pc'[c] = pc[c] /\ found'[c] = found[c]
        BY <1>1, <1>2 DEF Sending
    <1>3. CASE BeginFanout(c) \/ FinishFanout(c) \/ Finalize(c)
        <2>1. pc'[c] \in {"fanout", "finalize", "audit"} /\ found'[c] = found[c]
            BY <1>0, <1>3 DEF BeginFanout, FinishFanout, Finalize, GoTo, AfterBeginning,
               AfterFinalizing, readVars
        <2> QED
            BY <1>1, <2>1 DEF Sending
    <1>4. CASE LogSent(c)
        BY <1>1, <1>4
    <1>5. /\ ~MarkApproved(c) /\ ~ScheduleBroadcast(c)
          /\ \A b : ~GetAnnouncement(c, b) /\ ~Recheck(c, b)
        BY <1>1 DEF MarkApproved, ScheduleBroadcast, GetAnnouncement, Recheck
    <1> QED
        BY <1>0, <1>1, <1>2, <1>3, <1>4, <1>5, ProcessMoves DEF Moves, FinishSend, Immediate

\* So does the worker, which faults of its own alone disturb.
LEMMA WorkerLogsOn ==
    ASSUME SafetyInv, [Next]_vars, NEW a \in Announcements, WorkerLogs(a)
    PROVE  WorkerLogs(a)' \/ LogSent(Worker) \/ WorkerThrows \/ WorkerCrash
    <1>0. /\ pc \in [Processes -> CommandSteps \cup WorkerSteps]
          /\ Worker \in Processes
        BY DEF SafetyInv, TypeInv, TypeOK, Processes
    <1>1. found[Worker] = a /\ pc[Worker] \in {"finalize", "audit"}
        BY DEF WorkerLogs
    <1>2. CASE pc'[Worker] = pc[Worker] /\ found'[Worker] = found[Worker]
        BY <1>1, <1>2 DEF WorkerLogs
    <1>3. CASE Finalize(Worker)
        <2>1. pc'[Worker] = "audit" /\ found'[Worker] = found[Worker]
            BY <1>0, <1>3 DEF Finalize, GoTo, AfterFinalizing, readVars
        <2> QED
            BY <1>1, <2>1 DEF WorkerLogs
    <1>4. /\ ~LoadApproved /\ ~RefuseToSend /\ ~CompleteScheduled
          /\ ~BeginFanout(Worker) /\ ~FinishFanout(Worker)
          /\ ~\E b \in Announcements : TakeScheduled(b)
        BY <1>1 DEF LoadApproved, RefuseToSend, CompleteScheduled, BeginFanout, FinishFanout,
           TakeScheduled
    <1> QED
        BY <1>2, <1>3, <1>4, WorkerMoves DEF WorkerStep, FinishSend

\* Every step keeps the fan-outs without an audit row balanced.
LEMMA AuditBalance ==
    ASSUME SafetyInv, LoggedAreDecided, [Next]_vars, NEW a \in Announcements
    PROVE  Balanced(Unsent(a), Unsent(a)', sent[a], sent[a]', Excused(a), Excused(a)')
    <1>0. /\ Commands \subseteq Processes /\ Worker \in Processes /\ Worker \notin Commands
          /\ pc \in [Processes -> CommandSteps \cup WorkerSteps]
          /\ found \in [Processes -> Announcements \cup {None}]
          /\ sent \in [Announcements -> Nat] /\ audits \in [Announcements -> Nat]
          /\ overlaps \in [Announcements -> Nat]
        BY ConstantsAssumption DEF SafetyInv, TypeInv, TypeOK, Processes
    <1>1. /\ faults \in Nat /\ faults' \in Nat /\ faults <= faults'
          /\ overlaps[a] \in Nat /\ overlaps'[a] \in Nat /\ overlaps[a] <= overlaps'[a]
          /\ sent[a] \in Nat /\ audits[a] \in Nat
        BY <1>0, CausesGrow
    <1>2. ASSUME NEW c \in Commands, Recheck(c, a)
          PROVE  Balanced(Unsent(a), Unsent(a)', sent[a], sent[a]', Excused(a), Excused(a)')
        <2>1. /\ found' = [found EXCEPT ![c] = a] /\ pc' = [pc EXCEPT ![c] = pc'[c]]
              /\ pc'[c] \in {"approve", "recipients"} /\ pc[c] \in {"mark", "recheck"}
            BY <1>0, <1>2 DEF Recheck, GoTo, AfterRecheck
        <2>2. /\ sent' = sent /\ audits' = audits /\ faults' = faults
              /\ overlaps'[a] = IF Undecided(a) = {} THEN overlaps[a] ELSE overlaps[a] + 1
              /\ Pending(a)
            BY <1>0, <1>2 DEF Recheck, historyVars
        <2>3. WorkerLogs(a)' = WorkerLogs(a)
            BY <1>0, <2>1 DEF WorkerLogs
        <2>4. CASE pc'[c] = "approve"
            <3>1. Unsent(a)' \subseteq Unsent(a)
                BY <1>0, <2>1, <2>4 DEF Unsent
            <3>2. Sending(a) \subseteq Sending(a)'
                BY <1>0, <2>1 DEF Sending
            <3>3. Excused(a) <= Excused(a)' /\ Excused(a) \in Nat /\ Excused(a)' \in Nat
                BY <1>1, <2>2, <2>3, <3>2 DEF Excused, Flag
            <3> QED
                BY <1>1, <2>2, <3>1, <3>3 DEF Balanced
        <2>5. CASE pc'[c] = "recipients"
            <3>1. Unsent(a)' \subseteq Unsent(a) \cup {c}
                BY <1>0, <2>1, <2>5 DEF Unsent
            <3>2. Sending(a)' # {}
                BY <1>0, <2>1, <2>5 DEF Sending
            <3>3. Undecided(a) = {} => Sending(a) = {}
                BY <2>2 DEF Undecided, Sending, LoggedAreDecided, Pending
            <3>4. Excused(a) + 1 <= Excused(a)' /\ Excused(a) \in Nat /\ Excused(a)' \in Nat
                BY <1>1, <2>2, <2>3, <3>2, <3>3 DEF Excused, Flag
            <3> QED
                BY <1>1, <2>2, <3>1, <3>4 DEF Balanced
        <2> QED
            BY <2>1, <2>4, <2>5
    <1>3. ASSUME NEW p \in Processes, FinishFanout(p), found[p] = a
          PROVE  Balanced(Unsent(a), Unsent(a)', sent[a], sent[a]', Excused(a), Excused(a)')
        <2>1. /\ pc[p] = "fanout" /\ pc' = [pc EXCEPT ![p] = "finalize"] /\ found' = found
              /\ sent'[a] = sent[a] + 1 /\ audits' = audits
              /\ faults' = faults /\ overlaps' = overlaps
            BY <1>0, <1>3 DEF FinishFanout, GoTo, readVars
        <2>2. CASE p \in Commands
            <3>1. p \in Unsent(a) /\ Unsent(a)' \subseteq Unsent(a) \ {p}
                BY <1>0, <1>3, <2>1, <2>2 DEF Unsent
            <3>2. Sending(a)' # {} /\ WorkerLogs(a)' = WorkerLogs(a)
                <4>1. p \in Sending(a)'
                    BY <1>0, <1>3, <2>1, <2>2 DEF Sending
                <4>2. WorkerLogs(a)' = WorkerLogs(a)
                    BY <1>0, <2>1, <2>2 DEF WorkerLogs
                <4> QED
                    BY <4>1, <4>2
            <3>3. Excused(a) <= Excused(a)' /\ Excused(a) \in Nat /\ Excused(a)' \in Nat
                BY <1>1, <2>1, <3>2 DEF Excused, Flag
            <3> QED
                BY <1>1, <2>1, <3>1, <3>3 DEF Balanced
        <2>3. CASE p = Worker
            <3>1. Unsent(a)' = Unsent(a) /\ Sending(a)' = Sending(a)
                BY <1>0, <2>1, <2>3 DEF Unsent, Sending
            <3>2. ~WorkerLogs(a) /\ WorkerLogs(a)'
                BY <1>0, <1>3, <2>1, <2>3 DEF WorkerLogs
            <3>3. Excused(a)' = Excused(a) + 1 /\ Excused(a) \in Nat
                BY <1>1, <2>1, <3>1, <3>2 DEF Excused, Flag
            <3> QED
                BY <1>1, <2>1, <3>1, <3>3 DEF Balanced
        <2> QED
            BY <2>2, <2>3 DEF Processes
    <1>4. ASSUME NEW p \in Processes, LogSent(p), found[p] = a
          PROVE  Balanced(Unsent(a), Unsent(a)', sent[a], sent[a]', Excused(a), Excused(a)')
        <2>1. /\ pc[p] = "audit" /\ pc' = [pc EXCEPT ![p] = pc'[p]]
              /\ pc'[p] \in {"done", "tellSent"} /\ found' = found
              /\ sent' = sent /\ audits'[a] = audits[a] + 1
              /\ faults' = faults /\ overlaps' = overlaps
            BY <1>0, <1>4 DEF LogSent, GoTo, readVars
        <2>2. Unsent(a)' = Unsent(a)
            BY <1>0, <2>1 DEF Unsent
        <2>3. WorkerLogs(a)' = WorkerLogs(a) \/ Sending(a)' = Sending(a)
            BY <1>0, <2>1 DEF WorkerLogs, Sending, Processes
        <2>4. Excused(a) <= Excused(a)' /\ Excused(a) \in Nat /\ Excused(a)' \in Nat
            BY <1>1, <2>1, <2>3 DEF Excused, Flag
        <2> QED
            BY <1>1, <2>1, <2>2, <2>4 DEF Balanced
    <1>5. CASE WorkerThrows \/ WorkerCrash
        <2>1. /\ pc' = [pc EXCEPT ![Worker] = "idle"] /\ found' = found
              /\ sent' = sent /\ audits' = audits /\ faults' = faults + 1
            BY <1>5 DEF WorkerThrows, WorkerCrash, EndAttempt, Fault, GoTo, readVars, historyVars
        <2>2. Unsent(a)' = Unsent(a) /\ Sending(a)' = Sending(a)
            BY <1>0, <2>1 DEF Unsent, Sending
        <2>3. Excused(a) <= Excused(a)' /\ Excused(a) \in Nat /\ Excused(a)' \in Nat
            BY <1>1, <2>1, <2>2 DEF Excused, Flag
        <2> QED
            BY <1>1, <2>1, <2>2, <2>3 DEF Balanced
    <1>6. ASSUME ~\E c \in Commands : Recheck(c, a),
                 ~\E p \in Processes : found[p] = a /\ (FinishFanout(p) \/ LogSent(p)),
                 ~WorkerThrows, ~WorkerCrash
          PROVE  Balanced(Unsent(a), Unsent(a)', sent[a], sent[a]', Excused(a), Excused(a)')
        <2>1. Unsent(a)' \subseteq Unsent(a)
            BY <1>6, ClaimsComeByRecheck DEF Unsent
        <2>2. sent'[a] = sent[a] /\ audits'[a] = audits[a]
            <3>1. ASSUME NEW p \in Processes, FinishSend(p), ~FinishFanout(p), ~LogSent(p)
                  PROVE  sent' = sent /\ audits' = audits
                BY <3>1 DEF FinishSend, BeginFanout, Finalize, historyVars
            <3> QED
                BY <1>6, <3>1, CountsMove DEF Counts
        <2>3. WorkerLogs(a) => WorkerLogs(a)'
            BY <1>0, <1>6, WorkerLogsOn DEF WorkerLogs
        <2>4. Sending(a) # {} => Sending(a)' # {} \/ faults' = faults + 1
            BY <1>0, <1>6, SendingStays
        <2>5. Excused(a) <= Excused(a)' /\ Excused(a) \in Nat /\ Excused(a)' \in Nat
            BY <1>1, <2>2, <2>3, <2>4 DEF Excused, Flag
        <2> QED
            BY <1>1, <2>1, <2>2, <2>5 DEF Balanced
    <1> QED
        BY <1>2, <1>3, <1>4, <1>5, <1>6

\* A row stays decided while it is being logged.
LEMMA LoggedStayDecided ==
    ASSUME SafetyInv, ApprovalInv, LoggedAreDecided, [Next]_vars
    PROVE  LoggedAreDecided'
    <1>0. /\ Commands \subseteq Processes /\ Worker \notin Commands
          /\ pc \in [Processes -> CommandSteps \cup WorkerSteps]
          /\ rows \in [Announcements -> Row]
          /\ \A c \in Commands : pc[c] \in ApproveTry \ {"get"} => found[c] \in Announcements
        BY ConstantsAssumption DEF SafetyInv, TypeInv, TypeOK, Processes, HandlersHoldNamedRows
    <1> SUFFICES ASSUME NEW c \in Commands, pc'[c] = "audit"
                 PROVE  rows'[found'[c]].status \in {"approved", "broadcast"}
        BY DEF LoggedAreDecided
    <1>1. CASE pc'[c] = pc[c] /\ found'[c] = found[c]
        BY <1>0, <1>1, ApprovalStays DEF LoggedAreDecided, ApproveTry
    <1>2. CASE Finalize(c)
        <2>1. found[c] \in Announcements /\ found' = found
            BY <1>0, <1>2 DEF Finalize, ApproveTry, readVars
        <2> QED
            BY <1>0, <1>2, <2>1 DEF Finalize, Row
    <1>3. /\ ~BeginFanout(c) /\ ~FinishFanout(c) /\ ~LogSent(c)
          /\ ~MarkApproved(c) /\ ~ScheduleBroadcast(c)
          /\ \A b : ~GetAnnouncement(c, b) /\ ~Recheck(c, b)
        BY <1>0 DEF BeginFanout, FinishFanout, LogSent, MarkApproved, ScheduleBroadcast,
           GetAnnouncement, Recheck, GoTo, AfterBeginning, AfterMarking, AfterGet, AfterRecheck
    <1> QED
        BY <1>0, <1>1, <1>2, <1>3, ProcessMoves DEF Moves, FinishSend, Aside

-----------------------------------------------------------------------------

\* At first nothing is promised, and nothing is sent.
LEMMA CostInit ==
    ASSUME Init
    PROVE  CostInv
    <1>1. /\ faults = 0 /\ \A p \in Processes : pc[p] = "idle"
          /\ \A c \in Commands : command[c].kind = "none"
          /\ \A a \in Announcements :
                 /\ begun[a] = 0 /\ sent[a] = 0 /\ audits[a] = 0 /\ overlaps[a] = 0
                 /\ rows[a].status = "none" /\ scheduled[a].state = "absent"
        BY NewJobs DEF Init, NoCommand
    <1>2. ApprovalInv /\ LoggedAreDecided
        BY <1>1 DEF ApprovalInv, LoggedAreDecided, Processes
    <1>3. ASSUME NEW a \in Announcements
          PROVE  FanoutInv(a) /\ MissingInv(a)
        <2>1. /\ Claims(a) = {} /\ Unsent(a) = {} /\ Undecided(a) = {} /\ Sending(a) = {}
              /\ ~Waits(a) /\ ~WorkerLogs(a) /\ ~Chosen(a)
            BY <1>1 DEF Claims, Unsent, Undecided, Sending, Waits, WorkerLogs, Chosen, Processes
        <2> QED
            BY <1>1, <2>1, FS_EmptySet
            DEF FanoutInv, MissingInv, Promised, Allowed, Excused, Flag
    <1> QED
        BY <1>2, <1>3, SafetyInit DEF CostInv

\* Every step keeps what it costs paid for.
LEMMA CostStep ==
    ASSUME CostInv, [Next]_vars
    PROVE  CostInv'
    <1>0. SafetyInv /\ ApprovalInv /\ LoggedAreDecided /\ TypeInv /\ TypeInv'
        BY TypeStep DEF CostInv, SafetyInv
    <1>1. ASSUME NEW a \in Announcements
          PROVE  FanoutInv(a)'
        <2>1. /\ Promised(a) \in Nat /\ Promised(a)' \in Nat
              /\ Allowed(a) \in Nat /\ Allowed(a)' \in Nat
            BY <1>0, ConstantsAssumption DEF Promised, Allowed, Flag, TypeInv, TypeOK
        <2>2. FanoutInv(a)
            BY DEF CostInv
        <2>3. /\ IsFiniteSet(Claims(a)')
              /\ Promised(a)' + Cardinality(Claims(a)') <= Allowed(a)'
            BY <1>0, <2>1, <2>2, FanoutBalance, BalanceKept DEF FanoutInv
        <2> QED
            BY <2>3 DEF FanoutInv
    <1>2. ASSUME NEW a \in Announcements
          PROVE  MissingInv(a)'
        <2>1. /\ sent[a] \in Nat /\ sent[a]' \in Nat
              /\ Excused(a) \in Nat /\ Excused(a)' \in Nat
            BY <1>0, ConstantsAssumption DEF Excused, Flag, TypeInv, TypeOK
        <2>2. MissingInv(a)
            BY DEF CostInv
        <2>3. /\ IsFiniteSet(Unsent(a)')
              /\ sent[a]' + Cardinality(Unsent(a)') <= Excused(a)'
            BY <1>0, <2>1, <2>2, AuditBalance, BalanceKept DEF MissingInv
        <2> QED
            BY <2>3 DEF MissingInv
    <1> QED
        BY <1>0, <1>1, <1>2, SafetyStep, ApprovalStep, LoggedStayDecided DEF CostInv

\* Residents hear of an announcement once, and once more at most for each error
\* or crash, and for each handler that found the row pending (approveAndSend,
\* markApprovedForSchedule) while another that had found it so was yet to write
\* it, however many are handled at a time.
THEOREM FanoutsArePaidFor == Spec => []FanoutsHaveCauses
    <1>1. CostInv => FanoutsHaveCauses
        <2> SUFFICES ASSUME CostInv, NEW a \in Announcements
                     PROVE  begun[a] <= 1 + faults + overlaps[a]
            BY DEF FanoutsHaveCauses
        <2>1. /\ begun[a] \in Nat /\ faults \in Nat /\ overlaps[a] \in Nat
              /\ FanoutInv(a)
            BY ConstantsAssumption DEF CostInv, SafetyInv, TypeInv, TypeOK
        <2>2. Cardinality(Claims(a)) \in Nat
            BY <2>1, FS_CardinalityType DEF FanoutInv
        <2> QED
            BY <2>1, <2>2 DEF FanoutInv, Promised, Allowed, Flag
    <1> QED
        BY <1>1, CostInit, CostStep, PTL DEF Spec

\* An audit row (logSent) is missing only while it is being written, for an error
\* or a crash, or for a handler that overlapped another, however many are handled
\* at a time.
THEOREM MissingAuditsArePaidFor == Spec => []MissingAuditsHaveCauses
    <1>1. CostInv /\ AccountsHold => MissingAuditsHaveCauses
        <2> SUFFICES ASSUME CostInv, AccountsHold, NEW a \in Announcements
                     PROVE  sent[a] <= audits[a] + Cardinality(Unlogged(a)) + faults
                                           + overlaps[a]
            BY DEF MissingAuditsHaveCauses
        <2>1. /\ sent[a] \in Nat /\ audits[a] \in Nat /\ faults \in Nat /\ overlaps[a] \in Nat
              /\ MissingInv(a) /\ IsFiniteSet(Unlogged(a))
            BY ConstantsAssumption
            DEF CostInv, SafetyInv, TypeInv, TypeOK, AccountsHold, AccountInv
        <2>2. Cardinality(Unsent(a)) \in Nat /\ Cardinality(Unlogged(a)) \in Nat
            BY <2>1, FS_CardinalityType DEF MissingInv
        <2>3. WorkerLogs(a) => Worker \in Unlogged(a)
            BY DEF WorkerLogs, Unlogged, Processes
        <2>4. CASE Sending(a) = {}
            <3>1. Flag(WorkerLogs(a)) <= Cardinality(Unlogged(a))
                BY <2>1, <2>2, <2>3, FS_EmptySet DEF Flag
            <3> QED
                BY <2>1, <2>2, <2>4, <3>1 DEF MissingInv, Excused, Flag
        <2>5. CASE Unsent(a) # {}
            <3>1. Cardinality(Unsent(a)) >= 1
                BY <2>1, <2>2, <2>5, FS_EmptySet DEF MissingInv
            <3>2. Flag(WorkerLogs(a)) <= Cardinality(Unlogged(a))
                BY <2>1, <2>2, <2>3, FS_EmptySet DEF Flag
            <3> QED
                BY <2>1, <2>2, <3>1, <3>2 DEF MissingInv, Excused, Flag
        <2>6. CASE Sending(a) # {} /\ Unsent(a) = {}
            <3>1. PICK c \in Commands : c \in Unlogged(a)
                BY <2>6 DEF Sending, Unsent, Unlogged, Processes
            <3>2. Flag(WorkerLogs(a)) + 1 <= Cardinality(Unlogged(a))
                <4>1. CASE ~WorkerLogs(a)
                    BY <2>1, <2>2, <3>1, <4>1, FS_EmptySet DEF Flag
                <4>2. CASE WorkerLogs(a)
                    <5>1. /\ Worker \in Unlogged(a) \ {c}
                          /\ IsFiniteSet(Unlogged(a) \ {c})
                          /\ Cardinality(Unlogged(a) \ {c}) = Cardinality(Unlogged(a)) - 1
                          /\ Cardinality(Unlogged(a) \ {c}) \in Nat
                        BY <2>1, <2>3, <3>1, <4>2, OneInOneOut, FS_CardinalityType,
                           ConstantsAssumption
                    <5>2. Cardinality(Unlogged(a) \ {c}) # 0
                        BY <5>1, FS_EmptySet
                    <5> QED
                        BY <2>2, <4>2, <5>1, <5>2 DEF Flag
                <4> QED
                    BY <4>1, <4>2
            <3> QED
                BY <2>1, <2>2, <2>6, <3>2, FS_EmptySet DEF MissingInv, Excused, Flag
        <2> QED
            BY <2>4, <2>5, <2>6
    <1> QED
        BY <1>1, CostInit, CostStep, AccountsInit, SafetyInit, SafetyStep, AccountsStep, PTL
        DEF Spec

-----------------------------------------------------------------------------
(* What the secretary is told, when no ref abbreviates two ids.            *)

\* A handler that has an answer to give, or gave one, holds the row it is about.
ReplyInv(c) ==
    /\ \A a, b \in command[c].prefix : a = b
    /\ pc[c] = "draft" => command[c].kind = "draft"
    /\ replied[c] \in {"sent", "scheduled"} =>
           command[c].kind = "approve" /\ found[c] \in command[c].prefix
    /\ replied[c] = "sent" \/ pc[c] = "tellSent" => audits[found[c]] > 0
    /\ replied[c] = "scheduled" \/ pc[c] = "tellScheduled" =>
           scheduled[found[c]].state # "absent"

\* A command that found the one row its ref matches never finds another.
LEMMA FoundStays ==
    ASSUME SafetyInv, [Next]_vars, NEW c \in Commands, ReplyInv(c),
           command[c].kind = "approve", found[c] \in command[c].prefix
    PROVE  command'[c] = command[c] /\ found'[c] = found[c]
    <1>0. /\ c \in Processes /\ c # Worker
          /\ found \in [Processes -> Announcements \cup {None}]
        BY ConstantsAssumption DEF SafetyInv, TypeInv, TypeOK, Processes
    <1>1. command'[c] = command[c]
        BY RecordsStay
    <1>2. ASSUME NEW a \in Announcements, GetAnnouncement(c, a) \/ Recheck(c, a)
          PROVE  found'[c] = found[c]
        <2>1. a \in command[c].prefix /\ found'[c] = a
            BY <1>0, <1>2 DEF GetAnnouncement, Recheck, Matches
        <2> QED
            BY <2>1 DEF ReplyInv
    <1>3. ~(\E a \in Announcements : InsertDraft(c, a))
        BY DEF InsertDraft, ReplyInv
    <1>4. CASE MarkApproved(c) \/ ScheduleBroadcast(c) \/ FinishSend(c)
        BY <1>1, <1>4 DEF MarkApproved, ScheduleBroadcast, FinishSend, BeginFanout, FinishFanout,
           Finalize, LogSent, readVars
    <1> QED
        BY <1>0, <1>1, <1>2, <1>3, <1>4, ProcessMoves DEF Moves

\* A command is answered what the step it is at has to say.
LEMMA RepliesMove ==
    ASSUME SafetyInv, [Next]_vars, NEW c \in Commands, replied'[c] # replied[c]
    PROVE  \E reply \in Replies : pc[c] = reply[1] /\ replied'[c] = reply[2]
    <1>1. PICK d \in Commands, reply \in Replies :
              Reply(d, reply[1], reply[2]) \/ ReplyUnanswered(d, reply[1], reply[2])
        BY ZenonT(60) DEF Next, CommandStep, WorkerStep, FinishSend, vars, Tick, SecretarySends,
           TakeCommand, CompleteCommand, InsertDraft, InsertUntracked, LookupFails,
           GetAnnouncement, Recheck, MarkApproved, ScheduleBroadcast, BeginFanout, FinishFanout,
           Finalize, LogSent, TakeScheduled, LoadApproved, RefuseToSend, CompleteScheduled,
           EndAttempt, ApproveThrows, CommandThrows, WorkerThrows, InboundCrash, WorkerCrash,
           handlerVars
    <1>2. pc[d] = reply[1] /\ replied' = [replied EXCEPT ![d] = reply[2]]
        BY <1>1 DEF Reply, ReplyUnanswered
    <1>3. replied \in [Commands -> Outcomes]
        BY DEF SafetyInv, TypeInv, TypeOK
    <1> QED
        BY <1>2, <1>3

\* Audit rows are only added.
LEMMA AuditsGrow ==
    ASSUME SafetyInv, [Next]_vars, NEW a \in Announcements, audits[a] > 0
    PROVE  audits'[a] > 0
    <1>1. audits[a] \in Nat
        BY DEF SafetyInv, TypeInv, TypeOK
    <1>2. CASE Rests(a)
        BY <1>1, <1>2 DEF Rests, Counts
    <1>3. CASE Starts(a)
        BY <1>1, <1>3 DEF Starts, Counts
    <1>4. CASE Finishes(a)
        BY <1>1, <1>4 DEF Finishes, Counts
    <1>5. CASE Logs(a)
        BY <1>1, <1>5 DEF Logs, Counts
    <1>6. CASE Loses(a)
        BY <1>1, <1>6 DEF Loses, Counts
    <1> QED
        BY <1>2, <1>3, <1>4, <1>5, <1>6, Tally

\* What a handler is about to tell, or told, is on record.
LEMMA ReplyStep ==
    ASSUME UniquePrefixes, SafetyInv, [Next]_vars, NEW c \in Commands, ReplyInv(c)
    PROVE  ReplyInv(c)'
    <1>0. /\ c \in Processes /\ c # Worker
          /\ pc \in [Processes -> CommandSteps \cup WorkerSteps]
          /\ audits \in [Announcements -> Nat]
          /\ scheduled \in [Announcements -> BoundedJob]
        BY ConstantsAssumption DEF SafetyInv, TypeInv, TypeOK, Processes
    <1>1. \A a, b \in command'[c].prefix : a = b
        <2>1. CASE command'[c] = command[c]
            BY <2>1 DEF ReplyInv
        <2>2. CASE command'[c] \in Drafts \cup Approvals
            BY <2>2 DEF Drafts, Approvals, UniquePrefixes
        <2> QED
            BY <2>1, <2>2, RecordsStay
    <1>2. ASSUME pc'[c] = "draft" PROVE command'[c].kind = "draft"
        <2>1. CASE pc[c] = "draft"
            <3>1. command[c].kind = "draft"
                BY <2>1 DEF ReplyInv
            <3> QED
                BY <3>1, RecordsStay
        <2>2. CASE TakeCommand(c)
            <3>1. pc'[c] = IF command[c].kind = "draft" THEN "draft" ELSE "get"
                BY <1>0, <2>2 DEF TakeCommand, GoTo
            <3> QED
                BY <1>2, <2>2, <3>1 DEF TakeCommand
        <2>3. CASE pc[c] # "draft" /\ ~TakeCommand(c)
            <3>1. \/ \E a \in Announcements : GetAnnouncement(c, a) \/ Recheck(c, a)
                  \/ MarkApproved(c) \/ ScheduleBroadcast(c) \/ FinishSend(c)
                BY <1>0, <1>2, <2>3, ProcessMoves DEF Moves
            <3>2. pc'[c] # "draft"
                BY <1>0, <3>1 DEF GetAnnouncement, Recheck, MarkApproved, ScheduleBroadcast,
                   FinishSend, BeginFanout, FinishFanout, Finalize, LogSent, GoTo, AfterGet,
                   AfterRecheck, AfterMarking, AfterBeginning, AfterFinalizing
            <3> QED
                BY <1>2, <3>2
        <2> QED
            BY <2>1, <2>2, <2>3
    <1>3. ASSUME pc[c] \in {"tellSent", "tellScheduled"} \/ replied[c] \in {"sent", "scheduled"}
          PROVE  /\ command[c].kind = "approve" /\ found[c] \in command[c].prefix
                 /\ command'[c] = command[c] /\ found'[c] = found[c]
                 /\ found[c] \in Announcements
        <2>1. command[c].kind = "approve" /\ found[c] \in command[c].prefix
            BY <1>3 DEF ReplyInv, SafetyInv, CommandsAreGiven, HandlersHoldNamedRows, ApproveTry
        <2>2. command[c] \in Command
            BY DEF SafetyInv, TypeInv, TypeOK
        <2> QED
            BY <2>1, <2>2, FoundStays DEF Command
    <1>4. \/ replied'[c] = replied[c]
          \/ replied'[c] = "sent" /\ pc[c] = "tellSent"
          \/ replied'[c] = "scheduled" /\ pc[c] = "tellScheduled"
          \/ replied'[c] \in {"preview", "error"}
        BY RepliesMove DEF Replies
    <1>5. ASSUME pc'[c] \in {"tellSent", "tellScheduled"}, pc'[c] # pc[c]
          PROVE  \/ pc'[c] = "tellSent" /\ LogSent(c)
                 \/ pc'[c] = "tellScheduled" /\ ScheduleBroadcast(c)
        <2>1. \/ \E a \in Announcements : GetAnnouncement(c, a) \/ Recheck(c, a)
              \/ MarkApproved(c) \/ ScheduleBroadcast(c) \/ FinishSend(c)
            BY <1>0, <1>5, ProcessMoves DEF Moves, Aside
        <2>2. CASE ScheduleBroadcast(c)
            BY <1>0, <2>2 DEF ScheduleBroadcast, GoTo
        <2>3. CASE LogSent(c)
            BY <1>0, <2>3 DEF LogSent, GoTo
        <2>4. ASSUME \/ \E a \in Announcements : GetAnnouncement(c, a) \/ Recheck(c, a)
                     \/ MarkApproved(c) \/ BeginFanout(c) \/ FinishFanout(c) \/ Finalize(c)
              PROVE  FALSE
            BY <1>0, <1>5, <2>4 DEF GetAnnouncement, Recheck, MarkApproved, BeginFanout,
               FinishFanout, Finalize, GoTo, AfterGet, AfterRecheck, AfterMarking,
               AfterBeginning, AfterFinalizing
        <2> QED
            BY <2>1, <2>2, <2>3, <2>4 DEF FinishSend
    <1>6. ASSUME replied'[c] \in {"sent", "scheduled"}
          PROVE  command'[c].kind = "approve" /\ found'[c] \in command'[c].prefix
        BY <1>3, <1>4, <1>6
    <1>7. ASSUME replied'[c] = "sent" \/ pc'[c] = "tellSent" PROVE audits'[found'[c]] > 0
        <2>1. CASE replied[c] = "sent" \/ pc[c] = "tellSent"
            <3>1. audits[found[c]] > 0
                BY <2>1 DEF ReplyInv
            <3> QED
                BY <1>3, <2>1, <3>1, AuditsGrow
        <2>2. CASE LogSent(c)
            <3>1. found[c] \in Announcements /\ found'[c] = found[c]
                BY <1>0, <2>2 DEF LogSent, readVars, SafetyInv, HandlersHoldNamedRows, ApproveTry
            <3> QED
                BY <1>0, <2>2, <3>1 DEF LogSent
        <2> QED
            BY <1>4, <1>5, <1>7, <2>1, <2>2
    <1>8. ASSUME replied'[c] = "scheduled" \/ pc'[c] = "tellScheduled"
          PROVE  scheduled'[found'[c]].state # "absent"
        <2>1. CASE replied[c] = "scheduled" \/ pc[c] = "tellScheduled"
            <3>1. scheduled[found[c]].state # "absent"
                BY <2>1 DEF ReplyInv
            <3> QED
                BY <1>3, <2>1, <3>1, RecordsStay
        <2>2. CASE ScheduleBroadcast(c)
            <3>1. found[c] \in Announcements /\ found'[c] = found[c]
                BY <1>0, <2>2 DEF ScheduleBroadcast, readVars, SafetyInv, HandlersHoldNamedRows,
                   ApproveTry
            <3> QED
                BY <1>0, <2>2, <3>1, NewJobs DEF ScheduleBroadcast
        <2> QED
            BY <1>4, <1>5, <1>8, <2>1, <2>2
    <1> QED
        BY <1>1, <1>2, <1>6, <1>7, <1>8 DEF ReplyInv

\* At first nobody is told anything.
LEMMA ReplyInit ==
    ASSUME Init, NEW c \in Commands
    PROVE  ReplyInv(c)
    <1>1. pc[c] = "idle" /\ replied[c] = "none" /\ command[c].prefix = {}
        BY DEF Init, NoCommand, Processes
    <1> QED
        BY <1>1 DEF ReplyInv

\* When a ref matches one announcement, the secretary is told "sent" only of a
\* send on record and "it'll broadcast automatically" only of a job that is on
\* the queue, however often the message is retried.
THEOREM RepliesAreTruthful ==
    ASSUME UniquePrefixes
    PROVE  Spec => []RepliesTruthful
    <1> DEFINE I == \A c \in Commands : ReplyInv(c)
    <1>1. Init => I
        BY ReplyInit
    <1>2. SafetyInv /\ I /\ [Next]_vars => I'
        BY ReplyStep
    <1>3. I => RepliesTruthful
        BY DEF RepliesTruthful, ReplyInv
    <1> QED
        BY <1>1, <1>2, <1>3, SafetyInit, SafetyStep, PTL DEF Spec

-----------------------------------------------------------------------------
(* Broadcast implements AnnouncementContract.                              *)

\* The time a handler read is the row's, a send begins once it has come, and
\* a job is due when its announcement is.
HandlerTimely(c) ==
    /\ pc[c] \in {"mark", "approve", "enqueue"} => runAt[c] = rows[found[c]].at
    /\ pc[c] \in {"recheck", "recipients"} => rows[found[c]].at <= now
WorkerTimely == pc[Worker] \in {"load", "recipients"} => rows[found[Worker]].at <= now
JobTimely(a) == scheduled[a].state # "absent" => dueAt[a] = rows[a].at
TimelyInv ==
    /\ \A c \in Commands : ReplyInv(c) /\ HandlerTimely(c)
    /\ WorkerTimely
    /\ \A a \in Announcements : JobTimely(a)

\* A drafted row keeps its time.
LEMMA DraftsStay ==
    ASSUME SafetyInv, [Next]_vars, NEW a \in Announcements, Exists(a)
    PROVE  Exists(a)' /\ rows'[a].at = rows[a].at
    <1>0. rows \in [Announcements -> Row]
        BY DEF SafetyInv, TypeInv, TypeOK
    <1>1. CASE rows'[a] = rows[a]
        BY <1>1 DEF Exists
    <1>2. CASE \E c \in Commands : InsertDraft(c, a)
        BY <1>2 DEF InsertDraft
    <1>3. CASE \/ \E c \in Commands : MarkApproved(c) /\ found[c] = a
               \/ \E p \in Processes : Finalize(p) /\ found[p] = a
        <2>1. /\ rows'[a].status \in {"approved", "broadcast"}
              /\ rows'[a].at = rows[a].at
            <3>1. CASE \E c \in Commands : MarkApproved(c) /\ found[c] = a
                BY <1>0, <3>1 DEF MarkApproved, Row
            <3>2. CASE \E p \in Processes : Finalize(p) /\ found[p] = a
                BY <1>0, <3>2 DEF Finalize, Row
            <3> QED
                BY <1>3, <3>1, <3>2
        <2> QED
            BY <2>1 DEF Exists
    <1> QED
        BY <1>1, <1>2, <1>3, RowMoves

\* The worker holds a row that exists, and one an approval names.
LEMMA WorkerHoldsNamedRow ==
    ASSUME SafetyInv, pc[Worker] # "idle"
    PROVE  /\ found[Worker] \in Announcements
           /\ Exists(found[Worker]) /\ Authorised(found[Worker])
    <1>1. found[Worker] \in Announcements /\ scheduled[found[Worker]].state = "active"
        BY DEF SafetyInv, TypeInv, BusyOnActiveJobs
    <1> QED
        BY <1>1 DEF SafetyInv, JobsAreApproved, JobsAreNamed, Exists

\* The time a handler reads first is not read again.
LEMMA RunAtStays ==
    ASSUME SafetyInv, [Next]_vars, NEW c \in Commands, runAt'[c] # runAt[c]
    PROVE  \E a \in Announcements : GetAnnouncement(c, a)
    <1>1. PICK d \in Commands, a \in Announcements : GetAnnouncement(d, a)
        BY ZenonT(60) DEF Next, CommandStep, WorkerStep, FinishSend, vars, Tick, SecretarySends,
           TakeCommand, CompleteCommand, InsertDraft, InsertUntracked, LookupFails,
           Recheck, MarkApproved, ScheduleBroadcast, BeginFanout, FinishFanout, Finalize,
           LogSent, Reply, TakeScheduled, LoadApproved, RefuseToSend, CompleteScheduled,
           EndAttempt, ApproveThrows, CommandThrows, ReplyUnanswered, WorkerThrows, InboundCrash,
           WorkerCrash, readVars
    <1>2. runAt \in [Commands -> Times]
        BY DEF SafetyInv, TypeInv, TypeOK
    <1> QED
        BY <1>1, <1>2 DEF GetAnnouncement

\* A handler keeps to the row it read, and to its time.
LEMMA HandlerStaysTimely ==
    ASSUME SafetyInv, TimelyInv, [Next]_vars, NEW c \in Commands
    PROVE  HandlerTimely(c)'
    <1>0. /\ c \in Processes /\ c # Worker /\ ReplyInv(c) /\ HandlerTimely(c)
          /\ pc \in [Processes -> CommandSteps \cup WorkerSteps]
          /\ found \in [Processes -> Announcements \cup {None}]
          /\ rows \in [Announcements -> Row]
          /\ runAt \in [Commands -> Times]
          /\ now \in Nat /\ now' \in Nat /\ now <= now'
        BY ConstantsAssumption, RecordsStay
        DEF SafetyInv, TypeInv, TypeOK, Processes, TimelyInv
    <1>1. \A a \in Announcements : rows[a].at \in Nat
        BY <1>0, ConstantsAssumption DEF Row, Times
    <1>2. ASSUME NEW a \in Announcements, GetAnnouncement(c, a)
          PROVE  HandlerTimely(c)'
        <2>1. /\ found'[c] = a /\ runAt'[c] = rows[a].at /\ rows' = rows
              /\ pc'[c] = (IF rows[a].at <= now THEN "recheck" ELSE "mark")
            BY <1>0, <1>2 DEF GetAnnouncement, GoTo, AfterGet, MayRunNow
        <2>2. rows[a].at <= now => rows[a].at <= now'
            BY <1>0, <1>1
        <2> QED
            BY <2>1, <2>2 DEF HandlerTimely
    <1>3. ASSUME pc[c] \in ApproveTry \ {"get"}
          PROVE  /\ found[c] \in Announcements /\ found'[c] = found[c]
                 /\ rows'[found[c]].at = rows[found[c]].at
                 /\ runAt'[c] = runAt[c]
        <2>1. /\ found[c] \in Announcements /\ Exists(found[c])
              /\ found[c] \in command[c].prefix /\ command[c].kind = "approve"
            BY <1>3 DEF SafetyInv, HandlersHoldNamedRows, CommandsAreGiven
        <2>2. runAt'[c] = runAt[c]
            BY <1>3, RunAtStays DEF GetAnnouncement
        <2> QED
            BY <1>0, <2>1, <2>2, FoundStays, DraftsStay
    <1>4. ASSUME pc'[c] \in {"mark", "approve", "enqueue", "recheck", "recipients"},
                 \A a \in Announcements : ~GetAnnouncement(c, a)
          PROVE  /\ pc[c] \in ApproveTry \ {"get"}
                 /\ pc'[c] \in {"mark", "approve", "enqueue"} =>
                        pc[c] \in {"mark", "approve", "enqueue"}
                 /\ pc'[c] \in {"recheck", "recipients"} => pc[c] \in {"recheck", "recipients"}
        <2>1. \/ pc'[c] = pc[c]
              \/ \E a \in Announcements : Recheck(c, a)
              \/ MarkApproved(c) \/ ScheduleBroadcast(c) \/ FinishSend(c)
            BY <1>0, <1>4, ProcessMoves DEF Moves, Aside
        <2>2. CASE pc'[c] = pc[c]
            BY <1>4, <2>2 DEF ApproveTry
        <2>3. CASE \E a \in Announcements : Recheck(c, a)
            BY <1>0, <1>4, <2>3 DEF Recheck, GoTo, AfterRecheck, ApproveTry
        <2>4. CASE MarkApproved(c) \/ ScheduleBroadcast(c) \/ FinishSend(c)
            BY <1>0, <1>4, <2>4 DEF MarkApproved, ScheduleBroadcast, FinishSend, BeginFanout,
               FinishFanout, Finalize, LogSent, GoTo, ApproveTry, AfterMarking, AfterBeginning,
               AfterFinalizing
        <2> QED
            BY <2>1, <2>2, <2>3, <2>4
    <1>5. ASSUME \A a \in Announcements : ~GetAnnouncement(c, a)
          PROVE  HandlerTimely(c)'
        <2>1. ASSUME pc'[c] \in {"mark", "approve", "enqueue"}
              PROVE  runAt'[c] = rows'[found'[c]].at
            BY <1>0, <1>3, <1>4, <1>5, <2>1 DEF HandlerTimely
        <2>2. ASSUME pc'[c] \in {"recheck", "recipients"}
              PROVE  rows'[found'[c]].at <= now'
            <3>1. /\ pc[c] \in ApproveTry \ {"get"} /\ pc[c] \in {"recheck", "recipients"}
                BY <1>4, <1>5, <2>2
            <3>2. rows[found[c]].at <= now
                BY <1>0, <3>1 DEF HandlerTimely
            <3> QED
                BY <1>0, <1>1, <1>3, <3>1, <3>2
        <2> QED
            BY <2>1, <2>2 DEF HandlerTimely
    <1> QED
        BY <1>2, <1>5

\* The worker keeps to the job it took, which was due.
LEMMA WorkerStaysTimely ==
    ASSUME SafetyInv, TimelyInv, [Next]_vars
    PROVE  WorkerTimely'
    <1>0. /\ Worker \in Processes /\ Worker \notin Commands
          /\ pc \in [Processes -> CommandSteps \cup WorkerSteps]
          /\ found \in [Processes -> Announcements \cup {None}]
          /\ rows \in [Announcements -> Row]
          /\ now \in Nat /\ now' \in Nat /\ now <= now'
        BY ConstantsAssumption, RecordsStay DEF SafetyInv, TypeInv, TypeOK, Processes
    <1>1. \A a \in Announcements : rows[a].at \in Nat
        BY <1>0, ConstantsAssumption DEF Row, Times
    <1> SUFFICES ASSUME pc'[Worker] \in {"load", "recipients"}
                 PROVE  rows'[found'[Worker]].at <= now'
        BY DEF WorkerTimely
    <1>2. ASSUME NEW a \in Announcements, TakeScheduled(a)
          PROVE  rows'[found'[Worker]].at <= now'
        <2>1. /\ found'[Worker] = a /\ rows' = rows /\ dueAt[a] <= now
              /\ scheduled[a].state # "absent"
            BY <1>0, <1>2 DEF TakeScheduled, DelayOver
        <2>2. dueAt[a] = rows[a].at
            BY <2>1 DEF TimelyInv, JobTimely
        <2> QED
            BY <1>0, <1>1, <2>1, <2>2
    <1>3. ASSUME pc[Worker] \in {"load", "recipients"}, found'[Worker] = found[Worker]
          PROVE  rows'[found'[Worker]].at <= now'
        <2>1. found[Worker] \in Announcements /\ Exists(found[Worker])
            BY <1>3, WorkerHoldsNamedRow
        <2>2. rows'[found[Worker]].at = rows[found[Worker]].at
            BY <2>1, DraftsStay
        <2>3. rows[found[Worker]].at <= now
            BY <1>3 DEF TimelyInv, WorkerTimely
        <2> QED
            BY <1>0, <1>1, <1>3, <2>1, <2>2, <2>3
    <1>4. \/ pc'[Worker] = pc[Worker] /\ found'[Worker] = found[Worker]
          \/ \E a \in Announcements : TakeScheduled(a)
          \/ LoadApproved \/ FinishSend(Worker)
        <2>1. CASE \/ pc'[Worker] = pc[Worker] /\ found'[Worker] = found[Worker]
                   \/ LoadApproved \/ FinishSend(Worker)
            BY <2>1
        <2>2. CASE pc'[Worker] \in Aside
            BY <1>0, <2>2, ProcessMoves DEF Moves, Aside
        <2> QED
            BY <1>0, <2>1, <2>2, ProcessMoves DEF Moves
    <1>5. CASE LoadApproved \/ FinishSend(Worker)
        <2>1. found' = found
            BY <1>5 DEF LoadApproved, FinishSend, BeginFanout, FinishFanout, Finalize, LogSent,
               readVars
        <2>2. pc[Worker] = "load"
            BY <1>0, <1>5 DEF LoadApproved, FinishSend, BeginFanout, FinishFanout, Finalize,
               LogSent, GoTo, AfterBeginning, AfterFinalizing
        <2> QED
            BY <1>3, <2>1, <2>2
    <1> QED
        BY <1>2, <1>3, <1>4, <1>5

\* A job is added with the time of its row.
LEMMA JobStaysTimely ==
    ASSUME SafetyInv, TimelyInv, [Next]_vars, NEW a \in Announcements
    PROVE  JobTimely(a)'
    <1>0. /\ dueAt \in [Announcements -> Times]
          /\ scheduled \in [Announcements -> BoundedJob]
        BY DEF SafetyInv, TypeInv, TypeOK
    <1>1. ASSUME NEW c \in Commands, ScheduleBroadcast(c)
          PROVE  JobTimely(a)'
        <2>1. /\ pc[c] = "enqueue" /\ rows' = rows
              /\ runAt[c] = rows[found[c]].at
            BY <1>1 DEF ScheduleBroadcast, TimelyInv, HandlerTimely
        <2>2. \/ a = found[c] /\ scheduled[a].state = "absent" /\ dueAt'[a] = runAt[c]
              \/ dueAt'[a] = dueAt[a] /\ scheduled'[a] = scheduled[a]
            BY <1>0, <1>1 DEF ScheduleBroadcast
        <2> QED
            BY <2>1, <2>2 DEF TimelyInv, JobTimely
    <1>2. ASSUME \A c \in Commands : ~ScheduleBroadcast(c)
          PROVE  JobTimely(a)'
        <2>1. dueAt'[a] = dueAt[a]
            BY <1>2, RecordsStay
        <2>2. scheduled'[a].state # "absent" => scheduled[a].state # "absent"
            <3>1. \/ scheduled' = scheduled
                  \/ \E b \in Announcements : TakeScheduled(b)
                  \/ RefuseToSend \/ CompleteScheduled \/ WorkerThrows \/ WorkerCrash
                BY <1>2, ZenonT(60) DEF Next, CommandStep, WorkerStep, FinishSend, vars, Tick,
                   SecretarySends,
                   TakeCommand, CompleteCommand, InsertDraft, InsertUntracked, LookupFails,
                   GetAnnouncement, Recheck, MarkApproved, BeginFanout, FinishFanout, Finalize,
                   LogSent, Reply, LoadApproved, ApproveThrows, CommandThrows, ReplyUnanswered,
                   InboundCrash, queueVars
            <3>2. ASSUME NEW b \in Announcements, TakeScheduled(b)
                  PROVE  a = b => scheduled[a].state # "absent"
                BY <3>2 DEF TakeScheduled
            <3>3. CASE \E b \in Announcements : TakeScheduled(b)
                BY <1>0, <3>2, <3>3 DEF TakeScheduled
            <3>4. CASE RefuseToSend \/ CompleteScheduled \/ WorkerThrows \/ WorkerCrash
                <4>1. scheduled[found[Worker]].state = "active"
                    BY <3>4 DEF RefuseToSend, CompleteScheduled, WorkerThrows, WorkerCrash,
                       SafetyInv, TypeInv, BusyOnActiveJobs
                <4>2. a # found[Worker] => scheduled'[a] = scheduled[a]
                    BY <1>0, <3>4 DEF RefuseToSend, CompleteScheduled, WorkerThrows, WorkerCrash,
                       EndAttempt
                <4> QED
                    BY <4>1, <4>2
            <3> QED
                BY <3>1, <3>3, <3>4
        <2>3. scheduled[a].state # "absent" => rows'[a].at = rows[a].at
            BY DraftsStay DEF SafetyInv, JobsAreApproved, Exists
        <2> QED
            BY <2>1, <2>2, <2>3 DEF TimelyInv, JobTimely
    <1> QED
        BY <1>1, <1>2

\* Every step keeps the times.
LEMMA TimelyStep ==
    ASSUME UniquePrefixes, SafetyInv, TimelyInv, [Next]_vars
    PROVE  TimelyInv'
    BY ReplyStep, HandlerStaysTimely, WorkerStaysTimely, JobStaysTimely DEF TimelyInv

\* What the contract sees of the table and of the commands.
Schedule == [a \in Announcements |-> IF Exists(a) THEN rows[a].at ELSE None]
Named == {a \in Announcements : Authorised(a)}
ContractStutters == UNCHANGED <<now, Schedule, Named, begun, audits>>

\* The table the contract sees changes only when a row is drafted.
LEMMA ScheduleStays ==
    ASSUME SafetyInv, [Next]_vars, \A c \in Commands, a \in Announcements : ~InsertDraft(c, a)
    PROVE  Schedule' = Schedule
    <1>1. \A a \in Announcements : Exists(a)' = Exists(a) /\ (Exists(a) => rows'[a].at = rows[a].at)
        <2> SUFFICES ASSUME NEW a \in Announcements
                     PROVE  Exists(a)' = Exists(a) /\ (Exists(a) => rows'[a].at = rows[a].at)
            OBVIOUS
        <2>1. CASE rows'[a] = rows[a]
            BY <2>1 DEF Exists
        <2>2. CASE rows'[a] # rows[a]
            <3>1. \/ \E c \in Commands : MarkApproved(c) /\ found[c] = a
                  \/ \E p \in Processes : Finalize(p) /\ found[p] = a
                BY <2>2, RowMoves
            <3>2. Exists(a)
                <4>1. CASE \E c \in Commands : MarkApproved(c) /\ found[c] = a
                    BY <4>1 DEF MarkApproved, SafetyInv, HandlersHoldNamedRows, ApproveTry
                <4>2. ASSUME NEW p \in Processes, Finalize(p), found[p] = a
                      PROVE  Exists(a)
                    <5>1. pc[p] = "finalize"
                        BY <4>2 DEF Finalize
                    <5>2. CASE p = Worker
                        BY <4>2, <5>1, <5>2, WorkerHoldsNamedRow
                    <5>3. CASE p \in Commands
                        BY <4>2, <5>1, <5>3 DEF SafetyInv, HandlersHoldNamedRows, ApproveTry
                    <5> QED
                        BY <5>2, <5>3 DEF Processes
                <4> QED
                    BY <3>1, <4>1, <4>2
            <3> QED
                BY <3>2, DraftsStay DEF Exists
        <2> QED
            BY <2>1, <2>2
    <1> QED
        BY <1>1 DEF Schedule

\* What the approvals name changes only when a message is sent.
LEMMA NamedStay ==
    ASSUME command' = command
    PROVE  Named' = Named
    BY DEF Named, Authorised

\* Whoever is about to send holds a row an approval names; its time has come.
LEMMA SendersAreDue ==
    ASSUME SafetyInv, TimelyInv, NEW p \in Processes, pc[p] = "recipients"
    PROVE  /\ found[p] \in Announcements /\ Exists(found[p]) /\ Authorised(found[p])
           /\ rows[found[p]].at <= now
    <1>1. CASE p = Worker
        BY <1>1, WorkerHoldsNamedRow DEF TimelyInv, WorkerTimely
    <1>2. CASE p \in Commands
        <2>1. /\ found[p] \in Announcements /\ Exists(found[p])
              /\ found[p] \in command[p].prefix /\ command[p].kind = "approve"
            BY <1>2 DEF SafetyInv, HandlersHoldNamedRows, CommandsAreGiven, ApproveTry
        <2> QED
            BY <1>2, <2>1 DEF Authorised, TimelyInv, HandlerTimely
    <1> QED
        BY <1>1, <1>2 DEF Processes

\* An audit row is written for a fan-out that has none.
LEMMA LoggedIsUnlogged ==
    ASSUME SafetyInv, AccountsHold, NEW p \in Processes, pc[p] = "audit"
    PROVE  found[p] \in Announcements /\ audits[found[p]] < begun[found[p]]
    <1>1. found[p] \in Announcements
        <2>1. CASE p = Worker
            BY <2>1, WorkerHoldsNamedRow
        <2>2. CASE p \in Commands
            BY <2>2 DEF SafetyInv, HandlersHoldNamedRows, ApproveTry
        <2> QED
            BY <2>1, <2>2 DEF Processes
    <1>2. PICK a \in Announcements : a = found[p]
        BY <1>1
    <1>3. AccountInv(a) /\ audits[a] \in Nat /\ sent[a] \in Nat /\ begun[a] \in Nat
        BY DEF AccountsHold, SafetyInv, TypeInv, TypeOK
    <1>4. p \in Unlogged(a) /\ IsFiniteSet(Unlogged(a)) /\ IsFiniteSet(Fanning(a))
        BY <1>2, <1>3 DEF Unlogged, AccountInv
    <1>5. /\ Cardinality(Unlogged(a)) \in Nat /\ Cardinality(Unlogged(a) \ {p}) \in Nat
          /\ Cardinality(Unlogged(a) \ {p}) = Cardinality(Unlogged(a)) - 1
        BY <1>4, FS_RemoveElement, FS_CardinalityType
    <1>6. Cardinality(Fanning(a)) \in Nat
        BY <1>4, FS_CardinalityType
    <1> QED
        BY <1>2, <1>3, <1>5, <1>6 DEF AccountInv

\* Every step is one of the contract's, or none at all.
LEMMA ContractStep ==
    ASSUME SafetyInv, AccountsHold, TimelyInv, [Next]_vars
    PROVE  [Contract!ContractNext]_(Contract!contractVars)
    <1> USE DEF Contract!contractVars
    <1>0. /\ rows \in [Announcements -> Row]
          /\ begun \in [Announcements -> Nat] /\ audits \in [Announcements -> Nat]
          /\ command \in [Commands -> Command]
          /\ \A t \in Times : t # None /\ t \in Nat
        BY ConstantsAssumption DEF SafetyInv, TypeInv, TypeOK, Times
    <1>1. /\ Schedule = [a \in Announcements |-> IF Exists(a) THEN rows[a].at ELSE None]
          /\ Named = {a \in Announcements : Authorised(a)}
        BY DEF Schedule, Named
    <1>2. CASE ContractStutters
        BY <1>2 DEF ContractStutters, Schedule, Named
    <1>3. CASE Tick
        <2>1. rows' = rows /\ command' = command /\ now' = now + 1 /\ begun' = begun
              /\ audits' = audits
            BY <1>3 DEF Tick, handlerVars, historyVars
        <2>2. Schedule' = Schedule /\ Named' = Named
            BY <2>1, NamedStay DEF Schedule, Exists
        <2>3. Contract!TimePasses
            BY <2>1, <2>2 DEF Contract!TimePasses, Schedule, Named
        <2> QED
            BY <2>3 DEF Contract!ContractNext
    <1>4. ASSUME NEW c \in Commands, NEW text \in Drafts \cup Approvals, SecretarySends(c, text)
          PROVE  [Contract!ContractNext]_(Contract!contractVars)
        <2>1. /\ UNCHANGED <<now, rows, begun, audits>>
              /\ command' = [command EXCEPT ![c] = text]
              /\ command[c].kind = "none"
            BY <1>4 DEF SecretarySends, historyVars, SafetyInv, CommandsAreGiven
        <2>2. Schedule' = Schedule
            BY <2>1 DEF Schedule, Exists
        <2>3. /\ text.prefix \in SUBSET Announcements
              /\ text.kind = "approve" \/ text.prefix = {}
            BY ConstantsAssumption DEF Drafts, Approvals
        <2>4. \A a \in Announcements : Authorised(a)' <=> Authorised(a) \/ a \in text.prefix
            <3> SUFFICES ASSUME NEW a \in Announcements
                         PROVE  Authorised(a)' <=> Authorised(a) \/ a \in text.prefix
                OBVIOUS
            <3>1. \A d \in Commands : d # c => command'[d] = command[d]
                BY <2>1, <1>0
            <3>2. command'[c] = text
                BY <2>1, <1>0
            <3> QED
                BY <2>1, <2>3, <3>1, <3>2 DEF Authorised
        <2>5. Named' = Named \cup text.prefix
            BY <2>3, <2>4 DEF Named
        <2>6. Contract!Authorised(text.prefix)
            BY <2>1, <2>2, <2>5 DEF Contract!Authorised, Schedule, Named
        <2> QED
            BY <2>3, <2>6 DEF Contract!ContractNext
    <1>5. ASSUME NEW c \in Commands, NEW a \in Announcements, InsertDraft(c, a)
          PROVE  [Contract!ContractNext]_(Contract!contractVars)
        <2>1. /\ UNCHANGED <<now, command, begun, audits>>
              /\ ~Exists(a) /\ Exists(a)' /\ rows'[a].at = command[c].at
              /\ \A b \in Announcements : b # a => rows'[b] = rows[b]
            BY <1>0, <1>5 DEF InsertDraft, handlerVars, historyVars, Exists
        <2>2. command[c].at \in Times
            BY <1>0 DEF Command
        <2>3. Schedule[a] = None /\ Schedule'[a] \in Nat /\ Named' = Named
            BY <1>0, <2>1, <2>2, NamedStay DEF Schedule
        <2>4. \A b \in Announcements : b # a => Exists(b)' = Exists(b)
            BY <2>1 DEF Exists
        <2>5. Schedule' = [Schedule EXCEPT ![a] = Schedule'[a]]
            BY <2>1, <2>4 DEF Schedule
        <2>6. Contract!Drafted(a)
            BY <2>1, <2>3, <2>5 DEF Contract!Drafted, Schedule, Named
        <2> QED
            BY <2>6 DEF Contract!ContractNext
    <1>6. ASSUME NEW p \in Processes, BeginFanout(p)
          PROVE  [Contract!ContractNext]_(Contract!contractVars)
        <2>1. PICK a \in Announcements : /\ a = found[p] /\ Exists(a) /\ Authorised(a)
                                         /\ rows[a].at <= now
            BY <1>6, SendersAreDue DEF BeginFanout
        <2>2. /\ UNCHANGED <<now, rows, command, audits>>
              /\ begun' = [begun EXCEPT ![a] = @ + 1]
            BY <1>6, <2>1 DEF BeginFanout, handlerVars
        <2>3. Schedule' = Schedule /\ Named' = Named
            BY <2>2, NamedStay DEF Schedule, Exists
        <2>4. a \in Named /\ Schedule[a] = rows[a].at /\ rows[a].at # None
            BY <1>0, <2>1 DEF Named, Schedule, Row
        <2>5. Contract!Delivered(a)
            BY <2>1, <2>2, <2>3, <2>4 DEF Contract!Delivered, Schedule, Named
        <2> QED
            BY <2>5 DEF Contract!ContractNext
    <1>7. ASSUME NEW p \in Processes, LogSent(p)
          PROVE  [Contract!ContractNext]_(Contract!contractVars)
        <2>1. PICK a \in Announcements : a = found[p] /\ audits[a] < begun[a]
            BY <1>7, LoggedIsUnlogged DEF LogSent
        <2>2. /\ UNCHANGED <<now, rows, command, begun>>
              /\ audits' = [audits EXCEPT ![a] = @ + 1]
            BY <1>7, <2>1 DEF LogSent, handlerVars
        <2>3. Schedule' = Schedule /\ Named' = Named
            BY <2>2, NamedStay DEF Schedule, Exists
        <2>4. Contract!Logged(a)
            BY <2>1, <2>2, <2>3 DEF Contract!Logged, Schedule, Named
        <2> QED
            BY <2>4 DEF Contract!ContractNext
    <1>8. ASSUME ~Tick, \A c \in Commands, a \in Announcements : ~InsertDraft(c, a),
                 \A c \in Commands, text \in Drafts \cup Approvals : ~SecretarySends(c, text),
                 \A p \in Processes : ~BeginFanout(p) /\ ~LogSent(p)
          PROVE  ContractStutters
        <2>1. UNCHANGED <<now, command, begun, audits>>
            BY <1>8, ZenonT(60) DEF Next, CommandStep, WorkerStep, FinishSend, vars, TakeCommand,
               CompleteCommand, InsertUntracked, LookupFails, GetAnnouncement, Recheck,
               MarkApproved, ScheduleBroadcast, FinishFanout, Finalize, Reply, TakeScheduled,
               LoadApproved, RefuseToSend, CompleteScheduled, EndAttempt, ApproveThrows,
               CommandThrows, ReplyUnanswered, WorkerThrows, InboundCrash, WorkerCrash,
               handlerVars, historyVars, Processes
        <2> QED
            BY <1>8, <2>1, ScheduleStays, NamedStay DEF ContractStutters
    <1> QED
        BY <1>2, <1>3, <1>4, <1>5, <1>6, <1>7, <1>8

\* When a ref matches one announcement, the queue, the worker and the concurrent
\* handlers keep the contract whatever fails: nothing goes out undrafted,
\* unapproved or before its scheduled_at, and nothing is logged that was not sent.
THEOREM BroadcastKeepsContract ==
    ASSUME UniquePrefixes
    PROVE  Spec => KeepsContract
    <1>1. ASSUME Init PROVE AccountsHold /\ TimelyInv
        <2>1. AccountsHold
            BY <1>1, AccountsInit
        <2>2. \A c \in Commands : ReplyInv(c)
            BY <1>1, ReplyInit
        <2>3. /\ \A p \in Processes : pc[p] = "idle"
              /\ \A a \in Announcements : scheduled[a].state = "absent"
            BY <1>1 DEF Init, NoJob
        <2> QED
            BY <2>1, <2>2, <2>3 DEF TimelyInv, HandlerTimely, WorkerTimely, JobTimely, Processes
    <1>2. Init => Contract!ContractInit
        BY DEF Init, Contract!ContractInit, Exists, Authorised, NoCommand
    <1> QED
        BY <1>1, <1>2, SafetyInit, SafetyStep, AccountsStep, TimelyStep, ContractStep, PTL
        DEF Spec, KeepsContract, Contract!ContractSpec
=============================================================================
