-------------------------- MODULE EscalationsProofs -------------------------
(***************************************************************************)
(* Proofs about Escalations for every number of messages and requests, any *)
(* references, concurrency and number of faults: the types, with what a    *)
(* handler may rely on between two of its calls, and on them that what a   *)
(* resident and the secretary are told is so, that every change of status  *)
(* is on record, that a message that is done with was heard, and that what *)
(* is opened twice or missed is paid for by a fault.                       *)
(***************************************************************************)
EXTENDS Escalations, JobsProofs, SequenceTheorems

-----------------------------------------------------------------------------
(* Types.  The numbers of rows stay in range because a handler that is     *)
(* about to change, audit or answer about a row holds one there is; the    *)
(* counters of a job because a chat handler runs on an active job.         *)

Holding == {"notify", "stamp", "audit", "reply", "update", "log", "tell"}

HandlerInv(m) ==
    /\ HasAttemptsLeft(job[m])
    /\ pc[m] # "idle" => ByDashboard(m) \/ job[m].state = "active"
    /\ pc[m] \in Holding => at[m] \in RowNumbers
    /\ pc[m] \in ResidentSteps => ByResident(m)
    /\ pc[m] \in UpdateTry \cup {"apologize"} => text[m].kind \in Status \ {"pending"}
    /\ text[m] = NoText => pc[m] = "idle" /\ job[m] = NoJob
    /\ ByDashboard(m) => job[m] = NoJob

TypeInv == TypeOK /\ \A m \in Messages : HandlerInv(m)

\* The initial state: no rows, no messages, nobody at work.
LEMMA TypeInit == Init => TypeInv
    BY NewJobs, EscalationsAssumption
    DEF Init, TypeInv, TypeOK, HandlerInv, RowNumbers, Steps, ResidentSteps, UpdateTry,
        Holding

\* What messages and requests may be.
LEMMA Words ==
    ASSUME NEW words \in FromResident \cup FromSecretary \cup FromDashboard
    PROVE  /\ words # NoText
           /\ words.via \in {"chat", "dashboard"}
           /\ words.via = "dashboard" <=> words \in FromDashboard
           /\ words \in FromResident \cup FromSecretary => words.via = "chat"
           /\ words.kind \in {"forbidden", "trigger"} <=> words \in FromResident
           /\ words \notin FromResident => words.kind \in Status \ {"pending"}
    BY DEF FromResident, FromSecretary, FromDashboard, NoText, Status, Open

\* Changing a row in place: the table keeps its type and its length.
LEMMA StatusChange ==
    ASSUME NEW table \in Seq(Row), NEW i \in 1..Len(table), NEW status \in Status
    PROVE  /\ [table EXCEPT ![i].status = status] \in Seq(Row)
           /\ Len([table EXCEPT ![i].status = status]) = Len(table)
    <1> DEFINE changed == [table[i] EXCEPT !.status = status]
    <1>0. table[i] \in Row
        OBVIOUS
    <1>1. changed \in Row
        BY <1>0 DEF Row
    <1>2. /\ [table EXCEPT ![i] = changed] \in Seq(Row)
          /\ Len([table EXCEPT ![i] = changed]) = Len(table)
        BY <1>1, ExceptSeq
    <1> QED
        BY <1>2

\* So does stamping it as notified.
LEMMA Stamping ==
    ASSUME NEW table \in Seq(Row), NEW i \in 1..Len(table)
    PROVE  /\ [table EXCEPT ![i].notified = TRUE] \in Seq(Row)
           /\ Len([table EXCEPT ![i].notified = TRUE]) = Len(table)
    <1> DEFINE changed == [table[i] EXCEPT !.notified = TRUE]
    <1>0. table[i] \in Row
        OBVIOUS
    <1>1. changed \in Row
        BY <1>0 DEF Row
    <1>2. /\ [table EXCEPT ![i] = changed] \in Seq(Row)
          /\ Len([table EXCEPT ![i] = changed]) = Len(table)
        BY <1>1, ExceptSeq
    <1> QED
        BY <1>2

-----------------------------------------------------------------------------
(* Every step keeps the types.                                             *)

\* The types of what handlers write outside themselves.
TablesOK ==
    /\ rows \in Seq(Row)
    /\ received \subseteq RowNumbers /\ created \subseteq RowNumbers
    /\ blocks \in [Messages -> Nat]
    /\ trail \subseteq RowNumbers \X Status
    /\ told \in [Messages -> RowNumbers \cup {0}]
    /\ faults \in 0..MaxFaults

\* What a step of a handler that goes on with the call step has to show.
Moves(m, step) ==
    /\ pc[m] # "idle" /\ step \in Steps /\ GoTo(m, step)
    /\ UNCHANGED jobVars
    /\ TablesOK' /\ RowNumbers \subseteq RowNumbers'
    /\ at' \in [Messages -> RowNumbers' \cup {0}]
    /\ \A n \in Messages \ {m} : at'[n] = at[n]
    /\ step \in Holding => at'[m] \in RowNumbers'
    /\ step \in ResidentSteps => ByResident(m)
    /\ step \in UpdateTry \cup {"apologize"} => text[m].kind \in Status \ {"pending"}

\* Such a step keeps the types.
LEMMA MoveKeepsTypes ==
    ASSUME TypeInv, NEW m \in Messages, NEW step, Moves(m, step)
    PROVE  TypeInv'
    <1> USE DEF TypeInv, TypeOK, Moves, GoTo, jobVars
    <1>1. ASSUME NEW n \in Messages
          PROVE  HandlerInv(n)'
        <2>1. CASE n = m
            BY <2>1 DEF HandlerInv, HasAttemptsLeft, ByResident, ByDashboard
        <2>2. CASE n # m
            BY <2>2 DEF HandlerInv, HasAttemptsLeft, ByResident, ByDashboard
        <2> QED
            BY <2>1, <2>2
    <1>2. TypeOK'
        BY DEF TablesOK
    <1> QED
        BY <1>1, <1>2

\* A message or a request arrives.
LEMMA ArrivalKeepsTypes ==
    ASSUME TypeInv, NEW m \in Messages,
           \/ \E words \in FromResident \cup FromSecretary : Send(m, words)
           \/ \E words \in FromDashboard : PostStatus(m, words)
    PROVE  TypeInv'
    <1> USE DEF TypeInv, TypeOK, auditVars
    <1>1. ASSUME NEW words \in FromResident \cup FromSecretary, Send(m, words)
          PROVE  TypeInv'
        <2>1. TypeOK'
            BY <1>1, NewJobs DEF Send, RowNumbers
        <2>2. ASSUME NEW n \in Messages
              PROVE  HandlerInv(n)'
            BY <1>1, <2>2, NewJobs, Words
            DEF Send, HandlerInv, HasAttemptsLeft, RowNumbers, ByDashboard, ByResident,
                ResidentSteps, UpdateTry, Holding
        <2> QED
            BY <2>1, <2>2
    <1>2. ASSUME NEW words \in FromDashboard, PostStatus(m, words)
          PROVE  TypeInv'
        <2>1. TypeOK'
            BY <1>2 DEF PostStatus, RowNumbers, GoTo, Steps, UpdateTry
        <2>2. ASSUME NEW n \in Messages
              PROVE  HandlerInv(n)'
            BY <1>2, <2>2, Words
            DEF PostStatus, HandlerInv, HasAttemptsLeft, RowNumbers, ByDashboard, ByResident,
                ResidentSteps, UpdateTry, Holding, GoTo, Steps, FromDashboard
        <2> QED
            BY <2>1, <2>2
    <1> QED
        BY <1>1, <1>2

\* Steps of escalate.
LEMMA ResidentStepKeepsTypes ==
    ASSUME TypeInv, NEW m \in Messages,
           \/ LogBlock(m)
           \/ CreateEscalation(m)
           \/ Notify(m)
           \/ StampNotified(m)
           \/ LogCreated(m)
    PROVE  TypeInv'
    <1> USE DEF TablesOK, auditVars, jobVars, Steps, ResidentSteps, UpdateTry, Holding
    <1>0. /\ TypeOK
          /\ pc[m] \in ResidentSteps => ByResident(m)
          /\ pc[m] \in Holding => at[m] \in RowNumbers
        BY DEF TypeInv, HandlerInv
    <1>1. CASE LogBlock(m)
        <2>1. Moves(m, "insert")
            BY <1>0, <1>1 DEF Moves, TypeOK, LogBlock, LogForbiddenActionBlocked, RowNumbers
        <2> QED
            BY <2>1, MoveKeepsTypes
    <1>2. CASE CreateEscalation(m)
        <2>1. /\ rows' \in Seq(Row) /\ Len(rows') = Len(rows) + 1
            BY <1>0, <1>2 DEF TypeOK, CreateEscalation, AppendRow, Row, Status, Open
        <2>2. RowNumbers \subseteq RowNumbers' /\ Len(rows) + 1 \in RowNumbers'
            BY <1>0, <2>1 DEF TypeOK, RowNumbers
        <2>3. Moves(m, "notify")
            BY <1>0, <1>2, <2>1, <2>2 DEF Moves, TypeOK, CreateEscalation, AfterInsert
        <2> QED
            BY <2>3, MoveKeepsTypes
    <1>3. CASE Notify(m)
        <2>1. Moves(m, "stamp")
            BY <1>0, <1>3 DEF Moves, TypeOK, Notify, RowNumbers
        <2> QED
            BY <2>1, MoveKeepsTypes
    <1>4. CASE StampNotified(m)
        <2>1. rows' \in Seq(Row) /\ Len(rows') = Len(rows)
            BY <1>0, <1>4, Stamping DEF TypeOK, StampNotified, RowNumbers
        <2>2. Moves(m, "audit")
            BY <1>0, <1>4, <2>1 DEF Moves, TypeOK, StampNotified, RowNumbers
        <2> QED
            BY <2>2, MoveKeepsTypes
    <1>5. CASE LogCreated(m)
        <2>1. Moves(m, "reply")
            BY <1>0, <1>5 DEF Moves, TypeOK, LogCreated, AfterAudit, RowNumbers
        <2> QED
            BY <2>1, MoveKeepsTypes
    <1> QED
        BY <1>1, <1>2, <1>3, <1>4, <1>5

\* Steps of acknowledge.
LEMMA UpdateStepKeepsTypes ==
    ASSUME TypeInv, NEW m \in Messages,
           \/ \E i \in RowNumbers : FindEscalation(m, i)
           \/ NoneFound(m)
           \/ UpdateStatus(m)
           \/ LogChange(m)
    PROVE  TypeInv'
    <1> USE DEF TablesOK, auditVars, jobVars, Steps, ResidentSteps, UpdateTry, Holding
    <1>0. /\ TypeOK
          /\ pc[m] \in UpdateTry => text[m].kind \in Status \ {"pending"}
          /\ pc[m] \in Holding => at[m] \in RowNumbers
        BY DEF TypeInv, HandlerInv
    <1>1. ASSUME NEW i \in RowNumbers, FindEscalation(m, i)
          PROVE  TypeInv'
        <2>1. Moves(m, "update")
            BY <1>0, <1>1 DEF Moves, TypeOK, FindEscalation, RowNumbers
        <2> QED
            BY <2>1, MoveKeepsTypes
    <1>2. CASE NoneFound(m)
        <2>1. Moves(m, "apologize")
            BY <1>0, <1>2 DEF Moves, TypeOK, NoneFound, RowNumbers
        <2> QED
            BY <2>1, MoveKeepsTypes
    <1>3. CASE UpdateStatus(m)
        <2>1. text[m].kind \in Status /\ at[m] \in 1..Len(rows)
            BY <1>0, <1>3 DEF UpdateStatus, RowNumbers
        <2>2. rows' = [rows EXCEPT ![at[m]].status = text[m].kind] /\ rows \in Seq(Row)
            BY <1>0, <1>3 DEF TypeOK, UpdateStatus, NewStatus
        <2>3. /\ [rows EXCEPT ![at[m]].status = text[m].kind] \in Seq(Row)
              /\ Len([rows EXCEPT ![at[m]].status = text[m].kind]) = Len(rows)
            BY <1>0, <2>1, StatusChange DEF TypeOK
        <2>4. Moves(m, "log")
            BY <1>0, <1>3, <2>2, <2>3 DEF Moves, TypeOK, UpdateStatus, RowNumbers
        <2> QED
            BY <2>4, MoveKeepsTypes
    <1>4. CASE LogChange(m)
        <2>1. trail' \subseteq RowNumbers \X Status
            BY <1>0, <1>4 DEF TypeOK, LogChange, Logged
        <2>2. Moves(m, "tell")
            BY <1>0, <1>4, <2>1 DEF Moves, TypeOK, LogChange, RowNumbers
        <2> QED
            BY <2>2, MoveKeepsTypes
    <1> QED
        BY <1>1, <1>2, <1>3, <1>4

\* Answering, and errors that the handler survives.
LEMMA AnswerKeepsTypes ==
    ASSUME TypeInv, NEW m \in Messages,
           Reply(m) \/ UpdateThrows(m) \/ NotifyFails(m)
    PROVE  TypeInv'
    <1> USE EscalationsAssumption
        DEF TablesOK, auditVars, jobVars, Steps, ResidentSteps, UpdateTry, Holding
    <1>0. /\ TypeOK
          /\ pc[m] \in ResidentSteps => ByResident(m)
          /\ pc[m] \in UpdateTry => text[m].kind \in Status \ {"pending"}
          /\ pc[m] \in Holding => at[m] \in RowNumbers
        BY DEF TypeInv, HandlerInv
    <1>1. CASE Reply(m)
        <2>1. told' \in [Messages -> RowNumbers \cup {0}]
            BY <1>0, <1>1 DEF TypeOK, Reply, Subject
        <2>2. /\ AfterReply(m) \in {"record", "done"}
              /\ AfterReply(m) = "record" => pc[m] = "reply"
            BY DEF AfterReply
        <2>3. Moves(m, AfterReply(m))
            BY <1>0, <1>1, <2>1, <2>2 DEF Moves, TypeOK, Reply, RowNumbers
        <2> QED
            BY <2>3, MoveKeepsTypes
    <1>2. CASE UpdateThrows(m)
        <2>1. Moves(m, "apologize")
            BY <1>0, <1>2 DEF Moves, TypeOK, UpdateThrows, Fault, RowNumbers
        <2> QED
            BY <2>1, MoveKeepsTypes
    <1>3. CASE NotifyFails(m)
        <2>1. Moves(m, "audit")
            BY <1>0, <1>3 DEF Moves, TypeOK, NotifyFails, Fault, RowNumbers
        <2> QED
            BY <2>1, MoveKeepsTypes
    <1> QED
        BY <1>1, <1>2, <1>3

-----------------------------------------------------------------------------
(* Handlers that begin and end.                                            *)

\* What a step that ends the handlers of the messages in S has to show.
Ends(S) ==
    /\ S \subseteq Messages /\ End(S) /\ UNCHANGED text
    /\ TablesOK' /\ RowNumbers \subseteq RowNumbers'
    /\ job' \in [Messages -> BoundedJob]
    /\ \A n \in S : /\ text[n] # NoText /\ HasAttemptsLeft(job'[n])
                    /\ ByDashboard(n) => job'[n] = job[n]
    /\ \A n \in Messages \ S : job'[n] = job[n]

\* Such a step keeps the types.
LEMMA EndKeepsTypes ==
    ASSUME TypeInv, NEW S, Ends(S)
    PROVE  TypeInv'
    <1> USE DEF TypeInv, TypeOK, Ends, End
    <1>1. TypeOK'
        BY DEF TablesOK, Steps
    <1>2. ASSUME NEW n \in Messages
          PROVE  HandlerInv(n)'
        <2>1. CASE n \in S
            BY <2>1 DEF HandlerInv, HasAttemptsLeft, Holding, ResidentSteps, UpdateTry, ByDashboard
        <2>2. CASE n \notin S
            BY <2>2 DEF HandlerInv, HasAttemptsLeft, ByResident, ByDashboard
        <2> QED
            BY <2>1, <2>2
    <1> QED
        BY <1>1, <1>2

\* A message at which a handler is busy has been sent.
LEMMA BusyHasText ==
    ASSUME TypeInv, NEW m \in Messages, pc[m] # "idle" \/ job[m].state = "active"
    PROVE  text[m] # NoText
    BY NewJobs DEF TypeInv, HandlerInv

\* A job is taken or finished, a request is answered.
LEMMA QueueKeepsTypes ==
    ASSUME TypeInv, NEW m \in Messages, TakeJob(m) \/ CompleteJob(m) \/ EndRequest(m)
    PROVE  TypeInv'
    <1> USE DEF TypeInv, TypeOK, auditVars, jobVars
    <1>1. CASE TakeJob(m)
        <2> DEFINE step == FirstStep(m)
        <2>1. /\ step \in {"block", "insert", "find"}
              /\ step \in {"block", "insert"} => ByResident(m)
              /\ step = "find" => text[m].kind \in Status \ {"pending"}
            <3>1. text[m] # NoText
                BY <1>1, NewJobs DEF TakeJob, HandlerInv, NoJob
            <3> QED
                BY <3>1, Words DEF FirstStep, ByResident, FromResident, FromSecretary,
                   FromDashboard
        <2>2. /\ job' \in [Messages -> BoundedJob] /\ HasAttemptsLeft(job'[m])
              /\ job'[m].state = "active"
            BY <1>1, JobTaken DEF TakeJob, HandlerInv
        <2>3. pc' = [pc EXCEPT ![m] = step] /\ pc' \in [Messages -> Steps]
            BY <1>1, <2>1 DEF TakeJob, GoTo, Steps, ResidentSteps, UpdateTry
        <2>4. text[m] # NoText /\ ~ByDashboard(m)
            BY <1>1, NewJobs DEF TakeJob, HandlerInv, NoJob
        <2>5. UNCHANGED <<rows, text, at>> /\ \A n \in Messages \ {m} : job'[n] = job[n]
            BY <1>1 DEF TakeJob
        <2>6. ASSUME NEW n \in Messages
              PROVE  HandlerInv(n)'
            <3>1. CASE n = m
                BY <2>1, <2>2, <2>3, <2>4, <2>5, <3>1
                DEF HandlerInv, HasAttemptsLeft, Holding, ResidentSteps, UpdateTry,
                    ByResident, ByDashboard
            <3>2. CASE n # m
                BY <2>3, <2>5, <3>2 DEF HandlerInv, HasAttemptsLeft, ByResident, ByDashboard,
                   RowNumbers
            <3> QED
                BY <3>1, <3>2
        <2> QED
            BY <1>1, <2>2, <2>3, <2>6 DEF TakeJob, RowNumbers
    <1>2. CASE CompleteJob(m)
        <2>1. text[m] # NoText /\ job[m].state = "active" /\ HasAttemptsLeft(job[m])
            BY <1>2, BusyHasText DEF CompleteJob, HandlerInv
        <2>2. job' \in [Messages -> BoundedJob] /\ HasAttemptsLeft(job'[m])
            BY <1>2, <2>1, JobTransitions DEF CompleteJob
        <2>3. Ends({m})
            BY <1>2, <2>1, <2>2 DEF Ends, CompleteJob, TablesOK, RowNumbers
        <2> QED
            BY <2>3, EndKeepsTypes
    <1>3. CASE EndRequest(m)
        <2>1. text[m] # NoText /\ HasAttemptsLeft(job[m])
            BY <1>3, BusyHasText DEF EndRequest, HandlerInv
        <2>2. Ends({m})
            BY <1>3, <2>1 DEF Ends, EndRequest, TablesOK, RowNumbers
        <2> QED
            BY <2>2, EndKeepsTypes
    <1> QED
        BY <1>1, <1>2, <1>3

\* An attempt fails, or a process dies.
LEMMA FailureKeepsTypes ==
    ASSUME TypeInv,
           \/ \E m \in Messages : HandlerThrows(m) \/ InsertUnanswered(m)
           \/ WorkerCrash
           \/ GatewayCrash
    PROVE  TypeInv'
    <1> USE DEF auditVars, jobVars
    <1>0. /\ TypeOK /\ \A n \in Messages : HandlerInv(n)
          /\ Fault => faults' \in 0..MaxFaults
        BY EscalationsAssumption DEF TypeInv, TypeOK, Fault
    <1>1. ASSUME NEW m \in Messages, HandlerThrows(m) \/ InsertUnanswered(m)
          PROVE  TypeInv'
        <2>1. pc[m] # "idle" /\ ~ByDashboard(m)
            <3>1. ~(pc[m] = "insert" /\ ByDashboard(m))
                <4>1. text[m] \in {NoText} \cup FromResident \cup FromSecretary \cup FromDashboard
                    BY <1>0 DEF TypeOK
                <4>2. pc[m] = "insert" => ByResident(m)
                    BY <1>0 DEF HandlerInv, ResidentSteps
                <4> QED
                    BY <4>1, <4>2, Words DEF ByResident, ByDashboard, NoText, FromResident
            <3> QED
                BY <1>1, <3>1 DEF HandlerThrows, InsertUnanswered
        <2>2. text[m] # NoText /\ job[m].state = "active" /\ HasAttemptsLeft(job[m])
            BY <1>0, <2>1, BusyHasText DEF HandlerInv
        <2>3. AttemptFails(m)
            BY <1>1 DEF HandlerThrows, InsertUnanswered
        <2>4. /\ job' \in [Messages -> BoundedJob] /\ HasAttemptsLeft(job'[m])
              /\ \A n \in Messages \ {m} : job'[n] = job[n]
            BY <1>0, <2>2, <2>3, JobTransitions DEF TypeOK, AttemptFails
        <2>5. rows' \in Seq(Row) /\ RowNumbers \subseteq RowNumbers'
            <3>1. [by |-> m, status |-> "pending", notified |-> FALSE] \in Row
                BY DEF Row, Status, Open
            <3>2. rows' \in Seq(Row) /\ (Len(rows') = Len(rows) \/ Len(rows') = Len(rows) + 1)
                <4>1. CASE HandlerThrows(m)
                    BY <1>0, <4>1 DEF TypeOK, HandlerThrows
                <4>2. CASE InsertUnanswered(m)
                    BY <1>0, <3>1, <4>2 DEF TypeOK, InsertUnanswered, AppendRow
                <4> QED
                    BY <1>1, <4>1, <4>2
            <3> QED
                BY <1>0, <3>2 DEF TypeOK, RowNumbers
        <2>6. /\ End({m}) /\ faults' \in 0..MaxFaults
              /\ UNCHANGED <<text, received, blocks, created, trail, told>>
            BY <1>0, <1>1, <2>3 DEF HandlerThrows, InsertUnanswered, AttemptFails
        <2>7. Ends({m})
            BY <1>0, <2>1, <2>2, <2>4, <2>5, <2>6 DEF TypeOK, Ends, TablesOK
        <2> QED
            BY <2>7, EndKeepsTypes
    <1>2. CASE WorkerCrash
        <2> DEFINE running == {m \in Messages : job[m].state = "active"}
        <2>1. \A n \in running : text[n] # NoText /\ ~ByDashboard(n)
            BY <1>0, BusyHasText, NewJobs DEF HandlerInv
        <2>2. job' = [m \in Messages |-> IF m \in running THEN Stalled(job[m]) ELSE job[m]]
            BY <1>2 DEF WorkerCrash
        <2>3. \A n \in running : Stalled(job[n]) \in BoundedJob /\ HasAttemptsLeft(Stalled(job[n]))
            BY <1>0, JobTransitions DEF TypeOK, HandlerInv
        <2>4. /\ job' \in [Messages -> BoundedJob]
              /\ \A n \in running : HasAttemptsLeft(job'[n])
              /\ \A n \in Messages \ running : job'[n] = job[n]
            BY <1>0, <2>2, <2>3 DEF TypeOK
        <2>5. /\ End(running) /\ faults' \in 0..MaxFaults
              /\ UNCHANGED <<rows, text, received, blocks, created, trail, told>>
            BY <1>0, <1>2 DEF WorkerCrash
        <2>6. running \subseteq Messages
            OBVIOUS
        <2> HIDE DEF running
        <2>7. Ends(running)
            BY <1>0, <2>1, <2>4, <2>5, <2>6 DEF TypeOK, Ends, TablesOK, RowNumbers
        <2> QED
            BY <2>7, EndKeepsTypes
    <1>3. CASE GatewayCrash
        <2> DEFINE running == {m \in Messages : ByDashboard(m) /\ pc[m] # "idle"}
        <2>1. \A n \in running : text[n] # NoText /\ HasAttemptsLeft(job[n])
            BY <1>0, BusyHasText DEF HandlerInv
        <2>2. /\ End(running) /\ faults' \in 0..MaxFaults
              /\ UNCHANGED <<rows, text, job, received, blocks, created, trail, told>>
            BY <1>0, <1>3 DEF GatewayCrash
        <2>3. running \subseteq Messages
            OBVIOUS
        <2> HIDE DEF running
        <2>4. Ends(running)
            BY <1>0, <2>1, <2>2, <2>3 DEF TypeOK, Ends, TablesOK, RowNumbers
        <2> QED
            BY <2>4, EndKeepsTypes
    <1> QED
        BY <1>1, <1>2, <1>3

\* Every step keeps the types.
LEMMA TypeStep == TypeInv /\ [Next]_vars => TypeInv'
    <1> SUFFICES ASSUME TypeInv, [Next]_vars PROVE TypeInv'
        OBVIOUS
    <1>1. CASE UNCHANGED vars
        BY <1>1 DEF vars, TypeInv, TypeOK, HandlerInv, RowNumbers, ByDashboard, ByResident,
           HasAttemptsLeft
    <1>2. CASE Next
        BY <1>2, ArrivalKeepsTypes, ResidentStepKeepsTypes, UpdateStepKeepsTypes,
           AnswerKeepsTypes, QueueKeepsTypes, FailureKeepsTypes
        DEF Next, HandlerStep
    <1> QED
        BY <1>1, <1>2

\* TypeOK always holds, whatever fails and interleaves: row numbers name rows
\* there are, and no message is tried more often than its queue allows.
THEOREM EscalationsTypeCorrect == Spec => []TypeOK
    <1>1. TypeInv => TypeOK
        BY DEF TypeInv
    <1> QED
        BY TypeInit, TypeStep, <1>1, PTL DEF Spec


-----------------------------------------------------------------------------
(* What never shrinks: rows keep their authors, whatever was notified or   *)
(* put on record stays so.                                                 *)

Grows ==
    /\ received \subseteq received' /\ created \subseteq created' /\ trail \subseteq trail'
    /\ faults \in Nat /\ faults' \in Nat /\ faults <= faults'
    /\ RowNumbers \subseteq RowNumbers'
    /\ \A i \in RowNumbers : rows'[i].by = rows[i].by

\* Rows of one table and the rows of the next, seen from an author.
SameRows ==
    /\ Len(rows') = Len(rows)
    /\ \A i \in RowNumbers : rows'[i].by = rows[i].by

\* No step that inserts nothing changes who wrote what.
LEMMA RowsKeepAuthors ==
    ASSUME TypeInv, NEW m \in Messages,
           StampNotified(m) \/ UpdateStatus(m) \/ rows' = rows
    PROVE  SameRows
    <1>0. rows \in Seq(Row) /\ (pc[m] \in Holding => at[m] \in 1..Len(rows))
        BY DEF TypeInv, TypeOK, HandlerInv, RowNumbers
    <1>1. CASE StampNotified(m)
        <2>1. /\ at[m] \in 1..Len(rows)
              /\ rows' = [rows EXCEPT ![at[m]].notified = TRUE]
            BY <1>0, <1>1 DEF StampNotified, Holding
        <2>2. Len(rows') = Len(rows) /\ DOMAIN rows = 1..Len(rows)
            BY <1>0, <2>1, Stamping
        <2>3. ASSUME NEW i \in 1..Len(rows)
              PROVE  rows'[i].by = rows[i].by
            BY <1>0, <2>1, <2>2 DEF Row
        <2> QED
            BY <2>2, <2>3 DEF SameRows, RowNumbers
    <1>2. CASE UpdateStatus(m)
        <2>1. /\ at[m] \in 1..Len(rows) /\ text[m].kind \in Status
              /\ rows' = [rows EXCEPT ![at[m]].status = text[m].kind]
            BY <1>0, <1>2 DEF UpdateStatus, NewStatus, Holding, TypeInv, HandlerInv, UpdateTry
        <2>2. Len(rows') = Len(rows) /\ DOMAIN rows = 1..Len(rows)
            BY <1>0, <2>1, StatusChange
        <2>3. ASSUME NEW i \in 1..Len(rows)
              PROVE  rows'[i].by = rows[i].by
            BY <1>0, <2>1, <2>2 DEF Row
        <2> QED
            BY <2>2, <2>3 DEF SameRows, RowNumbers
    <1>3. CASE rows' = rows
        BY <1>3 DEF SameRows
    <1> QED
        BY <1>1, <1>2, <1>3

\* An INSERT adds a row of its message's, and changes no other.
LEMMA InsertAddsOne ==
    ASSUME TypeInv, NEW m \in Messages, AppendRow(m)
    PROVE  /\ Len(rows') = Len(rows) + 1
           /\ RowNumbers' = RowNumbers \cup {Len(rows) + 1}
           /\ Len(rows) + 1 \notin RowNumbers
           /\ \A i \in RowNumbers : rows'[i] = rows[i]
           /\ rows'[Len(rows) + 1] =
                  [by |-> m, status |-> "pending", notified |-> FALSE]
    BY DEF TypeInv, TypeOK, AppendRow, RowNumbers

\* The two outcomes of an INSERT.
Inserts(m) == CreateEscalation(m) \/ InsertUnanswered(m)

\* Every step of the system leaves Grows.
LEMMA StepGrows ==
    ASSUME TypeInv, [Next]_vars
    PROVE  Grows
    <1>0. faults \in Nat /\ rows \in Seq(Row)
        BY EscalationsAssumption DEF TypeInv, TypeOK
    <1> USE DEF Grows, auditVars, jobVars, Fault
    <1>1. CASE UNCHANGED vars
        BY <1>0, <1>1 DEF vars, RowNumbers
    <1>2. ASSUME NEW m \in Messages, Inserts(m)
          PROVE  Grows
        <2>1. /\ RowNumbers \subseteq RowNumbers'
              /\ \A i \in RowNumbers : rows'[i].by = rows[i].by
            BY <1>2, InsertAddsOne DEF Inserts, CreateEscalation, InsertUnanswered
        <2> QED
            BY <1>0, <1>2, <2>1 DEF Inserts, CreateEscalation, InsertUnanswered
    <1>3. ASSUME NEW m \in Messages, StampNotified(m) \/ UpdateStatus(m)
          PROVE  Grows
        <2>1. SameRows
            BY <1>3, RowsKeepAuthors
        <2> QED
            BY <1>0, <1>3, <2>1 DEF SameRows, RowNumbers, StampNotified, UpdateStatus
    <1>4. ASSUME NEW m \in Messages,
                 \/ \E words \in FromResident \cup FromSecretary : Send(m, words)
                 \/ \E words \in FromDashboard : PostStatus(m, words)
                 \/ TakeJob(m) \/ LogBlock(m) \/ Notify(m) \/ LogCreated(m)
                 \/ \E i \in RowNumbers : FindEscalation(m, i)
                 \/ NoneFound(m) \/ LogChange(m) \/ Reply(m)
                 \/ CompleteJob(m) \/ EndRequest(m)
          PROVE  Grows
        BY <1>0, <1>4
        DEF RowNumbers, Send, PostStatus, TakeJob, LogBlock, LogForbiddenActionBlocked,
            Notify, LogCreated, FindEscalation, NoneFound, LogChange, Reply, CompleteJob,
            EndRequest
    <1>5. ASSUME NEW m \in Messages,
                 \/ HandlerThrows(m) \/ UpdateThrows(m) \/ NotifyFails(m)
                 \/ WorkerCrash \/ GatewayCrash
          PROVE  Grows
        BY <1>0, <1>5
        DEF RowNumbers, HandlerThrows, UpdateThrows, NotifyFails, WorkerCrash, GatewayCrash
    <1>6. CASE Next
        <2>1. WorkerCrash \/ GatewayCrash => \E m \in Messages : TRUE
            BY DEF WorkerCrash, GatewayCrash
        <2> QED
            BY <1>2, <1>3, <1>4, <1>5, <1>6, <2>1 DEF Next, HandlerStep, Inserts
    <1> QED
        BY <1>1, <1>6
-----------------------------------------------------------------------------
(* Answers.  A handler holds a row of its own message's, or one its        *)
(* reference names, from the moment it has it to the moment it answers.    *)

Heard(i) == i \in received \/ faults > 0

AnswersInv(m) ==
    /\ text[m] = NoText => told[m] = 0
    /\ pc[m] \in {"notify", "stamp", "audit", "reply"} => rows[at[m]].by = m
    /\ pc[m] \in {"stamp", "audit", "reply"} => Heard(at[m])
    /\ pc[m] = "reply" => at[m] \in created
    /\ pc[m] \in {"update", "log", "tell"} => at[m] \in text[m].ref
    /\ pc[m] = "tell" => <<at[m], text[m].kind>> \in trail
    /\ ByResident(m) /\ (pc[m] \in {"record", "done"} \/ job[m].state = "completed") =>
           told[m] # 0
    /\ ByResident(m) /\ told[m] # 0 =>
           rows[told[m]].by = m /\ told[m] \in created /\ Heard(told[m])
    /\ ~ByResident(m) /\ told[m] # 0 =>
           told[m] \in text[m].ref /\ <<told[m], text[m].kind>> \in trail

AnswersHold == \A m \in Messages : AnswersInv(m)

\* A step that leaves a message and its handler alone, or ends the handler
\* without completing the job, keeps what its author was told true.
LEMMA AloneKeepsAnswers ==
    ASSUME TypeInv, Grows, NEW n \in Messages, AnswersInv(n),
           text'[n] = text[n], told'[n] = told[n],
           \/ pc'[n] = pc[n] /\ at'[n] = at[n] /\ job'[n].state = job[n].state
           \/ pc'[n] = "idle" /\ job'[n].state # "completed"
           \/ pc'[n] = "idle" /\ pc[n] \in {"record", "done"}
           \/ pc'[n] = "idle" /\ pc[n] = "idle" /\ job'[n].state = job[n].state
    PROVE  AnswersInv(n)'
    <1>1. told[n] \in RowNumbers \cup {0} /\ (pc[n] \in Holding => at[n] \in RowNumbers)
        BY DEF TypeInv, TypeOK, HandlerInv
    <1>2. /\ ByResident(n)' <=> ByResident(n)
          /\ \A i \in RowNumbers : Heard(i) => Heard(i)'
        BY DEF ByResident, Grows, Heard
    <1> QED
        BY <1>1, <1>2 DEF AnswersInv, Grows, Holding

\* What a step of one handler has to show.
LEMMA OneKeepsAnswers ==
    ASSUME TypeInv, Grows, AnswersHold, NEW m \in Messages, AnswersInv(m)',
           \A n \in Messages \ {m} : /\ pc'[n] = pc[n] /\ at'[n] = at[n]
                                     /\ job'[n] = job[n] /\ text'[n] = text[n]
                                     /\ told'[n] = told[n]
    PROVE  AnswersHold'
    BY AloneKeepsAnswers DEF AnswersHold

\* The initial state: nobody was told anything.
LEMMA AnswersInit == Init => AnswersHold
    BY DEF Init, AnswersHold, AnswersInv, ByResident, NoText

\* Steps of one handler keep the answers true.
LEMMA HandlerKeepsAnswers ==
    ASSUME TypeInv, Grows, AnswersHold, NEW m \in Messages,
           \/ TakeJob(m) \/ LogBlock(m) \/ CreateEscalation(m) \/ Notify(m)
           \/ StampNotified(m) \/ LogCreated(m)
           \/ \E i \in RowNumbers : FindEscalation(m, i)
           \/ NoneFound(m) \/ UpdateStatus(m) \/ LogChange(m) \/ Reply(m)
           \/ UpdateThrows(m) \/ NotifyFails(m)
    PROVE  AnswersHold'
    <1>0. /\ AnswersInv(m) /\ HandlerInv(m) /\ TypeOK
        BY DEF AnswersHold, TypeInv
    <1>00. /\ told[m] \in RowNumbers \cup {0} /\ (pc[m] \in Holding => at[m] \in RowNumbers)
           /\ \A i \in RowNumbers : Heard(i) => Heard(i)'
           /\ pc \in [Messages -> Steps] /\ at \in [Messages -> RowNumbers \cup {0}]
           /\ told \in [Messages -> RowNumbers \cup {0}] /\ job \in [Messages -> BoundedJob]
        BY <1>0 DEF TypeOK, HandlerInv, Grows, Heard
    <1>000. ~(pc[m] \in UpdateTry \cup {"apologize"} /\ ByResident(m))
        BY <1>0 DEF HandlerInv, ByResident, Status, Open
    <1> USE <1>00, <1>000, OneKeepsAnswers
        DEF Grows, GoTo, auditVars, jobVars, Holding, UpdateTry, ByResident
    <1>1. CASE TakeJob(m)
        <2>1. AnswersInv(m)'
            <3>1. FirstStep(m) \in {"block", "insert", "find"}
                BY DEF FirstStep
            <3>2. job'[m].state = "active"
                BY <1>0, <1>1, JobTaken DEF TakeJob, HandlerInv
            <3> QED
                BY <1>0, <1>1, <3>1, <3>2 DEF TakeJob, AnswersInv
        <2> QED
            BY <1>1, <2>1 DEF TakeJob
    <1>2. CASE LogBlock(m)
        <2>1. AnswersInv(m)'
            BY <1>0, <1>2 DEF LogBlock, AnswersInv
        <2> QED
            BY <1>2, <2>1 DEF LogBlock
    <1>3. CASE CreateEscalation(m)
        <2>1. rows'[at'[m]].by = m
            <3>1. AppendRow(m) /\ at'[m] = Len(rows) + 1
                BY <1>3 DEF CreateEscalation
            <3>2. rows'[Len(rows) + 1] =
                      [by |-> m, status |-> "pending", notified |-> FALSE]
                BY <3>1, InsertAddsOne
            <3> QED
                BY ONLY <3>1, <3>2
        <2>2. AnswersInv(m)'
            BY <1>0, <1>3, <2>1 DEF CreateEscalation, AfterInsert, AnswersInv
        <2> QED
            BY <1>3, <2>2 DEF CreateEscalation
    <1>4. CASE Notify(m)
        <2>1. AnswersInv(m)'
            BY <1>0, <1>4 DEF Notify, AnswersInv, Heard
        <2> QED
            BY <1>4, <2>1 DEF Notify
    <1>5. CASE StampNotified(m)
        <2>1. AnswersInv(m)'
            BY <1>0, <1>5 DEF StampNotified, AnswersInv
        <2> QED
            BY <1>5, <2>1 DEF StampNotified
    <1>6. CASE LogCreated(m)
        <2>1. AnswersInv(m)'
            BY <1>0, <1>6 DEF LogCreated, AfterAudit, AnswersInv
        <2> QED
            BY <1>6, <2>1 DEF LogCreated
    <1>7. ASSUME NEW i \in RowNumbers, FindEscalation(m, i)
          PROVE  AnswersHold'
        <2>1. AnswersInv(m)'
            BY <1>0, <1>7 DEF FindEscalation, Matches, AnswersInv
        <2> QED
            BY <1>7, <2>1 DEF FindEscalation
    <1>8. CASE NoneFound(m)
        <2>1. AnswersInv(m)'
            BY <1>0, <1>8 DEF NoneFound, AnswersInv
        <2> QED
            BY <1>8, <2>1 DEF NoneFound
    <1>9. CASE UpdateStatus(m)
        <2>1. AnswersInv(m)'
            BY <1>0, <1>9 DEF UpdateStatus, AnswersInv
        <2> QED
            BY <1>9, <2>1 DEF UpdateStatus
    <1>10. CASE LogChange(m)
        <2>1. AnswersInv(m)'
            BY <1>0, <1>10 DEF LogChange, Logged, AnswersInv
        <2> QED
            BY <1>10, <2>1 DEF LogChange
    <1>11. CASE Reply(m)
        <2>0. text[m] # NoText
            BY <1>11, BusyHasText DEF Reply
        <2>1. AnswersInv(m)'
            <3>1. CASE pc[m] = "reply"
                <4>1. ByResident(m)
                    BY <1>0, <3>1 DEF HandlerInv, ResidentSteps
                <4>2. /\ told'[m] = at[m] /\ pc'[m] = "record" /\ at[m] # 0
                      /\ UNCHANGED <<rows, text, job, at, received, created, faults>>
                    BY <1>11, <3>1 DEF Reply, Subject, AfterReply, RowNumbers
                <4>3. rows[at[m]].by = m /\ at[m] \in created /\ Heard(at[m])'
                    BY <1>0, <3>1, <4>2 DEF AnswersInv
                <4>4. told'[m] # 0 /\ text'[m] = text[m]
                    BY <4>2
                <4> QED
                    BY <2>0, <4>1, <4>2, <4>3, <4>4 DEF AnswersInv
            <3>2. CASE pc[m] = "tell"
                BY <1>0, <1>11, <2>0, <3>2 DEF Reply, Subject, AfterReply, AnswersInv
            <3>3. CASE pc[m] = "apologize"
                BY <1>0, <1>11, <2>0, <3>3 DEF Reply, Subject, AfterReply, AnswersInv
            <3> QED
                BY <1>11, <3>1, <3>2, <3>3 DEF Reply
        <2> QED
            BY <1>11, <2>1 DEF Reply
    <1>12. CASE UpdateThrows(m)
        <2>1. AnswersInv(m)'
            BY <1>0, <1>12 DEF UpdateThrows, AnswersInv
        <2> QED
            BY <1>12, <2>1 DEF UpdateThrows
    <1>13. CASE NotifyFails(m)
        <2>1. AnswersInv(m)'
            BY <1>0, <1>13 DEF NotifyFails, Fault, AnswersInv, Heard
        <2> QED
            BY <1>13, <2>1 DEF NotifyFails
    <1> QED
        BY <1>1, <1>2, <1>3, <1>4, <1>5, <1>6, <1>7, <1>8, <1>9, <1>10, <1>11, <1>12, <1>13

\* Arrivals, ends, errors and crashes keep the answers true.
LEMMA OthersKeepAnswers ==
    ASSUME TypeInv, Grows, AnswersHold,
           \/ \E m \in Messages :
                 \/ \E words \in FromResident \cup FromSecretary : Send(m, words)
                 \/ \E words \in FromDashboard : PostStatus(m, words)
                 \/ CompleteJob(m) \/ EndRequest(m)
                 \/ HandlerThrows(m) \/ InsertUnanswered(m)
           \/ WorkerCrash
           \/ GatewayCrash
    PROVE  AnswersHold'
    <1>0. /\ \A n \in Messages : AnswersInv(n) /\ HandlerInv(n)
          /\ pc \in [Messages -> Steps] /\ text \in [Messages -> {NoText} \cup FromResident
                                             \cup FromSecretary \cup FromDashboard]
          /\ job \in [Messages -> BoundedJob]
        BY DEF AnswersHold, TypeInv, TypeOK
    <1> USE <1>0 DEF auditVars, jobVars
    <1>1. ASSUME NEW m \in Messages,
                 \/ \E words \in FromResident \cup FromSecretary : Send(m, words)
                 \/ \E words \in FromDashboard : PostStatus(m, words)
          PROVE  AnswersHold'
        <2>1. PICK words \in FromResident \cup FromSecretary \cup FromDashboard :
                  Send(m, words) \/ (words \in FromDashboard /\ PostStatus(m, words))
            BY <1>1
        <2>2. told[m] = 0 /\ text[m] = NoText /\ pc[m] = "idle"
            BY <2>1 DEF Send, PostStatus, AnswersInv, HandlerInv
        <2>3. told'[m] = 0 /\ pc'[m] \in {"idle", "find"} /\ job'[m].state # "completed"
            BY <2>1, <2>2, NewJobs DEF Send, PostStatus, GoTo, HandlerInv
        <2>4. AnswersInv(m)'
            BY <2>3 DEF AnswersInv
        <2> QED
            BY <2>1, <2>4, OneKeepsAnswers DEF Send, PostStatus, GoTo
    <1>2. ASSUME NEW m \in Messages, CompleteJob(m) \/ EndRequest(m)
          PROVE  AnswersHold'
        <2>1. AnswersInv(m)'
            BY <1>2, AloneKeepsAnswers DEF CompleteJob, EndRequest, End
        <2> QED
            BY <1>2, <2>1, OneKeepsAnswers DEF CompleteJob, EndRequest, End
    <1>3. ASSUME NEW m \in Messages, HandlerThrows(m) \/ InsertUnanswered(m)
          PROVE  AnswersHold'
        <2>1. AttemptFails(m) /\ UNCHANGED <<text, told>>
            BY <1>3 DEF HandlerThrows, InsertUnanswered
        <2>2. Retried(job[m]).state # "completed"
            BY DEF Retried, BoundedJob
        <2>3. /\ pc'[m] = "idle" /\ job'[m].state # "completed"
              /\ \A n \in Messages \ {m} : pc'[n] = pc[n] /\ at'[n] = at[n] /\ job'[n] = job[n]
            BY <2>1, <2>2 DEF AttemptFails, End
        <2>4. AnswersInv(m)'
            BY <2>1, <2>3, AloneKeepsAnswers
        <2> QED
            BY <2>1, <2>3, <2>4, OneKeepsAnswers
    <1>4. CASE WorkerCrash
        <2> SUFFICES ASSUME NEW n \in Messages PROVE AnswersInv(n)'
            BY DEF AnswersHold
        <2>1. CASE job[n].state = "active"
            <3>1. Stalled(job[n]).state # "completed"
                BY DEF Stalled, BoundedJob
            <3> QED
                BY <1>4, <2>1, <3>1, AloneKeepsAnswers DEF WorkerCrash, End
        <2>2. CASE job[n].state # "active"
            BY <1>4, <2>2, AloneKeepsAnswers DEF WorkerCrash, End
        <2> QED
            BY <2>1, <2>2
    <1>5. CASE GatewayCrash
        <2> SUFFICES ASSUME NEW n \in Messages PROVE AnswersInv(n)'
            BY DEF AnswersHold
        <2>1. CASE ByDashboard(n) /\ pc[n] # "idle"
            <3>1. /\ pc'[n] = "idle" /\ UNCHANGED <<rows, text, told, received, created, trail>>
                BY <1>5, <2>1 DEF GatewayCrash, End
            <3>2. ~ByResident(n) /\ ~ByResident(n)'
                BY <2>1, <3>1, Words DEF ByDashboard, ByResident, NoText, FromResident
            <3> QED
                BY <3>1, <3>2 DEF AnswersInv
        <2>2. CASE ~(ByDashboard(n) /\ pc[n] # "idle")
            BY <1>5, <2>2, AloneKeepsAnswers DEF GatewayCrash, End
        <2> QED
            BY <2>1, <2>2
    <1> QED
        BY <1>1, <1>2, <1>3, <1>4, <1>5

\* So every step does.
LEMMA AnswersStep == TypeInv /\ AnswersHold /\ [Next]_vars => AnswersHold'
    <1> SUFFICES ASSUME TypeInv, AnswersHold, [Next]_vars PROVE AnswersHold'
        OBVIOUS
    <1>0. Grows
        BY StepGrows
    <1>1. CASE UNCHANGED vars
        BY <1>1 DEF vars, AnswersHold, AnswersInv, ByResident, Heard
    <1>2. CASE Next
        BY <1>0, <1>2, HandlerKeepsAnswers, OthersKeepAnswers DEF Next, HandlerStep
    <1> QED
        BY <1>1, <1>2

\* A resident is given the reference of an escalation of his own message that
\* is on the audit log, the secretary is told only of a change that is, to a
\* row his reference names: with references that match any number of rows.
THEOREM EscalationRepliesAreTrue == Spec => []RepliesTruthful
    <1>1. TypeInv /\ AnswersHold => RepliesTruthful
        BY DEF AnswersHold, AnswersInv, RepliesTruthful
    <1> QED
        BY TypeInit, TypeStep, AnswersInit, AnswersStep, <1>1, PTL DEF Spec

\* A resident's message is done with only when its author holds a reference to
\* an escalation, which without faults the secretary was notified of.
THEOREM DoneWithIsHeard == Spec => []DoneMeansHeard
    <1>1. TypeInv /\ AnswersHold => DoneMeansHeard
        BY DEF AnswersHold, AnswersInv, DoneMeansHeard, Heard
    <1> QED
        BY TypeInit, TypeStep, AnswersInit, AnswersStep, <1>1, PTL DEF Spec

-----------------------------------------------------------------------------
(* Changes of status: each is in the hand of the handler that is about to  *)
(* log it until it is on the audit log.                                    *)

OnRecord(i) ==
    \/ rows[i].status = "pending"
    \/ <<i, rows[i].status>> \in trail
    \/ \E m \in Messages : pc[m] = "log" /\ at[m] = i /\ text[m].kind = rows[i].status
    \/ faults > 0

\* A step that leaves the handlers about to log a change alone, and the status
\* of a row, leaves the row on record.
LEMMA AloneKeepsRecord ==
    ASSUME TypeInv, Grows, NEW i \in RowNumbers, OnRecord(i),
           rows'[i].status = rows[i].status,
           faults' > 0 \/ \A m \in Messages : pc[m] = "log" =>
                              /\ pc'[m] = "log" /\ at'[m] = at[m] /\ text'[m] = text[m]
    PROVE  OnRecord(i)'
    BY DEF OnRecord, Grows

\* Every step keeps the rows on record.
LEMMA RecordStep ==
    ASSUME TypeInv, ChangesOnRecord, [Next]_vars
    PROVE  ChangesOnRecord'
    <1>0. /\ Grows /\ TypeOK /\ \A i \in RowNumbers : OnRecord(i)
          /\ \A n \in Messages : HandlerInv(n)
        BY StepGrows DEF ChangesOnRecord, OnRecord, TypeInv
    <1> SUFFICES ASSUME NEW i \in RowNumbers' PROVE OnRecord(i)'
        BY DEF ChangesOnRecord, OnRecord
    <1> USE <1>0 DEF auditVars, jobVars, GoTo
    <1>1. CASE UNCHANGED vars
        BY <1>1 DEF vars, OnRecord, RowNumbers
    <1>2. ASSUME NEW m \in Messages, Inserts(m)
          PROVE  OnRecord(i)'
        <2>1. AppendRow(m)
            BY <1>2 DEF Inserts, CreateEscalation, InsertUnanswered
        <2>2. CASE i \in RowNumbers
            <3>1. rows'[i].status = rows[i].status
                BY <2>1, <2>2, InsertAddsOne
            <3>2. pc[m] = "insert" /\ \A n \in Messages \ {m} :
                      pc'[n] = pc[n] /\ at'[n] = at[n] /\ text'[n] = text[n]
                BY <1>2 DEF Inserts, CreateEscalation, InsertUnanswered, AttemptFails, End, TypeOK
            <3> QED
                BY <2>2, <3>1, <3>2, AloneKeepsRecord
        <2>3. CASE i \notin RowNumbers
            <3>1. RowNumbers' = RowNumbers \cup {Len(rows) + 1}
                BY <2>1, InsertAddsOne
            <3>2. rows'[Len(rows) + 1] =
                      [by |-> m, status |-> "pending", notified |-> FALSE]
                BY <2>1, InsertAddsOne
            <3>3. i = Len(rows) + 1
                BY <2>3, <3>1
            <3>4. rows'[i].status = "pending"
                BY ONLY <3>2, <3>3
            <3> QED
                BY <3>4 DEF OnRecord
        <2> QED
            BY <2>2, <2>3
    <1>3. ASSUME NEW m \in Messages, UpdateStatus(m)
          PROVE  OnRecord(i)'
        <2>1. /\ at[m] \in 1..Len(rows) /\ rows \in Seq(Row)
              /\ rows' = [rows EXCEPT ![at[m]].status = text[m].kind]
            BY <1>3 DEF UpdateStatus, NewStatus, Holding, HandlerInv, RowNumbers, TypeOK
        <2>2. i \in RowNumbers
            BY <1>3, RowsKeepAuthors DEF SameRows, RowNumbers
        <2>3. CASE i = at[m]
            <3>1. rows'[i].status = text[m].kind
                BY <2>1, <2>3 DEF Row
            <3>2. pc'[m] = "log" /\ at'[m] = i /\ text'[m] = text[m]
                BY <1>3, <2>3 DEF UpdateStatus, TypeOK
            <3> QED
                BY <3>1, <3>2 DEF OnRecord
        <2>4. CASE i # at[m]
            <3>1. rows'[i].status = rows[i].status
                BY <2>1, <2>4
            <3>2. pc[m] # "log" /\ \A n \in Messages \ {m} :
                      pc'[n] = pc[n] /\ at'[n] = at[n] /\ text'[n] = text[n]
                BY <1>3 DEF UpdateStatus, TypeOK
            <3> QED
                BY <2>2, <3>1, <3>2, AloneKeepsRecord
        <2> QED
            BY <2>3, <2>4
    <1>4. ASSUME NEW m \in Messages, LogChange(m)
          PROVE  OnRecord(i)'
        <2>1. i \in RowNumbers /\ rows' = rows
            BY <1>4 DEF LogChange, RowNumbers
        <2>2. CASE i = at[m] /\ text[m].kind = rows[i].status
            BY <1>4, <2>1, <2>2 DEF LogChange, Logged, OnRecord
        <2>3. CASE ~(i = at[m] /\ text[m].kind = rows[i].status)
            BY <1>4, <2>1, <2>3, ZenonT(60) DEF LogChange, OnRecord, TypeOK
        <2> QED
            BY <2>2, <2>3
    <1>5. ASSUME NEW m \in Messages, StampNotified(m)
          PROVE  OnRecord(i)'
        <2>1. /\ at[m] \in 1..Len(rows) /\ rows \in Seq(Row)
              /\ rows' = [rows EXCEPT ![at[m]].notified = TRUE]
            BY <1>5 DEF StampNotified, Holding, HandlerInv, RowNumbers, TypeOK
        <2>2. i \in RowNumbers
            BY <1>5, RowsKeepAuthors DEF SameRows, RowNumbers
        <2>3. rows'[i].status = rows[i].status
            BY <2>1, <2>2 DEF Row, RowNumbers
        <2>4. pc[m] # "log" /\ \A n \in Messages \ {m} :
                  pc'[n] = pc[n] /\ at'[n] = at[n] /\ text'[n] = text[n]
            BY <1>5 DEF StampNotified, TypeOK
        <2> QED
            BY <2>2, <2>3, <2>4, AloneKeepsRecord
    <1>6. ASSUME NEW m \in Messages,
                 \/ \E words \in FromResident \cup FromSecretary : Send(m, words)
                 \/ \E words \in FromDashboard : PostStatus(m, words)
                 \/ TakeJob(m) \/ LogBlock(m) \/ Notify(m) \/ LogCreated(m)
                 \/ \E k \in RowNumbers : FindEscalation(m, k)
                 \/ NoneFound(m) \/ Reply(m) \/ CompleteJob(m) \/ EndRequest(m)
          PROVE  OnRecord(i)'
        <2>1. rows' = rows
            BY <1>6 DEF Send, PostStatus, TakeJob, LogBlock, Notify, LogCreated, FindEscalation,
               NoneFound, Reply, CompleteJob, EndRequest
        <2>2. pc[m] # "log"
            BY <1>6, NewJobs
            DEF Send, PostStatus, TakeJob, LogBlock, Notify, LogCreated, FindEscalation,
                NoneFound, Reply, CompleteJob, EndRequest, HandlerInv
        <2>3. \A n \in Messages \ {m} :
                  pc'[n] = pc[n] /\ at'[n] = at[n] /\ text'[n] = text[n]
            BY <1>6
            DEF Send, PostStatus, TakeJob, LogBlock, Notify, LogCreated, FindEscalation,
                NoneFound, Reply, CompleteJob, EndRequest, End, TypeOK
        <2> QED
            BY <2>1, <2>2, <2>3, AloneKeepsRecord DEF RowNumbers
    <1>7. ASSUME NEW m \in Messages,
                 \/ HandlerThrows(m) \/ UpdateThrows(m) \/ NotifyFails(m)
                 \/ WorkerCrash \/ GatewayCrash
          PROVE  OnRecord(i)'
        <2>1. faults' > 0
            BY <1>7, EscalationsAssumption
            DEF HandlerThrows, UpdateThrows, NotifyFails, WorkerCrash, GatewayCrash, Fault, Grows
        <2> QED
            BY <2>1 DEF OnRecord
    <1>8. CASE Next
        <2>1. WorkerCrash \/ GatewayCrash => \E m \in Messages : TRUE
            BY DEF WorkerCrash, GatewayCrash
        <2> QED
            BY <1>2, <1>3, <1>4, <1>5, <1>6, <1>7, <1>8, <2>1 DEF Next, HandlerStep, Inserts
    <1> QED
        BY <1>1, <1>8

\* However chat and dashboard interleave, the status a row has is one the audit
\* log says it got, but for a change being logged and for faults.
THEOREM StatusIsOnRecord == Spec => []ChangesOnRecord
    <1>1. Init => ChangesOnRecord
        BY DEF Init, ChangesOnRecord, RowNumbers
    <1> QED
        BY TypeInit, TypeStep, RecordStep, <1>1, PTL DEF Spec

-----------------------------------------------------------------------------
(* What is counted: blocked requests are on record before what they        *)
(* escalate, and what is too many, unheard or unrecorded cost a fault.     *)

\* From its INSERT on, a handler has opened its escalation; a completed job has.
Opening == {"notify", "stamp", "audit", "reply", "record", "done"}
Opened(m) == pc[m] \in Opening \/ job[m].state = "completed"
Unaudited == {"notify", "stamp", "audit"}

CountsInv(m) ==
    /\ ~ByResident(m) => Of(m) = {}
    /\ Cardinality(Of(m)) <= faults + (IF Opened(m) THEN 1 ELSE 0)
    /\ text[m].kind = "forbidden" =>
           Cardinality(Of(m)) + (IF pc[m] = "insert" THEN 1 ELSE 0) <= blocks[m]
    /\ Cardinality(Unheard(m)) <= faults
    /\ Cardinality(Unrecorded(m)) <= faults

CountsHold == \A m \in Messages : CountsInv(m)

-----------------------------------------------------------------------------
(* Counting.                                                               *)

\* The sets that are counted are finite.
LEMMA CountedAreFinite ==
    ASSUME TypeInv, NEW m \in Messages
    PROVE  /\ IsFiniteSet(Of(m)) /\ Cardinality(Of(m)) \in Nat
           /\ IsFiniteSet(Unheard(m)) /\ Cardinality(Unheard(m)) \in Nat
           /\ IsFiniteSet(Unrecorded(m)) /\ Cardinality(Unrecorded(m)) \in Nat
    <1>1. IsFiniteSet(RowNumbers)
        BY FS_Interval DEF TypeInv, TypeOK, RowNumbers
    <1>2. Of(m) \subseteq RowNumbers /\ Unheard(m) \subseteq Of(m) /\ Unrecorded(m) \subseteq Of(m)
        BY DEF Of, Unheard, Unrecorded
    <1>3. IsFiniteSet(Of(m)) /\ IsFiniteSet(Unheard(m)) /\ IsFiniteSet(Unrecorded(m))
        BY <1>1, <1>2, FS_Subset
    <1> QED
        BY <1>3, FS_CardinalityType

\* Without an INSERT, everybody has the rows he had.
LEMMA SameOf ==
    ASSUME SameRows
    PROVE  \A n \in Messages : Of(n)' = Of(n)
    BY DEF SameRows, Of, RowNumbers

\* With one, its message has one more.
LEMMA InsertedOf ==
    ASSUME TypeInv, NEW m \in Messages, AppendRow(m)
    PROVE  /\ Of(m)' = Of(m) \cup {Len(rows) + 1}
           /\ Cardinality(Of(m))' = Cardinality(Of(m)) + 1
           /\ \A n \in Messages \ {m} : Of(n)' = Of(n)
    <1>1. /\ RowNumbers' = RowNumbers \cup {Len(rows) + 1}
          /\ Len(rows) + 1 \notin RowNumbers
          /\ \A i \in RowNumbers : rows'[i] = rows[i]
          /\ rows'[Len(rows) + 1] = [by |-> m, status |-> "pending", notified |-> FALSE]
        BY InsertAddsOne
    <1>2. rows'[Len(rows) + 1].by = m
        BY ONLY <1>1
    <1>3. Of(m)' = Of(m) \cup {Len(rows) + 1} /\ Len(rows) + 1 \notin Of(m)
        BY <1>1, <1>2 DEF Of
    <1>4. \A n \in Messages \ {m} : Of(n)' = Of(n)
        BY <1>1, <1>2 DEF Of
    <1>5. Cardinality(Of(m) \cup {Len(rows) + 1}) = Cardinality(Of(m)) + 1
        BY <1>3, CountedAreFinite, FS_AddElement
    <1> QED
        BY <1>3, <1>4, <1>5

-----------------------------------------------------------------------------
(* The two ways a step keeps the counts of a message.                      *)

\* It adds nothing to what the message opened, and leaves none of it behind
\* that is not notified or audited.
LEMMA QuietKeepsCounts ==
    ASSUME TypeInv, Grows, NEW n \in Messages, CountsInv(n),
           Of(n)' = Of(n), text'[n] = text[n], blocks'[n] = blocks[n],
           ByResident(n) /\ Opened(n) => Opened(n)',
           text[n].kind = "forbidden" /\ pc'[n] = "insert" => pc[n] = "insert",
           ByResident(n) /\ pc[n] = "notify" =>
               at[n] \in received' \/ (pc'[n] = "notify" /\ at'[n] = at[n]),
           ByResident(n) /\ pc[n] \in Unaudited =>
               at[n] \in created' \/ (pc'[n] \in Unaudited /\ at'[n] = at[n])
    PROVE  CountsInv(n)'
    <1>0. /\ IsFiniteSet(Of(n)) /\ Cardinality(Of(n)) \in Nat
          /\ IsFiniteSet(Unheard(n)) /\ Cardinality(Unheard(n)) \in Nat
          /\ IsFiniteSet(Unrecorded(n)) /\ Cardinality(Unrecorded(n)) \in Nat
          /\ blocks[n] \in Nat
        BY CountedAreFinite DEF TypeInv, TypeOK
    <1>1. ByResident(n)' <=> ByResident(n)
        BY DEF ByResident
    <1>2. Unheard(n)' \subseteq Unheard(n)
        BY DEF CountsInv, Unheard, Grows
    <1>3. Unrecorded(n)' \subseteq Unrecorded(n)
        BY DEF CountsInv, Unrecorded, Unaudited, Grows
    <1>4. /\ Cardinality(Unheard(n)') <= Cardinality(Unheard(n))
          /\ Cardinality(Unheard(n)') \in Nat
          /\ Cardinality(Unrecorded(n)') <= Cardinality(Unrecorded(n))
          /\ Cardinality(Unrecorded(n)') \in Nat
        BY <1>0, <1>2, <1>3, NoElementMore
    <1>5. Cardinality(Of(n)) <= faults' + (IF Opened(n)' THEN 1 ELSE 0)
        <2>1. CASE ByResident(n)
            BY <1>0, <2>1 DEF CountsInv, Grows
        <2>2. CASE ~ByResident(n)
            <3>1. Cardinality(Of(n)) = 0
                BY <2>2, FS_EmptySet DEF CountsInv
            <3>2. ASSUME NEW k \in Nat, NEW extra \in {0, 1}
                  PROVE  0 <= k + extra
                OBVIOUS
            <3>3. 0 <= faults' + (IF Opened(n)' THEN 1 ELSE 0)
                BY <3>2 DEF Grows
            <3> QED
                BY <3>1, <3>3
        <2> QED
            BY <2>1, <2>2
    <1>6. text[n].kind = "forbidden" =>
              Cardinality(Of(n)) + (IF pc'[n] = "insert" THEN 1 ELSE 0) <= blocks[n]
        BY <1>0 DEF CountsInv
    <1>7. Cardinality(Unheard(n)') <= faults' /\ Cardinality(Unrecorded(n)') <= faults'
        BY <1>0, <1>4 DEF CountsInv, Grows
    <1> QED
        BY <1>1, <1>5, <1>6, <1>7 DEF CountsInv

\* It is a fault, which pays for whatever the handler of the message had opened
\* and leaves behind.
LEMMA FaultKeepsCounts ==
    ASSUME TypeInv, Grows, NEW n \in Messages, CountsInv(n),
           Of(n)' = Of(n), text'[n] = text[n], blocks'[n] = blocks[n],
           faults' = faults + 1, pc'[n] = "insert" => pc[n] = "insert"
    PROVE  CountsInv(n)'
    <1>0. /\ IsFiniteSet(Of(n)) /\ Cardinality(Of(n)) \in Nat
          /\ IsFiniteSet(Unheard(n)) /\ Cardinality(Unheard(n)) \in Nat
          /\ IsFiniteSet(Unrecorded(n)) /\ Cardinality(Unrecorded(n)) \in Nat
          /\ blocks[n] \in Nat
        BY CountedAreFinite DEF TypeInv, TypeOK
    <1>1. ByResident(n)' <=> ByResident(n)
        BY DEF ByResident
    <1>2. Unheard(n)' \subseteq Unheard(n) \cup {at[n]}
        BY DEF Unheard, Grows
    <1>3. Unrecorded(n)' \subseteq Unrecorded(n) \cup {at[n]}
        BY DEF Unrecorded, Grows
    <1>4. /\ Cardinality(Unheard(n)') <= Cardinality(Unheard(n)) + 1
          /\ Cardinality(Unheard(n)') \in Nat
          /\ Cardinality(Unrecorded(n)') <= Cardinality(Unrecorded(n)) + 1
          /\ Cardinality(Unrecorded(n)') \in Nat
        BY <1>0, <1>2, <1>3, OneElementMore
    <1>5. Cardinality(Of(n)) <= faults' + (IF Opened(n)' THEN 1 ELSE 0)
        BY <1>0 DEF CountsInv, Grows
    <1>6. text[n].kind = "forbidden" =>
              Cardinality(Of(n)) + (IF pc'[n] = "insert" THEN 1 ELSE 0) <= blocks[n]
        BY <1>0 DEF CountsInv
    <1>7. Cardinality(Unheard(n)') <= faults' /\ Cardinality(Unrecorded(n)') <= faults'
        BY <1>0, <1>4 DEF CountsInv, Grows
    <1> QED
        BY <1>1, <1>5, <1>6, <1>7 DEF CountsInv

-----------------------------------------------------------------------------
(* Every step keeps the counts.                                            *)

\* The initial state: nothing was opened.
LEMMA CountsInit == Init => CountsHold
    <1> SUFFICES ASSUME Init, NEW m \in Messages PROVE CountsInv(m)
        BY DEF CountsHold
    <1>1. Of(m) = {} /\ Unheard(m) = {} /\ Unrecorded(m) = {}
        BY DEF Init, Of, Unheard, Unrecorded, RowNumbers
    <1>2. Cardinality({}) = 0
        BY FS_EmptySet
    <1> QED
        BY <1>1, <1>2, NewJobs DEF Init, CountsInv, Opened, Opening, NoText

\* Steps that are no INSERT and no fault.
LEMMA QuietStepKeepsCounts ==
    ASSUME TypeInv, Grows, CountsHold, NEW m \in Messages,
           \/ TakeJob(m) \/ Notify(m) \/ StampNotified(m) \/ LogCreated(m)
           \/ \E i \in RowNumbers : FindEscalation(m, i)
           \/ NoneFound(m) \/ UpdateStatus(m) \/ LogChange(m) \/ Reply(m)
           \/ CompleteJob(m) \/ EndRequest(m)
    PROVE  CountsHold'
    <1>0. /\ TypeOK /\ HandlerInv(m) /\ \A n \in Messages : CountsInv(n)
          /\ ~(pc[m] \in UpdateTry \cup {"apologize"} /\ ByResident(m))
        BY DEF TypeInv, HandlerInv, CountsHold, ByResident, Status, Open
    <1>1. SameRows
        <2>1. StampNotified(m) \/ UpdateStatus(m) \/ rows' = rows
            BY DEF TakeJob, Notify, LogCreated, FindEscalation, NoneFound, LogChange, Reply,
               CompleteJob, EndRequest
        <2> QED
            BY <2>1, RowsKeepAuthors
    <1>2. \A n \in Messages : Of(n)' = Of(n)
        BY <1>1, SameOf
    <1>3. /\ text' = text /\ blocks' = blocks
          /\ \A n \in Messages \ {m} : pc'[n] = pc[n] /\ at'[n] = at[n] /\ job'[n] = job[n]
        BY <1>0
        DEF TypeOK, TakeJob, Notify, StampNotified, LogCreated, FindEscalation, NoneFound,
            UpdateStatus, LogChange, Reply, CompleteJob, EndRequest, GoTo, End, jobVars,
            auditVars
    <1>4. ASSUME NEW n \in Messages, n # m
          PROVE  CountsInv(n)'
        BY <1>0, <1>2, <1>3, <1>4, QuietKeepsCounts DEF Opened, Unaudited
    <1>5. CountsInv(m)'
        <2> USE <1>0, <1>2, <1>3, QuietKeepsCounts
            DEF TypeOK, Opened, Opening, Unaudited, UpdateTry, GoTo, jobVars, auditVars
        <2>1. CASE TakeJob(m)
            <3>1. FirstStep(m) \in {"block", "insert", "find"}
                  /\ (text[m].kind = "forbidden" => FirstStep(m) = "block")
                BY DEF FirstStep
            <3>2. pc[m] = "idle"
                BY <2>1, NewJobs DEF TakeJob, HandlerInv
            <3>3. job[m].state = "waiting" /\ pc'[m] = FirstStep(m)
                BY <2>1 DEF TakeJob
            <3> QED
                BY <3>1, <3>2, <3>3
        <2>2. CASE Notify(m)
            BY <2>2 DEF Notify
        <2>3. CASE StampNotified(m)
            BY <2>3 DEF StampNotified
        <2>4. CASE LogCreated(m)
            BY <2>4 DEF LogCreated, AfterAudit
        <2>5. ASSUME NEW i \in RowNumbers, FindEscalation(m, i)
              PROVE  CountsInv(m)'
            BY <2>5 DEF FindEscalation
        <2>6. CASE NoneFound(m)
            BY <2>6 DEF NoneFound
        <2>7. CASE UpdateStatus(m)
            BY <2>7 DEF UpdateStatus
        <2>8. CASE LogChange(m)
            BY <2>8 DEF LogChange
        <2>9. CASE Reply(m)
            BY <2>9 DEF Reply, AfterReply
        <2>10. CASE CompleteJob(m)
            <3>1. pc[m] \in {"record", "done"} /\ pc'[m] = "idle"
                BY <2>10 DEF CompleteJob, End
            <3>2. job'[m].state = "completed"
                BY <2>10 DEF CompleteJob, Completed, BoundedJob
            <3> QED
                BY <3>1, <3>2
        <2>11. CASE EndRequest(m)
            <3>1. ~ByResident(m)
                BY <2>11, Words, SMTT(30)
                DEF EndRequest, ByDashboard, ByResident, NoText, FromResident
            <3> QED
                BY <2>11, <3>1 DEF EndRequest, End
        <2> QED
            BY <2>1, <2>2, <2>3, <2>4, <2>5, <2>6, <2>7, <2>8, <2>9, <2>10, <2>11
    <1> QED
        BY <1>4, <1>5 DEF CountsHold

\* Faults that insert nothing.
LEMMA FaultStepKeepsCounts ==
    ASSUME TypeInv, Grows, CountsHold,
           \/ \E m \in Messages : HandlerThrows(m) \/ UpdateThrows(m) \/ NotifyFails(m)
           \/ WorkerCrash
           \/ GatewayCrash
    PROVE  CountsHold'
    <1>1. /\ faults' = faults + 1
          /\ UNCHANGED <<rows, text, blocks>>
        BY DEF HandlerThrows, UpdateThrows, NotifyFails, WorkerCrash, GatewayCrash, Fault,
           jobVars, auditVars
    <1>2. \A n \in Messages : pc'[n] = "insert" => pc[n] = "insert"
        BY DEF HandlerThrows, UpdateThrows, NotifyFails, WorkerCrash, GatewayCrash,
           AttemptFails, End, GoTo, TypeInv, TypeOK
    <1>3. \A n \in Messages : Of(n)' = Of(n)
        BY <1>1 DEF Of, RowNumbers
    <1> QED
        BY <1>1, <1>2, <1>3, FaultKeepsCounts DEF CountsHold

\* Arrivals, the block, and the two outcomes of an INSERT.
LEMMA LoudStepKeepsCounts ==
    ASSUME TypeInv, Grows, CountsHold, NEW m \in Messages,
           \/ \E words \in FromResident \cup FromSecretary : Send(m, words)
           \/ \E words \in FromDashboard : PostStatus(m, words)
           \/ LogBlock(m) \/ Inserts(m)
    PROVE  CountsHold'
    <1>0. /\ TypeOK /\ HandlerInv(m) /\ \A n \in Messages : CountsInv(n)
          /\ Cardinality(Of(m)) \in Nat /\ blocks[m] \in Nat /\ faults \in Nat
          /\ Cardinality(Unheard(m)) \in Nat /\ Cardinality(Unrecorded(m)) \in Nat
        BY CountedAreFinite DEF TypeInv, TypeOK, CountsHold, Grows
    <1>1. \A n \in Messages \ {m} : /\ pc'[n] = pc[n] /\ at'[n] = at[n] /\ job'[n] = job[n]
                                    /\ text'[n] = text[n] /\ blocks'[n] = blocks[n]
                                    /\ Of(n)' = Of(n)
        <2>1. \A n \in Messages \ {m} : Of(n)' = Of(n)
            <3>1. CASE rows' = rows
                BY <3>1 DEF Of, RowNumbers
            <3>2. CASE AppendRow(m)
                BY <3>2, InsertedOf
            <3> QED
                BY <3>1, <3>2
                   DEF Send, PostStatus, LogBlock, Inserts, CreateEscalation, InsertUnanswered
        <2> QED
            BY <1>0, <2>1
            DEF TypeOK, Send, PostStatus, LogBlock, LogForbiddenActionBlocked, Inserts,
                CreateEscalation, InsertUnanswered, AttemptFails, End, GoTo, jobVars, auditVars
    <1>2. ASSUME NEW n \in Messages, n # m
          PROVE  CountsInv(n)'
        BY <1>0, <1>1, <1>2, QuietKeepsCounts DEF Opened, Unaudited
    <1>3. CountsInv(m)'
        <2>1. ASSUME NEW words \in FromResident \cup FromSecretary \cup FromDashboard,
                     Send(m, words) \/ PostStatus(m, words)
              PROVE  CountsInv(m)'
            <3>1. text[m] = NoText /\ pc'[m] # "insert"
                BY <1>0, <2>1 DEF Send, PostStatus, GoTo, TypeOK, HandlerInv
            <3>2. Of(m) = {} /\ Of(m)' = {}
                <4>1. ~ByResident(m)
                    BY <3>1 DEF ByResident, NoText
                <4>2. Of(m)' = Of(m)
                    BY <2>1 DEF Send, PostStatus, Of, RowNumbers
                <4> QED
                    BY <1>0, <4>1, <4>2 DEF CountsInv
            <3>3. Unheard(m)' = {} /\ Unrecorded(m)' = {} /\ Cardinality({}) = 0
                BY <3>2, FS_EmptySet DEF Unheard, Unrecorded
            <3>4. blocks'[m] \in Nat /\ faults' \in Nat
                BY <1>0, <2>1 DEF Send, PostStatus, auditVars
            <3> QED
                BY <3>1, <3>2, <3>3, <3>4 DEF CountsInv
        <2>2. CASE LogBlock(m)
            <3>1. /\ blocks'[m] = blocks[m] + 1 /\ pc[m] = "block"
                  /\ UNCHANGED <<rows, text, received, created, faults, job, at>>
                  /\ pc'[m] = "insert"
                BY <1>0, <2>2
                DEF TypeOK, LogBlock, LogForbiddenActionBlocked, GoTo, jobVars
            <3>2. Of(m)' = Of(m) /\ (ByResident(m)' <=> ByResident(m))
                BY <3>1 DEF Of, RowNumbers, ByResident
            <3>3. Unheard(m)' = Unheard(m) /\ Unrecorded(m)' = Unrecorded(m)
                BY <3>1, <3>2 DEF Unheard, Unrecorded
            <3>4. Cardinality(Of(m)) <= faults + (IF Opened(m)' THEN 1 ELSE 0)
                BY <1>0, <3>1 DEF CountsInv, Opened, Opening
            <3> QED
                BY <1>0, <3>1, <3>2, <3>3, <3>4 DEF CountsInv
        <2>3. CASE Inserts(m)
            <3>1. AppendRow(m) /\ pc[m] = "insert"
                BY <2>3 DEF Inserts, CreateEscalation, InsertUnanswered
            <3>2. /\ UNCHANGED <<text, received, created, blocks>> /\ ByResident(m)
                BY <1>0, <2>3, <3>1
                DEF Inserts, CreateEscalation, InsertUnanswered, jobVars, auditVars, HandlerInv,
                    ResidentSteps
            <3>3. /\ Of(m)' = Of(m) \cup {Len(rows) + 1}
                  /\ Cardinality(Of(m))' = Cardinality(Of(m)) + 1
                BY <3>1, InsertedOf
            <3>4. ~Opened(m)
                BY <1>0, <3>1, <3>2, Words
                DEF Opened, Opening, HandlerInv, ByDashboard, ByResident, TypeOK, NoText,
                    FromResident
            <3>5. text[m].kind = "forbidden" => Cardinality(Of(m)) + 1 <= blocks[m]
                BY <1>0, <3>1 DEF CountsInv
            <3>6. Cardinality(Of(m)) <= faults
                BY <1>0, <3>4 DEF CountsInv
            <3>7. CASE CreateEscalation(m)
                <4>1. pc'[m] = "notify" /\ at'[m] = Len(rows) + 1 /\ faults' = faults
                    BY <1>0, <3>7 DEF CreateEscalation, AfterInsert, GoTo, TypeOK
                <4>2. Unheard(m)' \subseteq Unheard(m) /\ Unrecorded(m)' \subseteq Unrecorded(m)
                    BY <3>1, <3>2, <3>3, <4>1 DEF Unheard, Unrecorded
                <4>3. /\ Cardinality(Unheard(m)') <= faults
                      /\ Cardinality(Unrecorded(m)') <= faults
                    <5>1. /\ Cardinality(Unheard(m)') <= Cardinality(Unheard(m))
                          /\ Cardinality(Unheard(m)') \in Nat
                          /\ Cardinality(Unrecorded(m)') <= Cardinality(Unrecorded(m))
                          /\ Cardinality(Unrecorded(m)') \in Nat
                        BY <4>2, CountedAreFinite, NoElementMore
                    <5> QED
                        BY <1>0, <5>1 DEF CountsInv
                <4>4. Opened(m)'
                    BY <4>1 DEF Opened, Opening
                <4> QED
                    BY <1>0, <3>2, <3>3, <3>5, <3>6, <4>1, <4>3, <4>4 DEF CountsInv, ByResident
            <3>8. CASE InsertUnanswered(m)
                <4>1. pc'[m] = "idle" /\ faults' = faults + 1
                    BY <1>0, <3>8 DEF InsertUnanswered, AttemptFails, End, Fault, TypeOK
                <4>2. /\ Unheard(m)' \subseteq Unheard(m) \cup {Len(rows) + 1}
                      /\ Unrecorded(m)' \subseteq Unrecorded(m) \cup {Len(rows) + 1}
                    BY <3>1, <3>2, <3>3 DEF Unheard, Unrecorded
                <4>3. /\ Cardinality(Unheard(m)') <= faults + 1
                      /\ Cardinality(Unrecorded(m)') <= faults + 1
                    <5>1. /\ Cardinality(Unheard(m)') <= Cardinality(Unheard(m)) + 1
                          /\ Cardinality(Unheard(m)') \in Nat
                          /\ Cardinality(Unrecorded(m)') <= Cardinality(Unrecorded(m)) + 1
                          /\ Cardinality(Unrecorded(m)') \in Nat
                        BY <4>2, CountedAreFinite, OneElementMore, ZenonT(60)
                    <5> QED
                        BY <1>0, <5>1 DEF CountsInv
                <4> QED
                    BY <1>0, <3>2, <3>3, <3>5, <3>6, <4>1, <4>3 DEF CountsInv, ByResident
            <3> QED
                BY <2>3, <3>7, <3>8 DEF Inserts
        <2> QED
            BY <2>1, <2>2, <2>3
    <1> QED
        BY <1>2, <1>3 DEF CountsHold

\* So every step does.
LEMMA CountsStep == TypeInv /\ CountsHold /\ [Next]_vars => CountsHold'
    <1> SUFFICES ASSUME TypeInv, CountsHold, [Next]_vars PROVE CountsHold'
        OBVIOUS
    <1>0. Grows
        BY StepGrows
    <1>1. CASE UNCHANGED vars
        BY <1>1 DEF vars, CountsHold, CountsInv, Of, Unheard, Unrecorded, RowNumbers, Opened,
           ByResident
    <1>2. CASE Next
        BY <1>0, <1>2, QuietStepKeepsCounts, FaultStepKeepsCounts, LoudStepKeepsCounts
        DEF Next, HandlerStep, Inserts
    <1> QED
        BY <1>1, <1>2

-----------------------------------------------------------------------------
(* Stamps: what is stamped as notified was notified.                       *)

StampsHold ==
    /\ \A m \in Messages : pc[m] = "stamp" => at[m] \in received
    /\ \A i \in RowNumbers : rows[i].notified => i \in received

\* Every step keeps that so.
LEMMA StampsStep == TypeInv /\ StampsHold /\ [Next]_vars => StampsHold'
    <1> SUFFICES ASSUME TypeInv, StampsHold, [Next]_vars PROVE StampsHold'
        OBVIOUS
    <1>0. /\ received \subseteq received' /\ RowNumbers \subseteq RowNumbers' /\ TypeOK
          /\ \A m \in Messages : pc[m] \in Holding => at[m] \in RowNumbers
        BY StepGrows DEF Grows, TypeInv, HandlerInv
    <1>1. ASSUME NEW m \in Messages, pc'[m] = "stamp"
          PROVE  at'[m] \in received'
        <2>1. CASE pc[m] = "stamp" /\ at'[m] = at[m]
            BY <1>0, <2>1 DEF StampsHold
        <2>2. CASE Notify(m)
            BY <1>0, <2>2 DEF Notify
        <2>3. CASE UNCHANGED vars
            BY <1>1, <2>1, <2>3 DEF vars
        <2>4. CASE Next
            <3> DEFINE stays == pc[m] = "stamp" /\ at'[m] = at[m]
            <3> USE <1>0, <1>1 DEF GoTo, TypeOK
            <3>1. ASSUME NEW k \in Messages,
                         \/ \E words \in FromResident \cup FromSecretary : Send(k, words)
                         \/ \E words \in FromDashboard : PostStatus(k, words)
                         \/ TakeJob(k) \/ LogBlock(k) \/ CreateEscalation(k) \/ StampNotified(k)
                         \/ LogCreated(k) \/ Reply(k)
                  PROVE  stays
                BY <3>1
                DEF Send, PostStatus, TakeJob, FirstStep, LogBlock, CreateEscalation, AfterInsert,
                    StampNotified, LogCreated, AfterAudit, Reply, AfterReply
            <3>2. ASSUME NEW k \in Messages,
                         \/ \E i \in RowNumbers : FindEscalation(k, i)
                         \/ NoneFound(k) \/ UpdateStatus(k) \/ LogChange(k)
                         \/ CompleteJob(k) \/ EndRequest(k)
                  PROVE  stays
                BY <3>2
                DEF FindEscalation, NoneFound, UpdateStatus, LogChange, CompleteJob, EndRequest,
                    End
            <3>3. ASSUME NEW k \in Messages,
                         \/ HandlerThrows(k) \/ UpdateThrows(k) \/ NotifyFails(k)
                         \/ InsertUnanswered(k)
                  PROVE  stays
                BY <3>3
                DEF HandlerThrows, UpdateThrows, NotifyFails, InsertUnanswered, AttemptFails, End
            <3>4. WorkerCrash \/ GatewayCrash => stays
                BY DEF WorkerCrash, GatewayCrash, End
            <3>5. ASSUME NEW k \in Messages, Notify(k)
                  PROVE  stays \/ Notify(m)
                BY <3>5 DEF Notify
            <3>6. stays \/ Notify(m)
                BY <2>4, <3>1, <3>2, <3>3, <3>4, <3>5 DEF Next, HandlerStep
            <3> QED
                BY <2>1, <2>2, <3>6
        <2> QED
            BY <2>3, <2>4
    <1>2. ASSUME NEW i \in RowNumbers', rows'[i].notified
          PROVE  i \in received'
        <2>1. CASE i \in RowNumbers /\ rows[i].notified
            BY <1>0, <2>1 DEF StampsHold
        <2>2. ASSUME NEW m \in Messages, StampNotified(m)
              PROVE  i \in received'
            <3>1. /\ at[m] \in 1..Len(rows) /\ rows \in Seq(Row) /\ at[m] \in received
                  /\ rows' = [rows EXCEPT ![at[m]].notified = TRUE]
                BY <1>0, <2>2 DEF StampNotified, Holding, RowNumbers, TypeOK, StampsHold
            <3>2. i \in RowNumbers
                BY <2>2, RowsKeepAuthors DEF SameRows, RowNumbers
            <3>3. i = at[m] \/ rows'[i] = rows[i]
                BY <3>1, <3>2 DEF RowNumbers
            <3> QED
                BY <1>0, <1>2, <2>1, <3>1, <3>2, <3>3
        <2>3. ASSUME NEW m \in Messages, UpdateStatus(m)
              PROVE  i \in received'
            <3>1. /\ at[m] \in 1..Len(rows) /\ rows \in Seq(Row)
                  /\ rows' = [rows EXCEPT ![at[m]].status = text[m].kind]
                BY <1>0, <2>3 DEF UpdateStatus, NewStatus, Holding, RowNumbers, TypeOK
            <3>2. i \in RowNumbers
                BY <2>3, RowsKeepAuthors DEF SameRows, RowNumbers
            <3>3. rows'[i].notified = rows[i].notified
                BY <3>1, <3>2 DEF Row, RowNumbers
            <3> QED
                BY <1>2, <2>1, <3>2, <3>3
        <2>4. ASSUME NEW m \in Messages, AppendRow(m)
              PROVE  i \in received'
            <3>1. /\ RowNumbers' = RowNumbers \cup {Len(rows) + 1}
                  /\ \A k \in RowNumbers : rows'[k] = rows[k]
                  /\ rows'[Len(rows) + 1] =
                         [by |-> m, status |-> "pending", notified |-> FALSE]
                BY <2>4, InsertAddsOne
            <3>2. rows'[Len(rows) + 1].notified = FALSE
                BY ONLY <3>1
            <3> QED
                BY <1>2, <2>1, <3>1, <3>2
        <2>5. CASE rows' = rows
            BY <1>2, <2>1, <2>5 DEF RowNumbers
        <2>6. CASE Next
            <3>1. \/ \E m \in Messages : StampNotified(m) \/ UpdateStatus(m) \/ AppendRow(m)
                  \/ rows' = rows
                BY <2>6
                DEF Next, HandlerStep, Send, PostStatus, TakeJob, LogBlock, CreateEscalation,
                    Notify, LogCreated, FindEscalation, NoneFound, LogChange, Reply, CompleteJob,
                    EndRequest, HandlerThrows, UpdateThrows, NotifyFails, InsertUnanswered,
                    WorkerCrash, GatewayCrash
            <3> QED
                BY <2>2, <2>3, <2>4, <2>5, <3>1
        <2> QED
            BY <2>5, <2>6 DEF vars
    <1> QED
        BY <1>1, <1>2 DEF StampsHold

-----------------------------------------------------------------------------
(* What follows.                                                           *)

\* Every escalation of a forbidden request has its blocked_forbidden_action
\* row, written before it, however often the handler fails and starts anew.
THEOREM BlocksAreOnRecord == Spec => []BlocksOnRecord
    <1>1. TypeInv /\ CountsHold => BlocksOnRecord
        <2> SUFFICES ASSUME TypeInv, CountsHold, NEW m \in Messages,
                            text[m].kind = "forbidden"
                     PROVE  Cardinality(Of(m)) <= blocks[m]
            BY DEF BlocksOnRecord
        <2>1. Cardinality(Of(m)) \in Nat /\ blocks[m] \in Nat
            BY CountedAreFinite DEF TypeInv, TypeOK
        <2> QED
            BY <2>1 DEF CountsHold, CountsInv
    <1> QED
        BY TypeInit, TypeStep, CountsInit, CountsStep, <1>1, PTL DEF Spec

\* A message opens one escalation, and one more for each fault at most: being
\* both forbidden and a trigger does not escalate it twice.
THEOREM ExtraEscalationsCostFaults == Spec => []EscalationsCostFaults
    <1>1. TypeInv /\ CountsHold => EscalationsCostFaults
        <2> SUFFICES ASSUME TypeInv, CountsHold, NEW m \in Messages
                     PROVE  Cardinality(Of(m)) <= 1 + faults
            BY DEF EscalationsCostFaults
        <2>1. Cardinality(Of(m)) \in Nat /\ faults \in Nat
            BY CountedAreFinite, EscalationsAssumption DEF TypeInv, TypeOK
        <2> QED
            BY <2>1 DEF CountsHold, CountsInv
    <1> QED
        BY TypeInit, TypeStep, CountsInit, CountsStep, <1>1, PTL DEF Spec

\* The secretary misses an escalation, and the audit log its creation, only for
\* a fault each time, and what is stamped as notified was not missed.
THEOREM OmissionsArePaidFor == Spec => []OmissionsCostFaults
    <1>1. Init => StampsHold
        BY DEF Init, StampsHold, RowNumbers
    <1>2. CountsHold /\ StampsHold => OmissionsCostFaults
        BY DEF CountsHold, CountsInv, StampsHold, OmissionsCostFaults
    <1> QED
        BY TypeInit, TypeStep, CountsInit, CountsStep, StampsStep, <1>1, <1>2, PTL DEF Spec
=============================================================================
