---------------------------- MODULE TicketsProofs ---------------------------
(***************************************************************************)
(* Proofs of the properties of Tickets, for any messages, concurrency,     *)
(* years and faults.  The type invariant comes first and every other proof *)
(* uses it; the properties that count tickets follow, each from an         *)
(* invariant of its own.                                                   *)
(***************************************************************************)
EXTENDS Tickets, JobsProofs

Ticket == [id : TicketId, by : Messages]
Rows == 1..Len(tickets)

\* The steps of a handler that has filed its ticket.
Holding == {"audit", "reply", "record"}

\* What is true of the handler and the job of a message.
HandlerInv(m) ==
    /\ HasAttemptsLeft(job[m])
    /\ pc[m] # "idle" => job[m].state = "active"
    /\ pc[m] = "insert" => drawn[m] \in TicketId
    /\ pc[m] \in Holding => filed[m] \in Rows /\ tickets[filed[m]].by = m
    /\ pc[m] = "record" => replied[m] = filed[m]
    /\ job[m].state = "completed" => replied[m] \in Rows /\ tickets[replied[m]].by = m
    /\ job[m].state = "failed" => job[m].attempts = MaxAttempts \/ faults > 0

TypeInv ==
    /\ TypeOK
    /\ \A m \in Messages : HandlerInv(m)

\* Numbers: a year's numbers are in use without a gap, and a drawn number is
\* one of them or the next.
NumbersInv ==
    /\ NumberedInOrder
    /\ \A y \in Years : \A k \in 1..Cardinality(Of(y)) :
           \E i \in Of(y) : tickets[i].id.number = k
    /\ \A m \in Messages : pc[m] = "insert" =>
           drawn[m].number <= Cardinality(Of(drawn[m].year)) + 1

\* Attempts: what was filed since a handler drew its number is others', and
\* has not cost it an attempt yet.
Others(m) == {i \in Rows : tickets[i].by # m}
SinceDraw(m) ==
    {i \in Rows : /\ tickets[i].id.year = drawn[m].year
                  /\ tickets[i].id.number >= drawn[m].number}

AttemptsInv(m) ==
    /\ job[m].attempts <= faults + Cardinality(Others(m))
    /\ pc[m] = "insert" =>
           /\ SinceDraw(m) \subseteq Others(m)
           /\ job[m].attempts <= faults + Cardinality(Others(m) \ SinceDraw(m))

\* Tickets: a handler that has filed its ticket, or has ended well, accounts
\* for one of them; faults account for the others.
CountsInv(m) ==
    /\ Cardinality(Filed(m)) <=
           faults + (IF pc[m] \in Holding \/ job[m].state = "completed" THEN 1 ELSE 0)
    /\ Cardinality(Filed(m)) <= audits[m] + (IF pc[m] = "audit" THEN 1 ELSE 0) + faults

AttemptsHold == \A m \in Messages : AttemptsInv(m)
CountsHold == \A m \in Messages : CountsInv(m)

-----------------------------------------------------------------------------
(* The type invariant.                                                     *)

\* The table never loses a row, nor the count of the faults any.
Grows ==
    /\ tickets' \in Seq(Ticket) /\ Len(tickets) <= Len(tickets') /\ Rows \subseteq Rows'
    /\ \A i \in Rows : tickets'[i] = tickets[i]
    /\ faults' \in 0..MaxFaults /\ faults <= faults'

\* The handler and the job of a message are left alone.
Still(n) ==
    /\ job'[n] = job[n] /\ pc'[n] = pc[n]
    /\ drawn'[n] = drawn[n] /\ filed'[n] = filed[n]
    /\ audits'[n] = audits[n] /\ replied'[n] = replied[n]

\* Inserting a row adds one at the end, of the number that was drawn.
LEMMA InsertAddsOne ==
    ASSUME TypeOK, NEW m \in Messages, drawn[m] \in TicketId, Insert(m)
    PROVE  /\ tickets' \in Seq(Ticket) /\ Len(tickets') = Len(tickets) + 1
           /\ Rows' = Rows \cup {Len(tickets) + 1} /\ Len(tickets) + 1 \notin Rows
           /\ \A i \in Rows : tickets'[i] = tickets[i]
           /\ tickets'[Len(tickets) + 1] = [id |-> drawn[m], by |-> m]
    <1> DEFINE new == [id |-> drawn[m], by |-> m]
    <1>1. tickets \in Seq(Ticket) /\ new \in Ticket /\ Len(tickets) \in Nat
        BY DEF TypeOK, Ticket
    <1>2. tickets' = Append(tickets, new)
        BY DEF Insert
    <1> HIDE DEF new
    <1>3. /\ tickets' \in Seq(Ticket) /\ Len(tickets') = Len(tickets) + 1
          /\ \A i \in Rows : tickets'[i] = tickets[i]
          /\ tickets'[Len(tickets) + 1] = new
        BY <1>1, <1>2 DEF Rows
    <1> QED
        BY <1>1, <1>3 DEF Rows, new

\* Every step lets the table and the count grow.
LEMMA StepGrows == ASSUME TypeInv, [Next]_vars PROVE Grows
    <1>0. tickets \in Seq(Ticket) /\ faults \in 0..MaxFaults /\ MaxFaults \in Nat
        BY TicketsAssumption DEF TypeInv, TypeOK, Ticket
    <1>1. \/ tickets' = tickets
          \/ \E m \in Messages : pc[m] = "insert" /\ Insert(m)
        BY DEF Next, HandlerStep, NewYear, ResidentSends, TakeJob, DrawTicket, InsertTicket,
           InsertCollides, LogAction, Reply, CompleteJob, HandlerThrows, InsertUnanswered,
           Crash, tableVars, vars
    <1>2. faults' = faults \/ (faults < MaxFaults /\ faults' = faults + 1)
        BY DEF Next, HandlerStep, NewYear, ResidentSends, TakeJob, DrawTicket, InsertTicket,
           InsertCollides, LogAction, Reply, CompleteJob, HandlerThrows, InsertUnanswered,
           Crash, Fault, vars
    <1>3. faults' \in 0..MaxFaults /\ faults <= faults'
        BY <1>0, <1>2
    <1>4. CASE tickets' = tickets
        BY <1>0, <1>3, <1>4 DEF Grows, Rows
    <1>5. ASSUME NEW m \in Messages, pc[m] = "insert", Insert(m)
          PROVE  Grows
        <2>1. Len(tickets) \in Nat
            BY <1>0
        <2>2. /\ tickets' \in Seq(Ticket) /\ Len(tickets') = Len(tickets) + 1
              /\ Rows' = Rows \cup {Len(tickets) + 1}
              /\ \A i \in Rows : tickets'[i] = tickets[i]
            BY <1>5, InsertAddsOne DEF TypeInv, HandlerInv
        <2> QED
            BY <1>3, <2>1, <2>2 DEF Grows
    <1> QED
        BY <1>1, <1>4, <1>5

\* A step of the handler of m, or on its job, leaves the other messages alone.
LEMMA OthersStill ==
    ASSUME TypeInv, NEW m \in Messages, NEW n \in Messages, n # m,
           ResidentSends(m) \/ HandlerStep(m) \/ HandlerThrows(m) \/ InsertUnanswered(m)
    PROVE  Still(n)
    BY DEF TypeInv, TypeOK, Still, ResidentSends, HandlerStep, TakeJob, DrawTicket,
       InsertTicket, InsertCollides, LogAction, Reply, CompleteJob, HandlerThrows,
       InsertUnanswered, AttemptFails, End, GoTo, tableVars, localVars

\* What is left alone stays as it should be.
LEMMA StillKeepsHandler ==
    ASSUME TypeInv, Grows, NEW n \in Messages, Still(n)
    PROVE  HandlerInv(n)'
    <1>1. HandlerInv(n) /\ faults \in Nat /\ faults' \in Nat
        BY DEF TypeInv, TypeOK, Grows
    <1> QED
        BY <1>1 DEF Grows, Still, HandlerInv, HasAttemptsLeft, Holding

\* The initial state.
LEMMA TypeInit == Init => TypeInv
    BY NewJobs, TicketsAssumption
    DEF Init, TypeInv, TypeOK, HandlerInv, Years, Steps, Holding, Rows

\* A handler that stops, its job completed, retried or stalled.
LEMMA EndKeepsTypes ==
    ASSUME TypeInv, Grows, year' \in Years, NEW S \in SUBSET Messages, End(S),
           audits' = audits, replied' = replied,
           job' \in [Messages -> BoundedJob],
           \A n \in S : /\ HasAttemptsLeft(job'[n])
                        /\ job'[n].state = "completed" =>
                               job[n].state = "active" /\ pc[n] = "record"
                        /\ job'[n].state = "failed" =>
                               job'[n].attempts = MaxAttempts \/ faults' > 0,
           \A n \in Messages \ S : job'[n] = job[n]
    PROVE  TypeInv'
    <1>0. /\ TypeOK /\ \A n \in Messages : HandlerInv(n)
          /\ Len(tickets) \in Nat /\ Len(tickets') \in Nat /\ Len(tickets) <= Len(tickets')
        BY DEF TypeInv, TypeOK, Grows, Rows
    <1>1. TypeOK'
        <2>1. pc' \in [Messages -> Steps] /\ drawn' \in [Messages -> TicketId \cup {NoTicket}]
            BY <1>0 DEF TypeOK, End, Steps
        <2>2. /\ filed' \in [Messages -> 0..Len(tickets')]
              /\ replied' \in [Messages -> 0..Len(tickets')]
            BY <1>0 DEF TypeOK, End
        <2> QED
            BY <1>0, <2>1, <2>2 DEF TypeOK, Grows, Ticket
    <1>2. ASSUME NEW n \in S
          PROVE  HandlerInv(n)'
        BY <1>0, <1>2 DEF HandlerInv, End, Holding, Grows
    <1>3. ASSUME NEW n \in Messages \ S
          PROVE  HandlerInv(n)'
        BY <1>0, <1>3, StillKeepsHandler DEF Still, End, TypeOK
    <1> QED
        BY <1>1, <1>2, <1>3 DEF TypeInv

\* Steps of a handler other than its end, and the message's arrival.
LEMMA MoveKeepsTypes ==
    ASSUME TypeInv, Grows, NEW m \in Messages,
           \/ ResidentSends(m) \/ TakeJob(m) \/ DrawTicket(m) \/ InsertTicket(m)
           \/ LogAction(m) \/ Reply(m)
    PROVE  TypeInv'
    <1>0. /\ TypeOK /\ \A n \in Messages : HandlerInv(n)
          /\ Len(tickets) \in Nat /\ Len(tickets') \in Nat /\ Len(tickets) <= Len(tickets')
        BY DEF TypeInv, TypeOK, Grows
    <1>1. ASSUME NEW n \in Messages, n # m
          PROVE  HandlerInv(n)'
        BY <1>1, StillKeepsHandler, OthersStill DEF HandlerStep
    <1>2. TypeOK' /\ HandlerInv(m)'
        <2> USE <1>0 DEF TypeOK, GoTo, tableVars, localVars, Steps
        <2>1. CASE ResidentSends(m)
            <3>1. job' \in [Messages -> BoundedJob] /\ job'[m] = NewJob
                BY <2>1, NewJobs DEF ResidentSends
            <3>2. pc[m] = "idle"
                BY <2>1 DEF HandlerInv, ResidentSends
            <3> QED
                BY <2>1, <3>1, <3>2, NewJobs DEF ResidentSends, HandlerInv, Holding
        <2>2. CASE TakeJob(m)
            <3>1. /\ job' \in [Messages -> BoundedJob] /\ HasAttemptsLeft(job'[m])
                  /\ job'[m].state = "active"
                BY <2>2, JobTaken DEF TakeJob, HandlerInv
            <3> QED
                BY <2>2, <3>1 DEF TakeJob, HandlerInv, Holding
        <2>3. CASE DrawTicket(m)
            <3>1. [year |-> year, number |-> NextNumber(year)] \in TicketId
                <4>1. IsFiniteSet(Rows)
                    BY FS_Interval DEF Rows
                <4>2. Cardinality(Of(year)) \in Nat
                    BY <4>1, NoElementMore DEF Of, Rows
                <4> QED
                    BY <4>2 DEF TicketId, NextNumber
            <3> QED
                BY <2>3, <3>1 DEF DrawTicket, HandlerInv, Holding
        <2>4. CASE InsertTicket(m)
            <3>1. /\ tickets' \in Seq(Ticket) /\ Len(tickets') = Len(tickets) + 1
                  /\ tickets'[Len(tickets) + 1] = [id |-> drawn[m], by |-> m]
                  /\ Rows' = Rows \cup {Len(tickets) + 1}
                BY <2>4, InsertAddsOne DEF InsertTicket, HandlerInv
            <3>2. TypeOK'
                <4>1. /\ filed' \in [Messages -> 0..Len(tickets')]
                      /\ replied' \in [Messages -> 0..Len(tickets')]
                    <5>1. \A k \in 0..Len(tickets) : k \in 0..Len(tickets')
                        BY <3>1
                    <5>2. Len(tickets) + 1 \in 0..Len(tickets')
                        BY <3>1
                    <5> QED
                        BY <2>4, <5>1, <5>2 DEF InsertTicket
                <4>2. /\ pc' \in [Messages -> Steps]
                      /\ drawn' \in [Messages -> TicketId \cup {NoTicket}]
                      /\ year' = year /\ job' = job /\ audits' = audits /\ faults' = faults
                    BY <2>4 DEF InsertTicket
                <4> QED
                    BY <3>1, <4>1, <4>2 DEF Ticket
            <3>3. tickets'[Len(tickets) + 1].by = m
                BY ONLY <3>1
            <3>4. pc'[m] = "audit" /\ filed'[m] = Len(tickets) + 1 /\ job' = job
                BY <2>4 DEF InsertTicket
            <3>5. job[m].state = "active" /\ HasAttemptsLeft(job[m])
                BY <2>4 DEF InsertTicket, HandlerInv
            <3> QED
                BY <3>1, <3>2, <3>3, <3>4, <3>5 DEF HandlerInv, Holding
        <2>5. CASE LogAction(m)
            <3>1. pc'[m] = "reply" /\ filed'[m] = filed[m] /\ tickets' = tickets /\ job' = job
                BY <2>5 DEF LogAction, AfterLog
            <3>2. filed[m] \in Rows /\ tickets[filed[m]].by = m /\ job[m].state = "active"
                BY <2>5 DEF LogAction, HandlerInv, Holding
            <3>3. HandlerInv(m)'
                BY <3>1, <3>2 DEF HandlerInv, Holding, Rows
            <3>4. TypeOK'
                BY <2>5 DEF LogAction, AfterLog
            <3> QED
                BY <3>3, <3>4
        <2>6. CASE Reply(m)
            BY <2>6 DEF Reply, TicketOfReply, HandlerInv, Holding, Rows
        <2> QED
            BY <2>1, <2>2, <2>3, <2>4, <2>5, <2>6
    <1> QED
        BY <1>1, <1>2 DEF TypeInv

\* Every step.
LEMMA TypeStep == TypeInv /\ [Next]_vars => TypeInv'
    <1> SUFFICES ASSUME TypeInv, [Next]_vars PROVE TypeInv'
        OBVIOUS
    <1>0. /\ TypeOK /\ \A n \in Messages : HandlerInv(n) /\ Grows
          /\ MaxAttempts \in Nat \ {0}
        BY StepGrows, JobsAssumption DEF TypeInv
    <1>1. CASE UNCHANGED vars
        BY <1>0, <1>1 DEF vars, TypeInv, TypeOK, HandlerInv, Rows, Years
    <1>2. CASE NewYear
        <2>1. TypeOK'
            BY <1>0, <1>2, TicketsAssumption
            DEF NewYear, TypeOK, Years, tableVars, localVars
        <2> QED
            BY <1>0, <1>2, <2>1
            DEF NewYear, TypeInv, HandlerInv, Rows, tableVars, localVars
    <1>3. ASSUME NEW m \in Messages, CompleteJob(m) \/ InsertCollides(m) \/ HandlerThrows(m)
                                     \/ InsertUnanswered(m)
          PROVE  TypeInv'
        <2>1. job[m] \in BoundedJob /\ job[m].state = "active" /\ HasAttemptsLeft(job[m])
            BY <1>0, <1>3
            DEF TypeOK, HandlerInv, CompleteJob, InsertCollides, HandlerThrows, InsertUnanswered
        <2>2. /\ End({m}) /\ year' = year /\ audits' = audits /\ replied' = replied
              /\ \/ job' = [job EXCEPT ![m] = Completed(@)] /\ pc[m] = "record"
                 \/ job' = [job EXCEPT ![m] = Retried(@)]
            BY <1>3
            DEF CompleteJob, InsertCollides, HandlerThrows, InsertUnanswered, AttemptFails,
                tableVars
        <2>3. /\ Completed(job[m]).state = "completed"
              /\ Retried(job[m]).state # "completed"
              /\ Retried(job[m]).state = "failed" => Retried(job[m]).attempts = MaxAttempts
            BY <1>0, <2>1 DEF Completed, Retried, BoundedJob, HasAttemptsLeft
        <2>4. /\ job' \in [Messages -> BoundedJob] /\ HasAttemptsLeft(job'[m])
              /\ job'[m].state = "completed" => pc[m] = "record"
              /\ job'[m].state = "failed" => job'[m].attempts = MaxAttempts
              /\ \A n \in Messages \ {m} : job'[n] = job[n]
            BY <1>0, <2>1, <2>2, <2>3, JobTransitions DEF TypeOK
        <2> QED
            BY <1>0, <2>1, <2>2, <2>4, EndKeepsTypes DEF TypeOK
    <1>4. CASE Crash
        <2> DEFINE S == {n \in Messages : pc[n] # "idle"}
        <2>1. /\ \A n \in Messages : n \in S =>
                     job[n] \in BoundedJob /\ job[n].state = "active" /\ HasAttemptsLeft(job[n])
              /\ \A n \in Messages : job'[n] = IF n \in S THEN Stalled(job[n]) ELSE job[n]
              /\ faults' > 0
            BY <1>0, <1>4, TicketsAssumption DEF TypeOK, HandlerInv, Crash, Fault
        <2>2. \A n \in S : /\ job'[n] \in BoundedJob /\ HasAttemptsLeft(job'[n])
                           /\ job'[n].state # "completed"
            <3> SUFFICES ASSUME NEW n \in S
                         PROVE  /\ job'[n] \in BoundedJob /\ HasAttemptsLeft(job'[n])
                                /\ job'[n].state # "completed"
                OBVIOUS
            <3>1. Stalled(job[n]).state # "completed"
                BY <2>1 DEF Stalled, BoundedJob
            <3> QED
                BY <2>1, <3>1, JobTransitions
        <2>3. job' \in [Messages -> BoundedJob]
            BY <1>0, <1>4, <2>1, <2>2 DEF Crash, TypeOK
        <2>4. \A n \in Messages : HasAttemptsLeft(job'[n])
            BY <1>0, <2>1, <2>2 DEF HandlerInv
        <2>5. /\ \A n \in Messages : pc'[n] = "idle" /\ drawn'[n] = NoTicket /\ filed'[n] = 0
              /\ year' = year /\ audits' = audits /\ replied' = replied
              /\ tickets' = tickets
            BY <1>4 DEF Crash, End, tableVars
        <2>6. TypeOK'
            BY <1>0, <1>4, <2>3, <2>5 DEF TypeOK, Crash, End, Grows, Steps
        <2>7. ASSUME NEW n \in Messages
              PROVE  HandlerInv(n)'
            BY <1>0, <2>1, <2>2, <2>4, <2>5, <2>7 DEF HandlerInv, Holding, Rows
        <2> QED
            BY <2>6, <2>7 DEF TypeInv
    <1> QED
        BY <1>0, <1>1, <1>2, <1>3, <1>4, MoveKeepsTypes DEF Next, HandlerStep

\* The table and every handler are what they should be, and no job is tried
\* more often than it may be, for any messages, years and faults.
THEOREM TicketsTypeCorrect == Spec => []TypeOK
    <1>1. TypeInv => TypeOK
        BY DEF TypeInv
    <1> QED
        BY TypeInit, TypeStep, <1>1, PTL DEF Spec

-----------------------------------------------------------------------------
(* The numbers of a year.                                                  *)

\* The sets that are counted are finite.
LEMMA CountedAreFinite ==
    ASSUME TypeOK
    PROVE  /\ IsFiniteSet(Rows)
           /\ \A S \in SUBSET Rows : IsFiniteSet(S) /\ Cardinality(S) \in Nat
    <1>1. IsFiniteSet(Rows)
        BY FS_Interval DEF TypeOK, Rows
    <1> QED
        BY <1>1, FS_Subset, FS_CardinalityType

\* A year's tickets are rows of the table.
LEMMA OfAreRows ==
    ASSUME TypeOK, NEW y
    PROVE  Of(y) \in SUBSET Rows /\ IsFiniteSet(Of(y)) /\ Cardinality(Of(y)) \in Nat
    <1>1. Of(y) \in SUBSET Rows
        BY DEF Of, Rows
    <1> QED
        BY <1>1, CountedAreFinite

\* An insert adds a ticket to the year of the number that was drawn.
LEMMA InsertedOf ==
    ASSUME TypeOK, NEW m \in Messages, drawn[m] \in TicketId, Insert(m),
           NEW y, y = drawn[m].year
    PROVE  /\ Of(y)' = Of(y) \cup {Len(tickets) + 1}
           /\ Cardinality(Of(y)') = Cardinality(Of(y)) + 1
           /\ \A z : z # y => Of(z)' = Of(z)
    <1>1. /\ Rows' = Rows \cup {Len(tickets) + 1} /\ Len(tickets) + 1 \notin Rows
          /\ \A i \in Rows : tickets'[i] = tickets[i]
          /\ tickets'[Len(tickets) + 1] = [id |-> drawn[m], by |-> m]
        BY InsertAddsOne
    <1>2. tickets'[Len(tickets) + 1].id.year = y
        BY <1>1
    <1>3. Of(y)' = Of(y) \cup {Len(tickets) + 1} /\ Len(tickets) + 1 \notin Of(y)
        BY <1>1, <1>2 DEF Of, Rows
    <1>4. \A z : z # y => Of(z)' = Of(z)
        BY <1>1, <1>2 DEF Of, Rows
    <1>5. Cardinality(Of(y) \cup {Len(tickets) + 1}) = Cardinality(Of(y)) + 1
        BY <1>3, OfAreRows, FS_AddElement
    <1> QED
        BY <1>3, <1>4, <1>5

\* A number that was drawn and is not in use is the next one of its year.
LEMMA UnusedIsNext ==
    ASSUME TypeOK, NumbersInv, NEW m \in Messages, pc[m] = "insert",
           drawn[m] \in TicketId, ~InUse(drawn[m])
    PROVE  drawn[m].number = Cardinality(Of(drawn[m].year)) + 1
    <1> DEFINE y == drawn[m].year
               count == Cardinality(Of(y))
    <1>1. y \in Years /\ drawn[m].number \in Nat \ {0} /\ count \in Nat
        BY OfAreRows DEF TicketId
    <1>2. drawn[m].number <= count + 1
        BY DEF NumbersInv
    <1>3. drawn[m].number \notin 1..count
        <2> SUFFICES ASSUME drawn[m].number \in 1..count PROVE FALSE
            OBVIOUS
        <2>1. PICK i \in Of(y) : tickets[i].id.number = drawn[m].number
            BY <1>1 DEF NumbersInv
        <2>2. i \in Rows /\ tickets[i].id.year = y /\ tickets[i].id \in TicketId
            <3>1. i \in Rows /\ tickets[i].id.year = y
                BY <2>1 DEF Of, Rows
            <3>2. tickets \in Seq(Ticket)
                BY DEF TypeOK, Ticket
            <3>3. tickets[i] \in Ticket
                BY <3>1, <3>2 DEF Rows
            <3> QED
                BY <3>1, <3>3 DEF Ticket
        <2>3. tickets[i].id = drawn[m]
            BY <2>1, <2>2 DEF TicketId
        <2> QED
            BY <2>2, <2>3 DEF InUse, Rows
    <1> QED
        BY <1>1, <1>2, <1>3

\* The numbers hold at first.
LEMMA NumbersInit == Init => NumbersInv
    <1> SUFFICES ASSUME Init PROVE NumbersInv
        OBVIOUS
    <1>1. \A y : Of(y) = {}
        BY DEF Init, Of
    <1>2. Cardinality({}) = 0
        BY FS_EmptySet
    <1> QED
        <2>1. NumberedInOrder /\ \A m \in Messages : pc[m] # "insert"
            BY DEF Init, NumberedInOrder
        <2>2. 1..Cardinality({}) = {}
            BY <1>2
        <2> QED
            BY <1>1, <2>1, <2>2 DEF NumbersInv

\* An insert keeps them: what it adds is the next number of its year.
LEMMA InsertKeepsNumbers ==
    ASSUME TypeInv, NumbersInv, NEW m \in Messages, pc[m] = "insert", Insert(m),
           \A n \in Messages : pc'[n] = "insert" => pc[n] = "insert" /\ drawn'[n] = drawn[n]
    PROVE  NumbersInv'
    <1> DEFINE new == Len(tickets) + 1
    <1>0. TypeOK /\ drawn[m] \in TicketId /\ ~InUse(drawn[m]) /\ Len(tickets) \in Nat
        BY DEF TypeInv, TypeOK, HandlerInv, Insert
    <1>1. PICK y \in Years : y = drawn[m].year
        BY <1>0 DEF TicketId
    <1>2. /\ Rows' = Rows \cup {new} /\ new \notin Rows
          /\ \A i \in Rows : tickets'[i] = tickets[i]
          /\ tickets'[new] = [id |-> drawn[m], by |-> m]
        BY <1>0, InsertAddsOne
    <1>3. /\ Of(y)' = Of(y) \cup {new} /\ Cardinality(Of(y)') = Cardinality(Of(y)) + 1
          /\ \A z : z # y => Of(z)' = Of(z)
        BY <1>0, <1>1, InsertedOf
    <1>4. drawn[m].number = Cardinality(Of(y)) + 1
        BY <1>0, <1>1, UnusedIsNext
    <1>5. tickets'[new].id.year = y /\ tickets'[new].id.number = Cardinality(Of(y)) + 1
        BY <1>1, <1>2, <1>4
    <1>6. NumberedInOrder'
        <2> SUFFICES ASSUME NEW i \in Rows'
                     PROVE  (tickets[i].id.number =
                                Cardinality({j \in Of(tickets[i].id.year) : j <= i}))'
            BY DEF NumberedInOrder, Rows
        <2>1. CASE i \in Rows
            <3>1. PICK z : z = tickets[i].id.year
                OBVIOUS
            <3>2. tickets'[i] = tickets[i] /\ i < new
                BY <1>0, <1>2, <2>1 DEF Rows
            <3>3. {j \in Of(z) : j <= i} = {j \in Of(z)' : j <= i}
                BY <1>0, <1>3, <2>1, <3>2 DEF Rows
            <3>4. tickets[i].id.number = Cardinality({j \in Of(z) : j <= i})
                BY <2>1, <3>1 DEF NumbersInv, NumberedInOrder, Rows
            <3> QED
                BY <3>1, <3>2, <3>3, <3>4
        <2>2. CASE i = new
            <3>1. \A j \in Of(y)' : j <= new
                BY <1>0, <1>3 DEF Of
            <3>2. {j \in Of(y)' : j <= new} = Of(y)'
                BY <3>1
            <3> QED
                BY <1>3, <1>5, <2>2, <3>2
        <2> QED
            BY <1>2, <2>1, <2>2
    <1>7. ASSUME NEW z \in Years, NEW k \in 1..Cardinality(Of(z)')
          PROVE  \E i \in Of(z)' : tickets'[i].id.number = k
        <2>1. Cardinality(Of(z)) \in Nat /\ Of(z) \subseteq Rows /\ Of(z) \subseteq Of(z)'
            BY <1>0, <1>3, OfAreRows
        <2>2. CASE k \in 1..Cardinality(Of(z))
            BY <1>2, <2>1, <2>2 DEF NumbersInv
        <2>3. CASE k \notin 1..Cardinality(Of(z))
            <3>1. z = y
                <4>1. Cardinality(Of(z)') # Cardinality(Of(z))
                    BY <2>3
                <4> QED
                    BY <1>3, <4>1
            <3>2. k = Cardinality(Of(y)) + 1
                <4>1. Cardinality(Of(y)') = Cardinality(Of(y)) + 1
                    BY <1>3
                <4>2. k \in 1..Cardinality(Of(y)') /\ k \notin 1..Cardinality(Of(y))
                    BY <1>7, <2>3, <3>1
                <4>3. Cardinality(Of(y)) \in Nat
                    BY <2>1, <3>1
                <4> QED
                    BY <4>1, <4>2, <4>3
            <3> QED
                BY <1>3, <1>5, <3>1, <3>2
        <2> QED
            BY <2>2, <2>3
    <1>8. ASSUME NEW n \in Messages, pc'[n] = "insert"
          PROVE  (drawn[n].number <= Cardinality(Of(drawn[n].year)) + 1)'
        <2>1. PICK z : z = drawn[n].year
            OBVIOUS
        <2>2. /\ drawn'[n] = drawn[n] /\ drawn[n].number <= Cardinality(Of(z)) + 1
              /\ drawn[n].number \in Nat
            BY <1>8, <2>1 DEF NumbersInv, TypeInv, HandlerInv, TicketId
        <2>3. Cardinality(Of(z)) \in Nat
            BY <1>0, OfAreRows
        <2>4. \/ Cardinality(Of(z)') = Cardinality(Of(z))
              \/ Cardinality(Of(z)') = Cardinality(Of(z)) + 1
            BY <1>3
        <2>5. drawn'[n].number <= Cardinality(Of(z)') + 1
            BY <2>2, <2>3, <2>4
        <2> QED
            BY <2>1, <2>2, <2>5
    <1> QED
        BY <1>6, <1>7, <1>8 DEF NumbersInv, Years

\* Without an insert they stay; what is drawn is the next number of its year.
LEMMA NumbersStep == TypeInv /\ NumbersInv /\ [Next]_vars => NumbersInv'
    <1> SUFFICES ASSUME TypeInv, NumbersInv, [Next]_vars PROVE NumbersInv'
        OBVIOUS
    <1>1. ASSUME NEW n \in Messages, pc'[n] = "insert"
          PROVE  (pc[n] = "insert" /\ drawn'[n] = drawn[n]) \/ DrawTicket(n)
        <2>0. TypeOK
            BY DEF TypeInv
        <2>1. CASE NewYear \/ UNCHANGED vars
            BY <1>1, <2>1 DEF NewYear, localVars, vars
        <2>2. CASE Crash
            BY <1>1, <2>2 DEF Crash, End
        <2>3. ASSUME NEW m \in Messages, m # n,
                     ResidentSends(m) \/ HandlerStep(m) \/ HandlerThrows(m) \/ InsertUnanswered(m)
              PROVE  pc[n] = "insert" /\ drawn'[n] = drawn[n]
            BY <1>1, <2>3, OthersStill DEF Still
        <2>4. CASE CompleteJob(n) \/ InsertCollides(n) \/ HandlerThrows(n) \/ InsertUnanswered(n)
            BY <1>1, <2>4
            DEF CompleteJob, InsertCollides, HandlerThrows, InsertUnanswered, AttemptFails, End
        <2>5. CASE ResidentSends(n) \/ TakeJob(n) \/ InsertTicket(n) \/ LogAction(n) \/ Reply(n)
            BY <1>1, <2>0, <2>5
            DEF TypeOK, ResidentSends, TakeJob, InsertTicket, LogAction, AfterLog, Reply, GoTo,
                localVars
        <2> QED
            BY <2>1, <2>2, <2>3, <2>4, <2>5 DEF Next, HandlerStep
    <1>2. CASE tickets' = tickets
        <2>1. \A y : Of(y)' = Of(y)
            BY <1>2 DEF Of
        <2>2. NumberedInOrder'
            BY <1>2 DEF NumbersInv, NumberedInOrder, Of
        <2>3. ASSUME NEW n \in Messages, pc'[n] = "insert"
              PROVE  (drawn[n].number <= Cardinality(Of(drawn[n].year)) + 1)'
            <3>1. CASE pc[n] = "insert" /\ drawn'[n] = drawn[n]
                <4>1. PICK z : z = drawn[n].year
                    OBVIOUS
                <4> QED
                    BY <2>1, <3>1, <4>1 DEF NumbersInv
            <3>2. CASE DrawTicket(n)
                <4>1. PICK z : z = year
                    OBVIOUS
                <4>2. drawn'[n] = [year |-> z, number |-> Cardinality(Of(z)) + 1]
                    BY <3>2, <4>1 DEF DrawTicket, NextNumber, TypeInv, TypeOK
                <4>3. Cardinality(Of(z)') = Cardinality(Of(z)) /\ Cardinality(Of(z)) \in Nat
                    BY <2>1, OfAreRows DEF TypeInv
                <4> QED
                    BY <4>2, <4>3
            <3> QED
                BY <1>1, <2>3, <3>1, <3>2
        <2> QED
            BY <1>2, <2>1, <2>2, <2>3 DEF NumbersInv, Years
    <1>3. ASSUME NEW m \in Messages, pc[m] = "insert", Insert(m),
                 InsertTicket(m) \/ InsertUnanswered(m)
          PROVE  NumbersInv'
        <2>1. \A n \in Messages : ~DrawTicket(n)
            <3>1. Len(tickets') = Len(tickets) + 1 /\ Len(tickets) \in Nat
                <4>1. TypeOK /\ drawn[m] \in TicketId /\ Len(tickets) \in Nat
                    BY <1>3 DEF TypeInv, HandlerInv, TypeOK
                <4> QED
                    BY <1>3, <4>1, InsertAddsOne
            <3>2. tickets' # tickets
                BY <3>1
            <3> QED
                BY <3>2 DEF DrawTicket, tableVars
        <2> QED
            BY <1>1, <1>3, <2>1, InsertKeepsNumbers
    <1>4. \/ tickets' = tickets
          \/ \E m \in Messages : InsertTicket(m) \/ InsertUnanswered(m)
        BY DEF Next, HandlerStep, NewYear, ResidentSends, TakeJob, DrawTicket, InsertCollides,
           LogAction, Reply, CompleteJob, HandlerThrows, Crash, tableVars, vars
    <1> QED
        BY <1>2, <1>3, <1>4 DEF InsertTicket, InsertUnanswered

\* A year's tickets are numbered in the order they were filed, with no gap and
\* no number twice, however the counts and the inserts of handlers interleave.
THEOREM TicketsAreNumberedInOrder == Spec => []NumberedInOrder
    <1>1. NumbersInv => NumberedInOrder
        BY DEF NumbersInv
    <1> QED
        BY TypeInit, TypeStep, NumbersInit, NumbersStep, <1>1, PTL DEF Spec

-----------------------------------------------------------------------------
(* What an attempt costs.                                                  *)

\* The handler of n draws nothing, and what is filed while it holds a number
\* is others'.
LEMMA QuietKeepsAttempts ==
    ASSUME TypeInv, Grows, NEW n \in Messages, AttemptsInv(n),
           job'[n].attempts <= job[n].attempts + faults' - faults,
           pc'[n] = "insert" => /\ pc[n] = "insert" /\ drawn'[n] = drawn[n]
                                /\ \A i \in Rows' \ Rows : tickets'[i].by # n
                                /\ job'[n].attempts = job[n].attempts,
           job'[n].attempts \in Nat
    PROVE  AttemptsInv(n)'
    <1>0. TypeOK /\ job[n].attempts \in Nat /\ faults \in Nat /\ faults' \in Nat
        <2>1. TypeOK /\ job[n] \in BoundedJob /\ faults \in Nat
            BY DEF TypeInv, TypeOK
        <2> QED
            BY <2>1, JobAttempts DEF Grows
    <1>1. /\ IsFiniteSet(Rows')
          /\ Others(n) \in SUBSET Rows /\ Others(n)' \in SUBSET Rows'
        <2>1. Len(tickets') \in Nat
            BY DEF Grows
        <2>2. IsFiniteSet(1..Len(tickets'))
            BY <2>1, FS_Interval
        <2> QED
            BY <2>2 DEF Others, Rows
    <1>2. Others(n) \subseteq Others(n)'
        BY DEF Others, Grows
    <1>3. /\ Cardinality(Others(n)) <= Cardinality(Others(n)')
          /\ Cardinality(Others(n)) \in Nat /\ Cardinality(Others(n)') \in Nat
        <2>1. IsFiniteSet(Others(n)')
            BY <1>1, FS_Subset
        <2> QED
            BY <1>2, <2>1, NoElementMore
    <1>4. job'[n].attempts <= faults' + Cardinality(Others(n)')
        BY <1>0, <1>3 DEF AttemptsInv
    <1>5. ASSUME pc'[n] = "insert"
          PROVE  /\ SinceDraw(n)' \subseteq Others(n)'
                 /\ job'[n].attempts <= faults' + Cardinality(Others(n)' \ SinceDraw(n)')
        <2>1. /\ pc[n] = "insert" /\ drawn'[n] = drawn[n] /\ SinceDraw(n) \subseteq Others(n)
              /\ job'[n].attempts <= faults + Cardinality(Others(n) \ SinceDraw(n))
            BY <1>5 DEF AttemptsInv
        <2>2. SinceDraw(n)' \subseteq Others(n)'
            BY <1>5, <2>1 DEF SinceDraw, Others, Grows
        <2>3. Others(n) \ SinceDraw(n) \subseteq Others(n)' \ SinceDraw(n)'
            BY <1>2, <2>1 DEF SinceDraw, Others, Grows
        <2>4. IsFiniteSet(Others(n)' \ SinceDraw(n)')
            BY <1>1, FS_Subset
        <2>5. /\ Cardinality(Others(n) \ SinceDraw(n)) <= Cardinality(Others(n)' \ SinceDraw(n)')
              /\ Cardinality(Others(n) \ SinceDraw(n)) \in Nat
              /\ Cardinality(Others(n)' \ SinceDraw(n)') \in Nat
            BY <2>3, <2>4, NoElementMore
        <2>6. faults <= faults' /\ job'[n].attempts \in Nat
            BY DEF Grows
        <2> QED
            BY <1>0, <2>1, <2>2, <2>5, <2>6
    <1> QED
        BY <1>4, <1>5 DEF AttemptsInv

\* A collision is with what somebody else filed since the number was drawn.
LEMMA CollisionIsPaidFor ==
    ASSUME TypeInv, NEW n \in Messages, AttemptsInv(n), InsertCollides(n)
    PROVE  AttemptsInv(n)'
    <1>0. /\ TypeOK /\ job[n] \in BoundedJob /\ job[n].attempts \in Nat /\ faults \in Nat
          /\ pc[n] = "insert" /\ drawn[n] \in TicketId
        BY DEF TypeInv, TypeOK, BoundedJob, InsertCollides, HandlerInv
    <1>1. PICK i \in Rows : tickets[i].id = drawn[n]
        BY DEF InsertCollides, InUse, Rows
    <1>2. i \in SinceDraw(n)
        BY <1>0, <1>1 DEF SinceDraw, TicketId
    <1>3. i \in Others(n) /\ i \notin Others(n) \ SinceDraw(n)
        BY <1>0, <1>2 DEF AttemptsInv
    <1> DEFINE before == Others(n) \ SinceDraw(n)
    <1>4. before \cup {i} \in SUBSET Others(n) /\ Others(n) \in SUBSET Rows
        BY <1>3 DEF Others
    <1>5. IsFiniteSet(Others(n)) /\ IsFiniteSet(before) /\ IsFiniteSet(before \cup {i})
        BY <1>0, <1>4, CountedAreFinite, FS_Subset
    <1>6. /\ Cardinality(before) + 1 <= Cardinality(Others(n))
          /\ Cardinality(before) \in Nat /\ Cardinality(Others(n)) \in Nat
        <2>1. Cardinality(before \cup {i}) = Cardinality(before) + 1
            BY <1>3, <1>5, FS_AddElement
        <2>2. Cardinality(before \cup {i}) <= Cardinality(Others(n))
            BY <1>4, <1>5, NoElementMore
        <2> QED
            BY <1>5, <2>1, <2>2, FS_CardinalityType
    <1>7. job[n].attempts <= faults + Cardinality(before)
        BY <1>0 DEF AttemptsInv
    <1>8. job'[n].attempts = job[n].attempts + 1 /\ pc'[n] # "insert"
        BY <1>0 DEF TypeOK, InsertCollides, AttemptFails, End, Retried, BoundedJob
    <1>9. faults' = faults /\ Others(n)' = Others(n)
        BY DEF InsertCollides, tableVars, Others, Rows
    <1> QED
        BY <1>0, <1>6, <1>7, <1>8, <1>9 DEF AttemptsInv

\* The number that is drawn is larger than all there are of its year.
LEMMA DrawnIsNew ==
    ASSUME TypeInv, NumbersInv, NEW n \in Messages, AttemptsInv(n), DrawTicket(n)
    PROVE  AttemptsInv(n)'
    <1>0. TypeOK
        BY DEF TypeInv
    <1>1. PICK y : y = year
        OBVIOUS
    <1>2. /\ drawn'[n] = [year |-> y, number |-> Cardinality(Of(y)) + 1]
          /\ UNCHANGED <<tickets, job, faults>>
        BY <1>0, <1>1 DEF DrawTicket, TypeOK, NextNumber, tableVars
    <1>3. SinceDraw(n)' = {}
        <2> SUFFICES ASSUME NEW i \in Rows, tickets[i].id.year = y,
                            tickets[i].id.number >= Cardinality(Of(y)) + 1
                     PROVE  FALSE
            BY <1>2 DEF SinceDraw, Rows
        <2> DEFINE upTo == {j \in Of(y) : j <= i}
        <2>1. tickets[i].id.number = Cardinality(upTo)
            BY DEF NumbersInv, NumberedInOrder, Rows
        <2>2. /\ Cardinality(upTo) <= Cardinality(Of(y)) /\ Cardinality(upTo) \in Nat
              /\ Cardinality(Of(y)) \in Nat
            <3>1. IsFiniteSet(Of(y)) /\ upTo \subseteq Of(y)
                BY <1>0, OfAreRows
            <3> QED
                BY <3>1, NoElementMore, FS_CardinalityType
        <2> HIDE DEF upTo
        <2> QED
            BY <2>1, <2>2
    <1>4. Others(n)' = Others(n)
        BY <1>2 DEF Others, Rows
    <1>5. Others(n) \ {} = Others(n)
        OBVIOUS
    <1> QED
        BY <1>2, <1>3, <1>4, <1>5 DEF AttemptsInv

\* At first nothing was tried.
LEMMA AttemptsInit == Init => AttemptsHold
    <1> SUFFICES ASSUME Init, NEW m \in Messages PROVE AttemptsInv(m)
        BY DEF AttemptsHold
    <1>1. Others(m) = {}
        BY DEF Init, Others, Rows
    <1> QED
        BY <1>1, FS_EmptySet DEF Init, AttemptsInv, NoJob

\* Every step keeps the account.
LEMMA AttemptsStep == TypeInv /\ NumbersInv /\ AttemptsHold /\ [Next]_vars => AttemptsHold'
    <1> SUFFICES ASSUME TypeInv, NumbersInv, AttemptsHold, [Next]_vars, NEW n \in Messages
                 PROVE  AttemptsInv(n)'
        BY DEF AttemptsHold
    <1>0. /\ TypeOK /\ HandlerInv(n) /\ Grows /\ AttemptsInv(n) /\ job[n] \in BoundedJob
          /\ job[n].attempts \in Nat /\ faults \in Nat /\ faults' \in Nat /\ faults <= faults'
          /\ Len(tickets) \in Nat
        <2>1. TypeOK /\ HandlerInv(n) /\ Grows /\ AttemptsInv(n)
            BY StepGrows DEF TypeInv, AttemptsHold
        <2>2. job[n] \in BoundedJob /\ faults \in Nat /\ Len(tickets) \in Nat
            BY <2>1 DEF TypeOK
        <2> QED
            BY <2>1, <2>2, JobAttempts DEF Grows
    <1>1. CASE (NewYear \/ UNCHANGED vars \/ Crash)
        <2>1. tickets' = tickets /\ Rows' = Rows
            BY <1>1 DEF NewYear, Crash, tableVars, vars, Rows
        <2>2. job'[n].attempts = job[n].attempts
            <3>1. job'[n] = job[n] \/ job'[n] = Stalled(job[n])
                BY <1>1 DEF NewYear, Crash, vars
            <3> QED
                BY <1>0, <3>1, JobAttempts
        <2>3. pc'[n] = "insert" => pc[n] = "insert" /\ drawn'[n] = drawn[n]
            BY <1>0, <1>1 DEF NewYear, Crash, End, localVars, vars
        <2> QED
            BY <1>0, <2>1, <2>2, <2>3, QuietKeepsAttempts
    <1>2. ASSUME NEW m \in Messages, m # n,
                 ResidentSends(m) \/ HandlerStep(m) \/ HandlerThrows(m) \/ InsertUnanswered(m)
          PROVE  AttemptsInv(n)'
        <2>1. Still(n)
            BY <1>2, OthersStill
        <2>2. \A i \in Rows' \ Rows : tickets'[i].by # n
            <3>1. CASE tickets' = tickets
                BY <3>1 DEF Rows
            <3>2. CASE pc[m] = "insert" /\ Insert(m)
                <4>1. drawn[m] \in TicketId
                    BY <3>2 DEF TypeInv, HandlerInv
                <4>2. /\ Rows' = Rows \cup {Len(tickets) + 1}
                      /\ tickets'[Len(tickets) + 1] = [id |-> drawn[m], by |-> m]
                    BY <1>0, <3>2, <4>1, InsertAddsOne
                <4>3. tickets'[Len(tickets) + 1].by = m
                    BY ONLY <4>2
                <4> QED
                    BY <1>2, <4>2, <4>3
            <3> QED
                BY <1>2, <3>1, <3>2
                DEF ResidentSends, HandlerStep, TakeJob, DrawTicket, InsertTicket,
                    InsertCollides, LogAction, Reply, CompleteJob, HandlerThrows,
                    InsertUnanswered, tableVars
        <2> QED
            BY <1>0, <2>1, <2>2, QuietKeepsAttempts DEF Still
    <1>3. CASE ResidentSends(n)
        <2>1. job'[n].attempts = 0 /\ pc'[n] # "insert"
            BY <1>0, <1>3, NewJobs DEF ResidentSends, TypeOK, NewJob, NoJob, HandlerInv
        <2> QED
            BY <1>0, <2>1, QuietKeepsAttempts
    <1>4. CASE TakeJob(n) \/ InsertTicket(n) \/ LogAction(n) \/ Reply(n) \/ CompleteJob(n)
        <2>1. job'[n].attempts = job[n].attempts
            BY <1>0, <1>4
            DEF TypeOK, TakeJob, InsertTicket, LogAction, Reply, CompleteJob, Taken, Completed,
                BoundedJob
        <2>2. pc'[n] # "insert"
            BY <1>0, <1>4
            DEF TypeOK, TakeJob, InsertTicket, LogAction, AfterLog, Reply, CompleteJob, GoTo, End
        <2> QED
            BY <1>0, <2>1, <2>2, QuietKeepsAttempts
    <1>5. CASE HandlerThrows(n) \/ InsertUnanswered(n)
        <2>1. job'[n].attempts = job[n].attempts + 1
            <3>1. job'[n] = Retried(job[n])
                BY <1>0, <1>5 DEF TypeOK, HandlerThrows, InsertUnanswered, AttemptFails
            <3> QED
                BY <1>0, <3>1, JobAttempts
        <2>2. pc'[n] # "insert" /\ faults' = faults + 1
            BY <1>5 DEF HandlerThrows, InsertUnanswered, AttemptFails, End, Fault
        <2> QED
            BY <1>0, <2>1, <2>2, QuietKeepsAttempts
    <1> QED
        BY <1>0, <1>1, <1>2, <1>3, <1>4, <1>5, CollisionIsPaidFor, DrawnIsNew
        DEF Next, HandlerStep

\* An attempt of a complaint is used up by a fault or by a ticket that somebody
\* else filed: handlers cannot keep failing each other.
THEOREM AttemptsArePaidFor == Spec => []AttemptsCostFaultsOrTickets
    <1>1. AttemptsHold => AttemptsCostFaultsOrTickets
        BY DEF AttemptsHold, AttemptsInv, AttemptsCostFaultsOrTickets, Others, Rows
    <1> QED
        BY TypeInit, TypeStep, NumbersInit, NumbersStep, AttemptsInit, AttemptsStep, <1>1, PTL
        DEF Spec

-----------------------------------------------------------------------------
(* What a ticket costs.                                                    *)

\* Another message's step files nothing for n, nor does one without an insert.
LEMMA SameFiled ==
    ASSUME TypeOK, NEW n \in Messages,
           \/ tickets' = tickets
           \/ \E m \in Messages \ {n} : drawn[m] \in TicketId /\ Insert(m)
    PROVE  Filed(n)' = Filed(n)
    <1>1. CASE tickets' = tickets
        BY <1>1 DEF Filed
    <1>2. ASSUME NEW m \in Messages \ {n}, drawn[m] \in TicketId, Insert(m)
          PROVE  Filed(n)' = Filed(n)
        <2>1. /\ Rows' = Rows \cup {Len(tickets) + 1}
              /\ \A i \in Rows : tickets'[i] = tickets[i]
              /\ tickets'[Len(tickets) + 1] = [id |-> drawn[m], by |-> m]
            BY <1>2, InsertAddsOne
        <2>2. tickets'[Len(tickets) + 1].by # n
            BY ONLY <1>2, <2>1
        <2> QED
            BY <2>1, <2>2 DEF Filed, Rows
    <1> QED
        BY <1>1, <1>2

\* An insert files one more for its message.
LEMMA OneMoreFiled ==
    ASSUME TypeOK, NEW n \in Messages, drawn[n] \in TicketId, Insert(n)
    PROVE  Cardinality(Filed(n)') = Cardinality(Filed(n)) + 1
    <1>1. /\ Rows' = Rows \cup {Len(tickets) + 1} /\ Len(tickets) + 1 \notin Rows
          /\ \A i \in Rows : tickets'[i] = tickets[i]
          /\ tickets'[Len(tickets) + 1] = [id |-> drawn[n], by |-> n]
        BY InsertAddsOne
    <1>2. tickets'[Len(tickets) + 1].by = n
        BY ONLY <1>1
    <1>3. Filed(n)' = Filed(n) \cup {Len(tickets) + 1} /\ Len(tickets) + 1 \notin Filed(n)
        BY <1>1, <1>2 DEF Filed, Rows
    <1>4. Filed(n) \in SUBSET Rows
        BY DEF Filed, Rows
    <1> QED
        BY <1>3, <1>4, CountedAreFinite, FS_AddElement

\* The tickets of a message are rows of the table.
LEMMA FiledAreRows ==
    ASSUME TypeOK, NEW n
    PROVE  Filed(n) \in SUBSET Rows /\ IsFiniteSet(Filed(n)) /\ Cardinality(Filed(n)) \in Nat
    <1>1. Filed(n) \in SUBSET Rows
        BY DEF Filed, Rows
    <1> QED
        BY <1>1, CountedAreFinite

\* At first there is no ticket.
LEMMA CountsInit == Init => CountsHold
    <1> SUFFICES ASSUME Init, NEW m \in Messages PROVE CountsInv(m)
        BY DEF CountsHold
    <1>1. Filed(m) = {}
        BY DEF Init, Filed
    <1> QED
        BY <1>1, FS_EmptySet DEF Init, CountsInv, Holding, NoJob

\* Every step keeps the account of the tickets and of their audit rows.
LEMMA CountsStep == TypeInv /\ CountsHold /\ [Next]_vars => CountsHold'
    <1> SUFFICES ASSUME TypeInv, CountsHold, [Next]_vars, NEW n \in Messages
                 PROVE  CountsInv(n)'
        BY DEF CountsHold
    <1> DEFINE count == Cardinality(Filed(n))
               own == pc[n] \in Holding \/ job[n].state = "completed"
    <1>0. /\ TypeOK /\ HandlerInv(n) /\ Grows /\ job[n] \in BoundedJob
          /\ audits[n] \in Nat /\ faults \in Nat /\ faults' \in Nat /\ faults <= faults'
          /\ count \in Nat
        BY StepGrows, FiledAreRows DEF TypeInv, TypeOK, Grows
    <1>1. /\ count <= faults + (IF own THEN 1 ELSE 0)
          /\ count <= audits[n] + (IF pc[n] = "audit" THEN 1 ELSE 0) + faults
        BY DEF CountsHold, CountsInv
    <1>2. ASSUME Filed(n)' = Filed(n), audits'[n] = audits[n],
                 \/ own => own' /\ (pc[n] = "audit" => pc'[n] = "audit")
                 \/ faults' = faults + 1
          PROVE  CountsInv(n)'
        <2>1. count <= faults' + (IF own' THEN 1 ELSE 0)
            BY <1>0, <1>1, <1>2
        <2>2. count <= audits[n] + (IF pc'[n] = "audit" THEN 1 ELSE 0) + faults'
            <3>1. pc[n] = "audit" => own
                BY DEF Holding
            <3> QED
                BY <1>0, <1>1, <1>2, <3>1
        <2> QED
            BY <1>2, <2>1, <2>2 DEF CountsInv
    <1>3. CASE NewYear \/ UNCHANGED vars
        BY <1>2, <1>3, SameFiled, <1>0 DEF NewYear, tableVars, vars
    <1>4. CASE Crash
        BY <1>0, <1>2, <1>4, SameFiled DEF Crash, tableVars, Fault
    <1>5. ASSUME NEW m \in Messages, m # n,
                 ResidentSends(m) \/ HandlerStep(m) \/ HandlerThrows(m) \/ InsertUnanswered(m)
          PROVE  CountsInv(n)'
        <2>1. Still(n)
            BY <1>5, OthersStill
        <2>2. tickets' = tickets \/ (pc[m] = "insert" /\ Insert(m))
            BY <1>5
            DEF ResidentSends, HandlerStep, TakeJob, DrawTicket, InsertTicket, InsertCollides,
                LogAction, Reply, CompleteJob, HandlerThrows, InsertUnanswered, tableVars
        <2>3. pc[m] = "insert" => drawn[m] \in TicketId
            BY DEF TypeInv, HandlerInv
        <2>4. Filed(n)' = Filed(n)
            BY <1>0, <1>5, <2>2, <2>3, SameFiled
        <2> QED
            BY <1>2, <2>1, <2>4 DEF Still
    <1>6. CASE ResidentSends(n) \/ TakeJob(n) \/ DrawTicket(n) \/ Reply(n)
        <2>1. tickets' = tickets /\ audits' = audits
            BY <1>6 DEF ResidentSends, TakeJob, DrawTicket, Reply, tableVars
        <2>2. pc[n] # "audit"
            BY <1>6, NewJobs DEF ResidentSends, TakeJob, DrawTicket, Reply, HandlerInv, TypeInv
        <2>3. own => own'
            BY <1>0, <1>6
            DEF ResidentSends, TakeJob, DrawTicket, Reply, GoTo, Holding, TypeOK, HandlerInv
        <2> QED
            BY <1>0, <1>2, <2>1, <2>2, <2>3, SameFiled
    <1>7. CASE CompleteJob(n)
        <2>1. tickets' = tickets /\ audits' = audits /\ pc[n] # "audit"
            BY <1>7 DEF CompleteJob, tableVars
        <2>2. job'[n].state = "completed"
            BY <1>0, <1>7 DEF CompleteJob, Completed, TypeOK, BoundedJob
        <2> QED
            BY <1>0, <1>2, <2>1, <2>2, SameFiled
    <1>8. CASE InsertCollides(n)
        <2>1. tickets' = tickets /\ audits' = audits /\ ~own
            BY <1>0, <1>8 DEF InsertCollides, tableVars, Holding, HandlerInv
        <2> QED
            BY <1>0, <1>2, <2>1, SameFiled
    <1>9. CASE HandlerThrows(n)
        BY <1>0, <1>2, <1>9, SameFiled DEF HandlerThrows, Fault, tableVars
    <1>10. CASE LogAction(n)
        <2>1. /\ tickets' = tickets /\ audits'[n] = audits[n] + 1 /\ faults' = faults
              /\ pc[n] = "audit" /\ pc'[n] = "reply"
            BY <1>0, <1>10 DEF LogAction, AfterLog, GoTo, TypeOK
        <2>2. Filed(n)' = Filed(n)
            BY <1>0, <2>1, SameFiled
        <2>3. own'
            BY <2>1 DEF Holding
        <2>4. /\ count <= faults' + (IF own' THEN 1 ELSE 0)
              /\ count <= audits'[n] + (IF pc'[n] = "audit" THEN 1 ELSE 0) + faults'
            BY <1>0, <1>1, <2>1, <2>3
        <2> QED
            BY <2>2, <2>4 DEF CountsInv
    <1>11. CASE InsertTicket(n) \/ InsertUnanswered(n)
        <2>1. /\ pc[n] = "insert" /\ Insert(n) /\ drawn[n] \in TicketId /\ audits' = audits
              /\ \/ pc'[n] = "audit" /\ faults' = faults
                 \/ pc'[n] = "idle" /\ faults' = faults + 1
            BY <1>0, <1>11
            DEF InsertTicket, InsertUnanswered, HandlerInv, GoTo, TypeOK, AttemptFails, End, Fault
        <2>2. Cardinality(Filed(n)') = count + 1 /\ ~own
            BY <1>0, <2>1, OneMoreFiled DEF Holding, HandlerInv
        <2>3. pc'[n] = "audit" => own'
            BY DEF Holding
        <2>4. /\ count + 1 <= faults' + (IF own' THEN 1 ELSE 0)
              /\ count + 1 <= audits'[n] + (IF pc'[n] = "audit" THEN 1 ELSE 0) + faults'
            BY <1>0, <1>1, <2>1, <2>2, <2>3
        <2> QED
            BY <2>2, <2>4 DEF CountsInv
    <1> QED
        BY <1>3, <1>4, <1>5, <1>6, <1>7, <1>8, <1>9, <1>10, <1>11 DEF Next, HandlerStep

\* A message files one ticket, and one more for each fault at most; a ticket
\* that has no audit row is on the way to it, or the price of a fault.
THEOREM TicketsArePaidFor == Spec => []TicketsAndAuditsCostFaults
    <1>1. TypeInv /\ CountsHold => TicketsAndAuditsCostFaults
        <2> SUFFICES ASSUME TypeInv, CountsHold, NEW m \in Messages
                     PROVE  /\ Cardinality(Filed(m)) <= 1 + faults
                            /\ Cardinality(Filed(m)) <=
                                   audits[m] + (IF pc[m] = "audit" THEN 1 ELSE 0) + faults
            BY DEF TicketsAndAuditsCostFaults
        <2>1. Cardinality(Filed(m)) \in Nat /\ faults \in Nat
            BY FiledAreRows, TicketsAssumption DEF TypeInv, TypeOK
        <2> QED
            BY <2>1 DEF CountsHold, CountsInv
    <1> QED
        BY TypeInit, TypeStep, CountsInit, CountsStep, <1>1, PTL DEF Spec

\* Without a fault, nobody has two tickets: there are fewer tickets of others
\* than messages.
LEMMA FewOthers ==
    ASSUME TypeInv, CountsHold, faults = 0, NEW m \in Messages
    PROVE  Cardinality(Others(m)) < Cardinality(Messages)
    <1>0. TypeOK /\ IsFiniteSet(Messages) /\ Cardinality(Messages) \in Nat
        BY TicketsAssumption, FS_CardinalityType DEF TypeInv
    <1> DEFINE others == Messages \ {m}
               author == [i \in Others(m) |-> tickets[i].by]
    <1>1. \A i \in Rows : tickets[i].by \in Messages
        <2>1. \A i \in Rows : tickets[i] \in Ticket
            <3>1. tickets \in Seq(Ticket)
                BY <1>0 DEF TypeOK, Ticket
            <3> QED
                BY <3>1 DEF Rows
        <2> QED
            BY <2>1 DEF Ticket
    <1>2. author \in [Others(m) -> others]
        BY <1>1 DEF Others
    <1>3. ASSUME NEW i \in Others(m), NEW j \in Others(m), author[i] = author[j]
          PROVE  i = j
        <2>1. PICK n \in Messages : n = tickets[i].by /\ n = tickets[j].by
            BY <1>1, <1>3 DEF Others
        <2>2. {i, j} \subseteq Filed(n)
            BY <2>1 DEF Others, Filed, Rows
        <2>3. Cardinality(Filed(n)) <= 1 /\ Cardinality(Filed(n)) \in Nat
            BY <1>0, FiledAreRows DEF CountsHold, CountsInv
        <2>4. Cardinality({i, j}) <= 1
            <3>1. Cardinality({i, j}) <= Cardinality(Filed(n)) /\ Cardinality({i, j}) \in Nat
                BY <1>0, <2>2, FiledAreRows, NoElementMore
            <3> QED
                BY <2>3, <3>1
        <2>5. CASE i # j
            <3>1. IsFiniteSet({i}) /\ Cardinality({i}) = 1
                BY FS_Singleton
            <3>2. Cardinality({i} \cup {j}) = 2
                BY <2>5, <3>1, FS_AddElement
            <3>3. {i} \cup {j} = {i, j}
                OBVIOUS
            <3> QED
                BY <2>4, <3>2, <3>3
        <2> QED
            BY <2>5
    <1>4. IsFiniteSet(others) /\ Cardinality(others) = Cardinality(Messages) - 1
        BY <1>0, FS_RemoveElement
    <1>5. author \in Injection(Others(m), others)
        BY <1>2, <1>3 DEF Injection, IsInjective
    <1>6. Cardinality(Others(m)) <= Cardinality(others)
        BY <1>4, <1>5, FS_Injection DEF ExistsInjection
    <1>7. Cardinality(Others(m)) \in Nat
        BY <1>0, CountedAreFinite DEF Others
    <1> QED
        BY <1>0, <1>4, <1>6, <1>7

\* A complaint that is done with was answered with a ticket of its own, and with
\* no more complaints than attempts none is given up on without a fault.
THEOREM RacesLoseNoComplaint == Spec => []RacesLoseNothing
    <1>1. TypeInv /\ AttemptsHold /\ CountsHold => RacesLoseNothing
        <2> SUFFICES ASSUME TypeInv, AttemptsHold, CountsHold, NEW m \in Messages
                     PROVE  /\ job[m].state = "completed" =>
                                   replied[m] # 0 /\ tickets[replied[m]].by = m
                            /\ job[m].state = "failed" /\ Cardinality(Messages) <= MaxAttempts =>
                                   faults > 0
            BY DEF RacesLoseNothing
        <2>0. TypeOK /\ HandlerInv(m) /\ faults \in Nat /\ MaxAttempts \in Nat
            BY TicketsAssumption, JobsAssumption DEF TypeInv, TypeOK
        <2>1. job[m].state = "completed" => replied[m] # 0 /\ tickets[replied[m]].by = m
            BY <2>0 DEF HandlerInv, Rows
        <2>2. ASSUME job[m].state = "failed", Cardinality(Messages) <= MaxAttempts, faults = 0
              PROVE  FALSE
            <3>1. job[m].attempts = MaxAttempts
                BY <2>0, <2>2 DEF HandlerInv
            <3>2. MaxAttempts <= 0 + Cardinality(Others(m))
                BY <2>2, <3>1 DEF AttemptsHold, AttemptsInv
            <3>3. Cardinality(Others(m)) < Cardinality(Messages)
                BY <2>2, FewOthers
            <3>4. Cardinality(Others(m)) \in Nat /\ Cardinality(Messages) \in Nat
                BY <2>0, CountedAreFinite, TicketsAssumption, FS_CardinalityType DEF Others
            <3> QED
                BY <2>0, <2>2, <3>2, <3>3, <3>4
        <2> QED
            BY <2>0, <2>1, <2>2
    <1> QED
        BY TypeInit, TypeStep, NumbersInit, NumbersStep, AttemptsInit, AttemptsStep, CountsInit,
           CountsStep, <1>1, PTL DEF Spec
=============================================================================
