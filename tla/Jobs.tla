-------------------------------- MODULE Jobs --------------------------------
(***************************************************************************)
(* BullMQ jobs, as gateway/queue.ts and gateway/broadcastQueue.ts use      *)
(* them: an attempt that throws is retried until attempts are used up; a   *)
(* job whose process dies is stalled, and picked up again by another one   *)
(* unless it stalled maxStalledCount times before.  The backoff before a   *)
(* retry is the time until the job is taken.                               *)
(***************************************************************************)
EXTENDS Naturals

CONSTANTS MaxAttempts,  \* attempts of a job (3 in both queues)
          MaxStalls     \* BullMQ's maxStalledCount

ASSUME JobsAssumption == MaxAttempts \in Nat \ {0} /\ MaxStalls \in Nat

JobStates == {"absent", "waiting", "active", "completed", "failed"}
BoundedJob == [state : JobStates, attempts : 0..MaxAttempts, stalls : 0..MaxStalls + 1]

NoJob == [state |-> "absent", attempts |-> 0, stalls |-> 0]
NewJob == [NoJob EXCEPT !.state = "waiting"]
Taken(job) == [job EXCEPT !.state = "active"]
Completed(job) == [job EXCEPT !.state = "completed"]

\* Mutant of Retried: one attempt too many.
RetriedOnceMore(job) ==
    [job EXCEPT !.attempts = @ + 1,
                !.state = IF job.attempts + 1 <= MaxAttempts THEN "waiting"
                                                             ELSE "failed"]
\* Mutant of Retried: given up on at the first failure.
NeverRetried(job) == [job EXCEPT !.attempts = @ + 1, !.state = "failed"]
Retried(job) ==
    [job EXCEPT !.attempts = @ + 1,
                !.state = IF job.attempts + 1 < MaxAttempts THEN "waiting"
                                                            ELSE "failed"]

\* Mutant of Stalled: nobody picks the job up again.
StalledForEver(job) == [job EXCEPT !.stalls = @ + 1]
Stalled(job) ==
    [job EXCEPT !.stalls = @ + 1,
                !.state = IF job.stalls < MaxStalls THEN "waiting" ELSE "failed"]
=============================================================================
