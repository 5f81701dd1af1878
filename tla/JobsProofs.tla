------------------------------ MODULE JobsProofs -----------------------------
(***************************************************************************)
(* Facts that the proofs of several components use: about the jobs of      *)
(* Jobs.tla, for every number of attempts, and about counting.             *)
(***************************************************************************)
EXTENDS Jobs, FiniteSetTheorems, TLAPS

\* What keeps the counters of a job in bounds: a job still to be run has an
\* attempt left and has not stalled too often.
HasAttemptsLeft(job) ==
    job.state \in {"waiting", "active"} =>
        job.attempts < MaxAttempts /\ job.stalls <= MaxStalls

\* Updating a job's state and one of its counters keeps its type.
LEMMA JobUpdates ==
    ASSUME NEW job \in BoundedJob, NEW state \in JobStates,
           NEW attempts \in 0..MaxAttempts, NEW stalls \in 0..MaxStalls + 1
    PROVE  /\ [job EXCEPT !.state = state] \in BoundedJob
           /\ [job EXCEPT !.attempts = attempts, !.state = state] \in BoundedJob
           /\ [job EXCEPT !.stalls = stalls, !.state = state] \in BoundedJob
    BY DEF BoundedJob

\* A finished, retried or stalled attempt leaves a well-typed job, with
\* attempts left if it is to be run again (the jobs of both queues).
LEMMA JobTransitions ==
    ASSUME NEW job \in BoundedJob, job.state = "active", HasAttemptsLeft(job)
    PROVE  /\ Completed(job) \in BoundedJob /\ HasAttemptsLeft(Completed(job))
           /\ Retried(job) \in BoundedJob /\ HasAttemptsLeft(Retried(job))
           /\ Stalled(job) \in BoundedJob /\ HasAttemptsLeft(Stalled(job))
           /\ "absent" \notin {Completed(job).state, Retried(job).state, Stalled(job).state}
           /\ "active" \notin {Completed(job).state, Retried(job).state, Stalled(job).state}
           /\ "completed" \notin {Retried(job).state, Stalled(job).state}
    <1> USE JobsAssumption DEF JobStates
    <1>1. /\ job.attempts \in Nat /\ job.attempts + 1 \in 0..MaxAttempts
          /\ job.stalls \in Nat /\ job.stalls + 1 \in 0..MaxStalls + 1
        BY DEF BoundedJob, HasAttemptsLeft
    <1>2. Completed(job) \in BoundedJob /\ HasAttemptsLeft(Completed(job))
        <2>1. Completed(job) \in BoundedJob /\ Completed(job).state = "completed"
            BY DEF Completed, BoundedJob
        <2> QED
            BY <2>1 DEF HasAttemptsLeft
    <1>3. Retried(job) \in BoundedJob /\ HasAttemptsLeft(Retried(job))
        <2> DEFINE after == IF job.attempts + 1 < MaxAttempts THEN "waiting"
                                                             ELSE "failed"
        <2>1. after \in JobStates
            OBVIOUS
        <2>2. Retried(job) \in BoundedJob
            BY <1>1, <2>1, JobUpdates DEF Retried
        <2>3. /\ Retried(job).state = after
              /\ Retried(job).attempts = job.attempts + 1
              /\ Retried(job).stalls = job.stalls
            BY DEF Retried, BoundedJob
        <2> QED
            BY <1>1, <2>2, <2>3 DEF HasAttemptsLeft
    <1>4. Stalled(job) \in BoundedJob /\ HasAttemptsLeft(Stalled(job))
        <2> DEFINE after == IF job.stalls < MaxStalls THEN "waiting" ELSE "failed"
        <2>1. after \in JobStates
            OBVIOUS
        <2>2. Stalled(job) \in BoundedJob
            BY <1>1, <2>1, JobUpdates DEF Stalled
        <2>3. /\ Stalled(job).state = after
              /\ Stalled(job).attempts = job.attempts
              /\ Stalled(job).stalls = job.stalls + 1
            BY DEF Stalled, BoundedJob
        <2> QED
            BY <1>1, <2>2, <2>3 DEF HasAttemptsLeft
    <1>5. /\ "absent" \notin {Completed(job).state, Retried(job).state, Stalled(job).state}
          /\ "active" \notin {Completed(job).state, Retried(job).state, Stalled(job).state}
          /\ "completed" \notin {Retried(job).state, Stalled(job).state}
        BY DEF Completed, Retried, Stalled, BoundedJob
    <1> QED
        BY <1>2, <1>3, <1>4, <1>5

\* A job that is taken stays what it was, but for its state.
LEMMA JobTaken ==
    ASSUME NEW job \in BoundedJob, job.state = "waiting", HasAttemptsLeft(job)
    PROVE  /\ Taken(job) \in BoundedJob /\ HasAttemptsLeft(Taken(job))
           /\ Taken(job).state = "active"
    BY DEF Taken, BoundedJob, JobStates, HasAttemptsLeft

\* A new job is well typed and has attempts left.
LEMMA NewJobs ==
    /\ NoJob \in BoundedJob /\ HasAttemptsLeft(NoJob) /\ NoJob.state = "absent"
    /\ NewJob \in BoundedJob /\ HasAttemptsLeft(NewJob) /\ NewJob.state = "waiting"
    BY JobsAssumption
    DEF BoundedJob, JobStates, HasAttemptsLeft, NoJob, NewJob

\* A retry is an attempt more, and nothing else is.
LEMMA JobAttempts ==
    ASSUME NEW job \in BoundedJob
    PROVE  /\ job.attempts \in Nat /\ Retried(job).attempts = job.attempts + 1
           /\ Taken(job).attempts = job.attempts /\ Completed(job).attempts = job.attempts
           /\ Stalled(job).attempts = job.attempts
    <1>1. job.attempts \in Nat
        BY DEF BoundedJob
    <1>2. Retried(job).attempts = job.attempts + 1
        BY DEF Retried, BoundedJob
    <1>3. /\ Taken(job).attempts = job.attempts /\ Completed(job).attempts = job.attempts
          /\ Stalled(job).attempts = job.attempts
        BY DEF Taken, Completed, Stalled, BoundedJob
    <1> QED
        BY <1>1, <1>2, <1>3

-----------------------------------------------------------------------------
(* Counting.                                                               *)

\* Smaller sets are not larger.
LEMMA NoElementMore ==
    ASSUME NEW S, NEW T, IsFiniteSet(S), T \subseteq S
    PROVE  Cardinality(T) <= Cardinality(S) /\ Cardinality(T) \in Nat
    BY FS_Subset, FS_CardinalityType

\* A set that has at most one element more than another, by cardinality.
LEMMA OneElementMore ==
    ASSUME NEW S, NEW T, NEW x, IsFiniteSet(S), T \subseteq S \cup {x}
    PROVE  Cardinality(T) <= Cardinality(S) + 1 /\ Cardinality(T) \in Nat
    <1>1. IsFiniteSet(S \cup {x}) /\ Cardinality(S \cup {x}) <= Cardinality(S) + 1
        <2>1. Cardinality(S) \in Nat
            BY FS_CardinalityType
        <2>2. /\ IsFiniteSet(S \cup {x})
              /\ Cardinality(S \cup {x}) = IF x \in S THEN Cardinality(S) ELSE Cardinality(S) + 1
            BY FS_AddElement
        <2> QED
            BY <2>1, <2>2
    <1>2. Cardinality(T) <= Cardinality(S \cup {x}) /\ IsFiniteSet(T)
        BY <1>1, FS_Subset
    <1>3. Cardinality(T) \in Nat /\ Cardinality(S) \in Nat /\ Cardinality(S \cup {x}) \in Nat
        BY <1>1, <1>2, FS_CardinalityType
    <1> QED
        BY <1>1, <1>2, <1>3
=============================================================================
