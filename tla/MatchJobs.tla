------------------------------- MODULE MatchJobs -------------------------------
(***************************************************************************)
(* The table match_jobs and the statements of the PostgreSQL job queue     *)
(* (src/src/connection/queue.go).                                          *)
(*                                                                         *)
(* There is one row per match.  A row remembers the run it was enqueued    *)
(* for, the number of times it was handed out (attempt), the fencing token *)
(* of the last hand-out, and, while it is reserved, the worker process and *)
(* whether its two-minute lease has run out.  Time appears only as the two *)
(* facts the statements test: "the lease is over" and "the row is due".    *)
(*                                                                         *)
(* A job's id and its run_id are generated together by RunMatch, one fresh *)
(* pair per request, so one number, run, stands for both.                  *)
(*                                                                         *)
(* Every operator below is the effect of one SQL statement on one row; the *)
(* modules that extend this one say who issues it and when.                *)
(***************************************************************************)
EXTENDS Integers

CONSTANTS
    Matches,        \* the matches
    Processes,      \* worker processes; reserved_by names one of them
    NoProcess,      \* reserved_by IS NULL
    MaxAttempts     \* column max_attempts; Enqueue inserts 3

ASSUME ProcessAssumption == NoProcess \notin Processes
ASSUME MaxAttemptsAssumption == MaxAttempts \in Nat \ {0}

VARIABLE jobs       \* jobs[m]: the row of match m

JobStatus == {"absent", "pending", "reserved", "completed", "failed"}

Row == [status:  JobStatus,
        run:     Nat,
        attempt: Nat,
        token:   Nat,
        by:      Processes \union {NoProcess},
        expired: BOOLEAN,
        due:     BOOLEAN]

AbsentRow == [status |-> "absent", run |-> 0, attempt |-> 0, token |-> 0,
              by |-> NoProcess, expired |-> FALSE, due |-> FALSE]

InitJobs == jobs = [m \in Matches |-> AbsentRow]

-----------------------------------------------------------------------------

\* INSERT ... ON CONFLICT (match_id) DO UPDATE ... WHERE status IN
\* ('completed', 'failed').  A conflict with a pending or reserved row updates
\* nothing and is not an error.  The token column survives a re-enqueue.
Enqueueable(m) == jobs[m].status \in {"absent", "completed", "failed"}

\* Mutant: the counter of fencing tokens starts again.
EnqueuedRowResetsToken(m, run) ==
    [jobs[m] EXCEPT !.status = "pending", !.run = run, !.attempt = 0,
                    !.token = 0, !.by = NoProcess, !.expired = FALSE, !.due = TRUE]

EnqueuedRow(m, run) ==
    [jobs[m] EXCEPT !.status = "pending", !.run = run, !.attempt = 0,
                    !.by = NoProcess, !.expired = FALSE, !.due = TRUE]

EnqueueJob(m, run) ==
    jobs' = IF Enqueueable(m)
            THEN [jobs EXCEPT ![m] = EnqueuedRow(m, run)]
            ELSE jobs

\* The sub-select of Dequeue.  ORDER BY created_at LIMIT 1 picks one eligible
\* row, but SKIP LOCKED lets any row be passed over, so any may be picked.
Reservable(m) ==
    /\ jobs[m].attempt < MaxAttempts
    /\ \/ jobs[m].status = "pending" /\ jobs[m].due
       \/ jobs[m].status = "reserved" /\ jobs[m].expired

ReservedRow(m, p) ==
    [jobs[m] EXCEPT !.status = "reserved", !.by = p, !.expired = FALSE,
                    !.token = @ + 1, !.attempt = @ + 1]

ReserveJob(m, p) ==
    /\ Reservable(m)
    /\ jobs' = [jobs EXCEPT ![m] = ReservedRow(m, p)]

\* WHERE id = $1 AND status = 'reserved' AND reserved_by = $2
\*   AND (fencing_token = $3 OR $3 = 0): the condition shared by RenewLease,
\* Complete and Retry.  Whether the lease has run out is not part of it.
Holds(p, m, run, token) ==
    /\ jobs[m].status = "reserved"
    /\ jobs[m].run = run
    /\ jobs[m].by = p
    /\ jobs[m].token = token \/ token = 0

RenewedRow(m) == [jobs[m] EXCEPT !.expired = FALSE]

RenewJob(m) == jobs' = [jobs EXCEPT ![m] = RenewedRow(m)]

\* Mutants: completing a job frees its lease but not its status; it puts the
\* job back.
CompletedRowReserved(m) == [jobs[m] EXCEPT !.by = NoProcess, !.expired = FALSE]

CompletedRowPending(m) ==
    [jobs[m] EXCEPT !.status = "pending", !.by = NoProcess, !.expired = FALSE]

CompletedRow(m) ==
    [jobs[m] EXCEPT !.status = "completed", !.by = NoProcess, !.expired = FALSE]

CompleteJob(m) == jobs' = [jobs EXCEPT ![m] = CompletedRow(m)]

\* Mutants: the last attempt is counted one too early; one too late.
RetriedRowEarly(m) ==
    [jobs[m] EXCEPT !.status = IF jobs[m].attempt + 1 >= MaxAttempts
                               THEN "failed" ELSE "pending",
                    !.by = NoProcess, !.expired = FALSE, !.due = FALSE]

RetriedRowLate(m) ==
    [jobs[m] EXCEPT !.status = IF jobs[m].attempt > MaxAttempts
                               THEN "failed" ELSE "pending",
                    !.by = NoProcess, !.expired = FALSE, !.due = FALSE]

\* A row whose last attempt failed is given up; the others come back after a
\* back-off of attempt^2 seconds.
RetriedRow(m) ==
    [jobs[m] EXCEPT !.status = IF jobs[m].attempt >= MaxAttempts
                               THEN "failed" ELSE "pending",
                    !.by = NoProcess, !.expired = FALSE, !.due = FALSE]

RetryJob(m) == jobs' = [jobs EXCEPT ![m] = RetriedRow(m)]

\* Mutant: the commit does not compare tokens.
CommitAcceptedUnfenced(m, token) == jobs[m].status \notin {"absent", "completed"}

\* The checks CommitMatchResult makes on the row it has locked FOR UPDATE.
\* They look at the token and at 'completed', not at the reservation.
CommitAccepted(m, token) ==
    /\ jobs[m].status \notin {"absent", "completed"}
    /\ token > 0 => jobs[m].token = token

-----------------------------------------------------------------------------

\* The passing of time, as far as the statements can see it.
LeaseRunsOut(m) ==
    /\ jobs[m].status = "reserved"
    /\ ~jobs[m].expired
    /\ jobs' = [jobs EXCEPT ![m].expired = TRUE]

BackoffEnds(m) ==
    /\ jobs[m].status = "pending"
    /\ ~jobs[m].due
    /\ jobs' = [jobs EXCEPT ![m].due = TRUE]
=============================================================================
