------------------------------ MODULE MatchQueue ------------------------------
(***************************************************************************)
(* The job queue together with the worker pool that drains it              *)
(* (src/src/executor/worker.go).                                           *)
(*                                                                         *)
(* A worker is one goroutine of a WorkerPool; Host[w] is the process it    *)
(* runs in, whose name the queue writes to reserved_by.  A worker that has *)
(* reserved a row executes it while a second goroutine renews the lease,   *)
(* commits the result under its fencing token, and reports the end of the  *)
(* job to the queue.  What an execution does besides the commit is the     *)
(* subject of MatchPipeline.                                               *)
(*                                                                         *)
(* What can go wrong is drawn from a budget of MaxFaults: a process dies,  *)
(* or the reply to a statement that took effect is lost, or the statement  *)
(* itself is.  A lease running out under a live worker (a pause, a slow    *)
(* heartbeat) costs nothing and may always happen.                         *)
(***************************************************************************)
EXTENDS MatchJobs, FiniteSets

CONSTANTS
    Workers,        \* worker goroutines
    Host,           \* Host[w]: the process of worker w
    NoHandle,       \* an idle worker has no job
    MaxRuns,        \* bound: enqueues of one match
    MaxFaults       \* bound: crashes and lost calls

ASSUME HostAssumption == Host \in [Workers -> Processes]
ASSUME BoundAssumption == MaxRuns \in Nat /\ MaxFaults \in Nat

VARIABLES
    phase,      \* phase[w]: what the worker goroutine is doing
    handle,     \* handle[w]: the MatchJob it got from Dequeue
    alive,      \* alive[w]: the execution context is not cancelled
    issued,     \* issued[m]: the runs of m a job was built for
    commits,    \* history: the commits that took effect
    faults      \* how much of the fault budget is spent

vars == <<jobs, phase, handle, alive, issued, commits, faults>>

Phases == {"idle", "executing", "succeeded", "errored"}

Handle == [match: Matches, run: Nat, token: Nat]

TypeOK ==
    /\ jobs \in [Matches -> Row]
    /\ phase \in [Workers -> Phases]
    /\ handle \in [Workers -> Handle \union {NoHandle}]
    /\ alive \in [Workers -> BOOLEAN]
    /\ issued \in [Matches -> SUBSET (1..MaxRuns)]
    /\ commits \subseteq Handle
    /\ faults \in Nat
    /\ \A w \in Workers : phase[w] # "idle" => handle[w] \in Handle

Init ==
    /\ InitJobs
    /\ phase = [w \in Workers |-> "idle"]
    /\ handle = [w \in Workers |-> NoHandle]
    /\ alive = [w \in Workers |-> FALSE]
    /\ issued = [m \in Matches |-> {}]
    /\ commits = {}
    /\ faults = 0

Fault == faults < MaxFaults /\ faults' = faults + 1

Busy(w) == phase[w] # "idle"

\* The queue's test of a handle, as RenewLease, Complete and Retry make it.
HoldsJob(w) ==
    Holds(Host[w], handle[w].match, handle[w].run, handle[w].token)

GoIdle(w) ==
    /\ phase' = [phase EXCEPT ![w] = "idle"]
    /\ handle' = [handle EXCEPT ![w] = NoHandle]
    /\ alive' = [alive EXCEPT ![w] = FALSE]

-----------------------------------------------------------------------------

\* RunMatch builds a job with a fresh id and run and hands it to the queue.
\* Requests overtake each other between creating their run and enqueuing it,
\* so the runs need not arrive in order.
Enqueue(m, run) ==
    /\ run \notin issued[m]
    /\ issued' = [issued EXCEPT ![m] = @ \union {run}]
    /\ EnqueueJob(m, run)
    /\ UNCHANGED <<phase, handle, alive, commits, faults>>

Dequeue(w, m) ==
    /\ phase[w] = "idle"
    /\ ReserveJob(m, Host[w])
    /\ phase' = [phase EXCEPT ![w] = "executing"]
    /\ handle' = [handle EXCEPT ![w] = [match |-> m, run |-> jobs[m].run,
                                        token |-> jobs[m].token + 1]]
    /\ alive' = [alive EXCEPT ![w] = TRUE]
    /\ UNCHANGED <<issued, commits, faults>>

\* The row is reserved but the caller sees an error and takes no job.
DequeueReplyLost(p, m) ==
    /\ Fault
    /\ ReserveJob(m, p)
    /\ UNCHANGED <<phase, handle, alive, issued, commits>>

\* A tick of the heartbeat goroutine: a renewal that matches no row cancels
\* the execution.  The goroutine ticks until Execute returns, after the commit
\* too, and a tick on its way is not waited for.
Heartbeat(w) ==
    /\ Busy(w)
    /\ alive[w]
    /\ IF HoldsJob(w)
       THEN RenewJob(handle[w].match) /\ UNCHANGED alive
       ELSE alive' = [alive EXCEPT ![w] = FALSE] /\ UNCHANGED jobs
    /\ UNCHANGED <<phase, handle, issued, commits, faults>>

\* The renewal fails for another reason; the execution is cancelled as well.
HeartbeatLost(w) ==
    /\ Busy(w)
    /\ alive[w]
    /\ Fault
    /\ alive' = [alive EXCEPT ![w] = FALSE]
    /\ UNCHANGED <<jobs, phase, handle, issued, commits>>

\* CommitMatchResult, its effect on the job row.
CommitRow(w) ==
    /\ phase[w] = "executing"
    /\ alive[w]
    /\ CommitAccepted(handle[w].match, handle[w].token)
    /\ CompleteJob(handle[w].match)
    /\ commits' = commits \union {handle[w]}

Commit(w) ==
    /\ CommitRow(w)
    /\ phase' = [phase EXCEPT ![w] = "succeeded"]
    /\ UNCHANGED <<handle, alive, issued, faults>>

\* COMMIT takes effect but its reply does not arrive: Execute returns an error.
CommitReplyLost(w) ==
    /\ CommitRow(w)
    /\ Fault
    /\ phase' = [phase EXCEPT ![w] = "errored"]
    /\ UNCHANGED <<handle, alive, issued>>

\* Execute returns an error for any other reason: the engine, the bots, the
\* replay or the database failed, the context was cancelled, the commit was
\* refused.
ExecuteFails(w) ==
    /\ phase[w] = "executing"
    /\ phase' = [phase EXCEPT ![w] = "errored"]
    /\ UNCHANGED <<jobs, handle, alive, issued, commits, faults>>

Complete(w) ==
    /\ phase[w] = "succeeded"
    /\ IF HoldsJob(w) THEN CompleteJob(handle[w].match) ELSE UNCHANGED jobs
    /\ GoIdle(w)
    /\ UNCHANGED <<issued, commits, faults>>

Retry(w) ==
    /\ phase[w] = "errored"
    /\ IF HoldsJob(w) THEN RetryJob(handle[w].match) ELSE UNCHANGED jobs
    /\ GoIdle(w)
    /\ UNCHANGED <<issued, commits, faults>>

\* Retry fails; the row stays reserved until its lease runs out.
RetryLost(w) ==
    /\ phase[w] = "errored"
    /\ Fault
    /\ GoIdle(w)
    /\ UNCHANGED <<jobs, issued, commits>>

\* A process stops, by accident or by WorkerPool.Stop, which cancels every
\* context its workers could still reach the database with.
Crash(p) ==
    /\ \E w \in Workers : Host[w] = p /\ Busy(w)
    /\ Fault
    /\ phase' = [w \in Workers |-> IF Host[w] = p THEN "idle" ELSE phase[w]]
    /\ handle' = [w \in Workers |-> IF Host[w] = p THEN NoHandle ELSE handle[w]]
    /\ alive' = [w \in Workers |-> IF Host[w] = p THEN FALSE ELSE alive[w]]
    /\ UNCHANGED <<jobs, issued, commits>>

LeaseExpires(m) ==
    LeaseRunsOut(m) /\ UNCHANGED <<phase, handle, alive, issued, commits, faults>>

BackoffElapses(m) ==
    BackoffEnds(m) /\ UNCHANGED <<phase, handle, alive, issued, commits, faults>>

WorkerStep(w) ==
    \/ \E m \in Matches : Dequeue(w, m)
    \/ Heartbeat(w)
    \/ HeartbeatLost(w)
    \/ Commit(w)
    \/ CommitReplyLost(w)
    \/ ExecuteFails(w)
    \/ Complete(w)
    \/ Retry(w)
    \/ RetryLost(w)

Next ==
    \/ \E m \in Matches, run \in 1..MaxRuns : Enqueue(m, run)
    \/ \E m \in Matches : LeaseExpires(m) \/ BackoffElapses(m)
    \/ \E w \in Workers : WorkerStep(w)
    \/ \E p \in Processes : Crash(p)
    \/ \E p \in Processes, m \in Matches : DequeueReplyLost(p, m)

Spec == Init /\ [][Next]_vars

\* Workers poll without end (worker.go:44), report the end of an execution, and
\* clocks advance.  Nothing makes an execution end: its context has no deadline
\* (worker.go:69), some of its calls have none, and the heartbeat renews its
\* lease all the while.  So neither Commit nor ExecuteFails gets fairness.
Fairness ==
    /\ \A m \in Matches :
        /\ WF_vars(\E w \in Workers : Dequeue(w, m))
        /\ WF_vars(LeaseExpires(m))
        /\ WF_vars(BackoffElapses(m))
    /\ \A w \in Workers :
        /\ WF_vars(Complete(w))
        /\ WF_vars(Retry(w) \/ RetryLost(w))

FairSpec == Spec /\ Fairness

-----------------------------------------------------------------------------

\* A worker whose commit the database would accept now.
CanCommit(w) ==
    /\ phase[w] = "executing"
    /\ CommitAccepted(handle[w].match, handle[w].token)

\* However many workers still execute a match after losing their leases, the
\* database would accept the commit of at most one of them.
AtMostOneCommitter ==
    \A v, w \in Workers :
        /\ CanCommit(v)
        /\ CanCommit(w)
        /\ handle[v].match = handle[w].match
        => v = w

\* A run is committed at most once, whatever commits are answered twice, lost
\* or repeated after a re-enqueue of its match.
OneCommitPerRun ==
    \A c, d \in commits : c.match = d.match /\ c.run = d.run => c = d

\* The only worker whose commit would be accepted executes the run the row was
\* enqueued for, under a reservation that is still its own: no result is ever
\* stored for a run of an earlier request.
CommitterOwnsRow ==
    \A w \in Workers : CanCommit(w) => HoldsJob(w)

\* A token is never handed out twice for a match: a re-enqueue keeps the
\* counter, so a worker left over from an earlier request stays fenced out.
TokensAdvance ==
    [][\A m \in Matches :
        /\ jobs'[m].token >= jobs[m].token
        /\ jobs'[m].by # NoProcess /\ jobs'[m].attempt # jobs[m].attempt
           => jobs'[m].token > jobs[m].token]_jobs

Unresolved(m) == jobs[m].status \in {"pending", "reserved"}

Executes(w, m) == phase[w] = "executing" /\ handle[w].match = m

\* A job is eventually committed or given up, if no execution of it lasts for
\* ever and one worker keeps coming back to its poll: executions of other
\* matches that hang do not hold it up.
JobsResolve ==
    \A m \in Matches :
        /\ \A w \in Workers : []<>~Executes(w, m)
        /\ \E w \in Workers : []<>(phase[w] = "idle")
        => (Unresolved(m) ~> ~Unresolved(m))

\* A reservation whose lease ran out does not stay that way: another worker
\* takes the job over, or its owner ends or renews it.
LapsedLeaseRecovered ==
    \A m \in Matches :
        (jobs[m].status = "reserved" /\ jobs[m].expired)
            ~> ~(jobs[m].status = "reserved" /\ jobs[m].expired)

-----------------------------------------------------------------------------

\* The queue and its workers implement FencedOwnership: a round is the run a
\* row is enqueued for, an epoch is a fencing token.
Ownership == INSTANCE FencedOwnership WITH
    Rounds <- 1..MaxRuns,
    MaxGrants <- MaxAttempts,
    used <- issued,
    round <- [m \in Matches |-> jobs[m].run],
    open <- {m \in Matches : Unresolved(m)},
    grants <- [m \in Matches |-> jobs[m].attempt],
    epoch <- [m \in Matches |-> jobs[m].token],
    verdicts <- commits

\* Every step of queue and workers is a round opened or dropped, an epoch
\* granted, a verdict of the latest epoch, a round given up after its last
\* attempt, or invisible.
ImplementsOwnership == Ownership!Spec

-----------------------------------------------------------------------------

(***************************************************************************)
(* The inductive invariant of the proofs in MatchQueueProofs.              *)
(***************************************************************************)

\* Each handle in use carries a positive token the row has reached.
TokensHandedOut ==
    \A w \in Workers : Busy(w) =>
        /\ handle[w].token > 0
        /\ handle[w].token <= jobs[handle[w].match].token

\* No two workers hold the same token of a match.
TokensDistinct ==
    \A v, w \in Workers :
        /\ Busy(v)
        /\ Busy(w)
        /\ handle[v].match = handle[w].match
        /\ handle[v].token = handle[w].token
        => v = w

\* The executing worker with the latest token owns the reservation.
LatestOwnsRow ==
    \A w \in Workers :
        /\ phase[w] = "executing"
        /\ handle[w].token = jobs[handle[w].match].token
        => HoldsJob(w)

\* A run with a commit was issued; if it is the row's, the row is completed.
CommittedRunClosed ==
    \A c \in commits :
        /\ c.run \in issued[c.match]
        /\ c.run = jobs[c.match].run => jobs[c.match].status = "completed"

\* A worker whose execution succeeded has committed.
SucceededCommitted ==
    \A w \in Workers : phase[w] = "succeeded" => handle[w] \in commits

\* Run numbers come from the requests, attempts from the reservations.
RowsBounded ==
    \A m \in Matches :
        /\ jobs[m].status # "absent" => jobs[m].run \in issued[m]
        /\ jobs[m].attempt <= MaxAttempts
        /\ jobs[m].status = "reserved" => jobs[m].attempt > 0

IInv ==
    /\ TypeOK
    /\ TokensHandedOut
    /\ TokensDistinct
    /\ LatestOwnsRow
    /\ CommittedRunClosed
    /\ OneCommitPerRun
    /\ SucceededCommitted
    /\ RowsBounded
=============================================================================
