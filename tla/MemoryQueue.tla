----------------------------- MODULE MemoryQueue -----------------------------
(***************************************************************************)
(* connection/queue.go: inMemoryJobQueue, the queue of development mode,    *)
(* with the producers that enqueue (RunMatch) and the workers of one pool.  *)
(*                                                                         *)
(* A job is a pointer that travels through a buffered channel.  Enqueue     *)
(* looks at closed and writes jobsByMatch under the mutex, but sends after  *)
(* releasing it: between the two the buffer may fill, the caller may be     *)
(* cancelled and Close may close the channel.  Leases exist but nothing     *)
(* reads when they end, and nothing bounds the attempts.                    *)
(***************************************************************************)
EXTENDS Integers, Sequences, FiniteSets

CONSTANTS
    MemJobs,
    JobMatch,       \* JobMatch[j]: the match j is for
    Consumers,      \* the workers of the pool
    Capacity,       \* the channel's buffer
    MaxTries,       \* bound: the attempts of a job; the last one fails only by a stop
    NoJob

ASSUME CapacityAssumption == Capacity \in Nat \ {0} /\ MaxTries \in Nat
ASSUME NoJobAssumption == NoJob \notin MemJobs

VARIABLES
    channel,        \* the buffered jobs, oldest first
    memClosed,      \* q.closed, and the channel closed with it
    jobsByMatch,    \* the job enqueued last for a match, or NoJob
    activeJobs,     \* activeJobs[j]: the token in q.activeJobs, 0: no entry
    tokenCounter,
    attempt,        \* job.Attempt
    token,          \* job.FencingToken
    producer,       \* producer[j]: how far the request that enqueues j is
    consumer,       \* consumer[w]: what w is doing, and with which job
    stopping,       \* the pool's context is cancelled
    completed       \* jobs whose completion was confirmed

memVars == <<channel, memClosed, jobsByMatch, activeJobs, tokenCounter, attempt,
             token, producer, consumer, stopping, completed>>

ProducerSteps == {"new", "sending", "sent", "refused", "cancelled", "panicked"}
\* idle: polling; took: received, not yet registered; resending: inside Retry's
\* Enqueue; gone: left the loop.
ConsumerSteps == {"idle", "took", "running", "resending", "gone"}
\* A worker that is idle or gone has no job.
Doing == [step: ConsumerSteps, job: MemJobs \union {NoJob}]

MemTypeOK ==
    /\ channel \in Seq(MemJobs) /\ Len(channel) <= Capacity
    /\ memClosed \in BOOLEAN /\ stopping \in BOOLEAN
    /\ jobsByMatch \in [{JobMatch[j] : j \in MemJobs} -> MemJobs \union {NoJob}]
    /\ activeJobs \in [MemJobs -> Nat]
    /\ token \in [MemJobs -> Nat]
    /\ tokenCounter \in Nat
    /\ attempt \in [MemJobs -> 0..MaxTries]
    /\ producer \in [MemJobs -> ProducerSteps]
    /\ consumer \in [Consumers -> Doing]
    /\ \A w \in Consumers :
           consumer[w].job = NoJob <=> consumer[w].step \in {"idle", "gone"}
    /\ completed \subseteq MemJobs

MemInit ==
    /\ channel = <<>> /\ memClosed = FALSE /\ stopping = FALSE
    /\ jobsByMatch = [m \in {JobMatch[j] : j \in MemJobs} |-> NoJob]
    /\ activeJobs = [j \in MemJobs |-> 0]
    /\ token = [j \in MemJobs |-> 0]
    /\ tokenCounter = 0
    /\ attempt = [j \in MemJobs |-> 0]
    /\ producer = [j \in MemJobs |-> "new"]
    /\ consumer = [w \in Consumers |-> [step |-> "idle", job |-> NoJob]]
    /\ completed = {}

Resting == [step |-> "idle", job |-> NoJob]
IsAt(w, s) == consumer[w].step = s
JobOf(w) == consumer[w].job
Becomes(w, s) == consumer' = [consumer EXCEPT ![w].step = s]
HasRoom == Len(channel) < Capacity

-----------------------------------------------------------------------------
\* Enqueue, called by a request.

EnqueueJobStarts(j) ==
    /\ producer[j] = "new"
    /\ IF memClosed
       THEN /\ producer' = [producer EXCEPT ![j] = "refused"]
            /\ UNCHANGED jobsByMatch
       ELSE /\ producer' = [producer EXCEPT ![j] = "sending"]
            /\ jobsByMatch' = [jobsByMatch EXCEPT ![JobMatch[j]] = j]
    /\ UNCHANGED <<channel, memClosed, activeJobs, tokenCounter, attempt, token,
                   consumer, stopping, completed>>

EnqueueSends(j) ==
    /\ producer[j] = "sending" /\ ~memClosed /\ HasRoom
    /\ channel' = Append(channel, j)
    /\ producer' = [producer EXCEPT ![j] = "sent"]
    /\ UNCHANGED <<memClosed, jobsByMatch, activeJobs, tokenCounter, attempt, token,
                   consumer, stopping, completed>>

\* The request's context ends first; or the channel is closed under the sender,
\* which panics in the handler's goroutine (net/http recovers it).
EnqueueEnds(j) ==
    /\ producer[j] = "sending"
    /\ \/ producer' = [producer EXCEPT ![j] = "cancelled"]
       \/ memClosed /\ producer' = [producer EXCEPT ![j] = "panicked"]
    /\ UNCHANGED <<channel, memClosed, jobsByMatch, activeJobs, tokenCounter, attempt,
                   token, consumer, stopping, completed>>

-----------------------------------------------------------------------------
\* The worker's calls.

TakeJob(w) ==
    /\ IsAt(w, "idle") /\ channel # <<>>
    /\ attempt[Head(channel)] < MaxTries
    /\ channel' = Tail(channel)
    /\ consumer' = [consumer EXCEPT ![w] = [step |-> "took", job |-> Head(channel)]]
    /\ attempt' = [attempt EXCEPT ![Head(channel)] = @ + 1]
    /\ UNCHANGED <<memClosed, jobsByMatch, activeJobs, tokenCounter, token, producer,
                   stopping, completed>>

Register(w) ==
    /\ IsAt(w, "took")
    /\ tokenCounter' = tokenCounter + 1
    /\ token' = [token EXCEPT ![JobOf(w)] = tokenCounter']
    /\ activeJobs' = [activeJobs EXCEPT ![JobOf(w)] = tokenCounter']
    /\ Becomes(w, "running")
    /\ UNCHANGED <<channel, memClosed, jobsByMatch, attempt, producer, stopping, completed>>

\* The check of RenewLease and Complete.
LeaseLost(w) == activeJobs[JobOf(w)] # token[JobOf(w)]

Succeeds(w) ==
    /\ IsAt(w, "running")
    /\ consumer' = [consumer EXCEPT ![w] = Resting]
    /\ IF LeaseLost(w)
       THEN UNCHANGED <<activeJobs, completed>>
       ELSE /\ activeJobs' = [activeJobs EXCEPT ![JobOf(w)] = 0]
            /\ completed' = completed \union {JobOf(w)}
    /\ UNCHANGED <<channel, memClosed, jobsByMatch, tokenCounter, attempt, token,
                   producer, stopping>>

\* A renewal that fails cancels the execution; so may the pool's stop.
Failing(w) ==
    /\ IsAt(w, "running")
    /\ attempt[JobOf(w)] < MaxTries \/ LeaseLost(w) \/ stopping

\* Retry up to its Enqueue: an entry with another token refuses it, a missing one
\* does not.
RetryRefused(w) == activeJobs[JobOf(w)] # 0 /\ LeaseLost(w)

\* Mutant: Retry sends the job itself, and so does the Enqueue it calls.
JobFailsSendingTwice(w) ==
    /\ Failing(w) /\ ~RetryRefused(w) /\ HasRoom
    /\ channel' = Append(channel, JobOf(w))
    /\ activeJobs' = [activeJobs EXCEPT ![JobOf(w)] = 0]
    /\ Becomes(w, "resending")
    /\ UNCHANGED <<memClosed, jobsByMatch, tokenCounter, attempt, token, producer,
                   stopping, completed>>

JobFails(w) ==
    /\ Failing(w)
    /\ IF RetryRefused(w)
       THEN /\ consumer' = [consumer EXCEPT ![w] = Resting]
            /\ UNCHANGED <<activeJobs, jobsByMatch>>
       ELSE /\ activeJobs' = [activeJobs EXCEPT ![JobOf(w)] = 0]
            /\ Becomes(w, "resending")
            /\ jobsByMatch' = [jobsByMatch EXCEPT ![JobMatch[JobOf(w)]] = JobOf(w)]
    /\ UNCHANGED <<channel, memClosed, tokenCounter, attempt, token, producer, stopping,
                   completed>>

\* Mutants: a full buffer drops the job; the buffer is one place short.
ResendsOrDrops(w) ==
    /\ IsAt(w, "resending")
    /\ channel' = IF HasRoom THEN Append(channel, JobOf(w)) ELSE channel
    /\ consumer' = [consumer EXCEPT ![w] = Resting]
    /\ UNCHANGED <<memClosed, jobsByMatch, activeJobs, tokenCounter, attempt, token,
                   producer, stopping, completed>>

ResendsKeepingAPlace(w) ==
    /\ IsAt(w, "resending") /\ Len(channel) + 1 < Capacity
    /\ channel' = Append(channel, JobOf(w))
    /\ consumer' = [consumer EXCEPT ![w] = Resting]
    /\ UNCHANGED <<memClosed, jobsByMatch, activeJobs, tokenCounter, attempt, token,
                   producer, stopping, completed>>

Resends(w) ==
    /\ IsAt(w, "resending") /\ HasRoom
    /\ channel' = Append(channel, JobOf(w))
    /\ consumer' = [consumer EXCEPT ![w] = Resting]
    /\ UNCHANGED <<memClosed, jobsByMatch, activeJobs, tokenCounter, attempt, token,
                   producer, stopping, completed>>

\* WorkerPool.Stop: the context ends; a worker leaves when it polls, and one that
\* is handing its job back gives it up.
StopPool ==
    /\ ~stopping
    /\ stopping' = TRUE
    /\ UNCHANGED <<channel, memClosed, jobsByMatch, activeJobs, tokenCounter, attempt,
                   token, producer, consumer, completed>>

Leaves(w) ==
    /\ stopping /\ IsAt(w, "idle")
    /\ Becomes(w, "gone")
    /\ UNCHANGED <<channel, memClosed, jobsByMatch, activeJobs, tokenCounter, attempt,
                   token, producer, stopping, completed>>

GivesUpResending(w) ==
    /\ stopping /\ IsAt(w, "resending")
    /\ consumer' = [consumer EXCEPT ![w] = Resting]
    /\ UNCHANGED <<channel, memClosed, jobsByMatch, activeJobs, tokenCounter, attempt,
                   token, producer, stopping, completed>>

\* main defers Close before Stop, so the workers are gone; requests need not be.
CloseQueue ==
    /\ ~memClosed /\ stopping
    /\ \A w \in Consumers : IsAt(w, "gone")
    /\ memClosed' = TRUE
    /\ UNCHANGED <<channel, jobsByMatch, activeJobs, tokenCounter, attempt, token,
                   producer, consumer, stopping, completed>>

ConsumerStep(w) ==
    \/ TakeJob(w) \/ Register(w) \/ Succeeds(w) \/ JobFails(w)
    \/ Resends(w) \/ Leaves(w) \/ GivesUpResending(w)

MemNext ==
    \/ \E j \in MemJobs : EnqueueJobStarts(j) \/ EnqueueSends(j) \/ EnqueueEnds(j)
    \/ \E w \in Consumers : ConsumerStep(w)
    \/ StopPool \/ CloseQueue

\* A goroutine that can run does, and one blocked on the channel is served
\* although others use it in between.  Nothing makes an execution end: neither
\* Succeeds nor JobFails has fairness.
MemFairness == \A w \in Consumers :
    /\ WF_memVars(TakeJob(w) \/ Register(w) \/ Leaves(w) \/ GivesUpResending(w))
    /\ SF_memVars(Resends(w))

MemSpec == MemInit /\ [][MemNext]_memVars /\ MemFairness

-----------------------------------------------------------------------------
Holders(j) == {w \in Consumers : JobOf(w) = j}
Queued(j) == {i \in DOMAIN channel : channel[i] = j}

\* A job is in one place: still with its request, in one slot of the channel or
\* in the hands of one worker, and the entry of a running job is its worker's, so
\* that no renewal, completion or retry in this queue is ever refused.
SolePlace ==
    /\ \A j \in MemJobs :
           /\ Cardinality(Holders(j)) + Cardinality(Queued(j)) <= 1
           /\ j \in completed \/ producer[j] # "sent" =>
                  Holders(j) = {} /\ Queued(j) = {} /\ activeJobs[j] = 0
    /\ \A w \in Consumers : IsAt(w, "running") => ~LeaseLost(w)

\* A job whose enqueue was answered is not lost while the pool runs: it is queued,
\* in the hands of a worker, or completed.
AcceptedJobsKept ==
    \A j \in MemJobs :
        producer[j] = "sent" /\ ~stopping =>
            Holders(j) # {} \/ Queued(j) # {} \/ j \in completed

\* The buffer is full and no worker polls: each executes a job or waits for a
\* place to hand one back.
Clogged ==
    /\ ~HasRoom
    /\ \A w \in Consumers : IsAt(w, "running") \/ IsAt(w, "resending")

\* Handing a job back blocks for ever in one case only: there are more jobs than
\* the buffer and the other workers hold, and these wait as well, or execute for
\* ever.  A place that comes free is never missed.
RetryReturns ==
    \A w \in Consumers :
        [](IsAt(w, "resending") => <>(~IsAt(w, "resending") \/ []Clogged))
=============================================================================
