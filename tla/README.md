# A verification project for Agentrix

Agentrix runs matches between agents' programs. A request enqueues a match; a
worker, one of many on several machines, reserves it, lets an engine and two
bots play it tick by tick, stores the result in PostgreSQL and publishes a
replay file; leaderboards are computed from what was stored. ADR 0004, 0006,
0010 and 0012 in `src/docs/decisions` state what must hold. Here it is written
down in TLA+, checked with TLC and, where it matters most, proved with TLAPS for
instances of any size.

File names without a directory are below `src/src/`.

## 1. Inventory

| Component | State | Operations | Modelled in |
|---|---|---|---|
| Job queue (`connection/queue.go`, table `match_jobs`) | one row per match: status, run, attempt, fencing token, owner, lease, back-off | Enqueue, Dequeue, RenewLease, Complete, Retry | `MatchJobs`, `MatchQueue` |
| In-memory queue (`connection/queue.go` 35-180) | buffered channel, last job per match, reservations, closed flag | the same, and Close | `MemoryQueue` |
| Worker pool (`executor/worker.go`) | per worker: the job, the execution context, the heartbeat goroutine | poll, heartbeat, report, Stop | `MatchQueue`, `MatchPipeline`, `MemoryQueue` |
| Execution, its writes (`executor/executor.go`, `repository/match_runs.go`, `repository/matches.go`) | match row as loaded; rows of `matches`, `match_runs`, `results` | load, mark running, start run, commit, fail, discard, publish | `MatchPipeline` |
| Execution, its tick loop (`executor/executor.go` 360-600) | tick, who is disqualified, who has won | collect actions, step, snapshot, finish, seal | `MatchPlay` |
| Replay stream (`replay/`) and store (`service/replays.go`, `connection/artifacts.go`) | snapshots, sealed or not; plain and compressed file, temporary or canonical | open, write, seal, compress, publish, discard, stream, decode | `MatchPlay` (both files), `MatchPipeline` (one file per attempt) |
| Bot session and runtime (`executor/bot_session.go`, `runtime.go`) | one process, two pipes and one reader goroutine per bot; whose turn it is | ask for a turn, disqualify, close | `BotSession` |
| Engine client (`engine/`) | process, sequence numbers, lifecycle, commands the engine has not read, abandoned reads | start, initialize, advance, finish, close | `EngineClient` |
| Run request (`service/matches.go` RunMatch) | status read, number of the new run | load, count, compare-and-set, create run, enqueue | `MatchPipeline` |
| Idempotency keys (`service/matches.go` 135-190) | stored answers | look up, store | `Idempotency` |
| Contests, entries, agents (`service/contests.go`, `repository/contests.go`) | contest state and activity, entries, leaderboard rows | change state, activate, enrol | `Registration` |
| Submissions (`service/submissions.go`) | rows with version numbers, files of each version | upload | `Registration` |
| Rankings (`service/rankings.go`, `service/contests.go` 215-232) | rows per agent, snapshots | recalculate, write an enrolment's first row, publish | `Rankings` |
| Sessions (`auth/session.go`, `repository/session.go`) | refresh sessions in families | log in, refresh, prune, log out | `Sessions` |
| Permissions (`service/users.go`) | per-role cache | check, invalidate | `Permissions` |
| Rate limiter (`server/ratelimit.go`) | a count and its reset time per client | allow, clean up | `RateLimiter` |
| Status machines (`model/state_machine.go`) | none | transition tables few writers consult | `MatchPipeline`, `Registration` |
| HTTP handlers, execution spec, tracing, `src/db`, commands, web client, `games` | | | see section 7 |

**How the parts meet.** The database is the only thing requests and workers
share. A request hands over a job through `match_jobs`; workers poll it. While a
worker executes, a second goroutine renews its lease and can cancel its context
at any moment; statements after that fail, file operations do not. Commit is one
transaction over `match_jobs`, `match_runs`, `matches`, `results` and
`replays`, guarded by the fencing token; all other writes of an execution are
single statements guarded by nothing. Bots and engine are processes spoken to
over pipes; only the worker that started them talks to them. After a commit the
worker recalculates the leaderboard of the contest, which nothing serialises; an
enrolment writes the agent's first row of the same table, by the same upsert.
Uploads, logins and administration meet only in their tables.

**What is hard.** A worker that was slow is not gone: it goes on writing after
its lease has lapsed and another has taken over. Requests are sequences of
statements with other requests and whole executions between them. Any statement
can take effect and its reply be lost; a process can stop anywhere; a retry
reuses its run. An answer can arrive just as its turn times out, and a read that
was given up still takes the next line. Uploads count rows before they insert
one. A write to a process that does not read has no deadline. Every such hazard is in `PROJECT.json` with its line.

**What makes each part correct.** Queues: the database accepts the commit of at
most one worker, a run is committed once, no job is lost or in two places.
Execution: result, engine and replay agree; a result has its replay and a
published replay its result; a match names what was committed. Bots and engine:
an answer counts for the turn it was asked for, and no process outlives the
match. Request: every accepted request has a job, the job a run, and a repeated
key is answered with the run it started. Registration: a version keeps its
files, an agent has one entry. Rankings: the table depends on the entries and
the matches only. Sessions: a family has one live
token, and a family that was ended stays so.

## 2. Modules

| Module | What it is |
|---|---|
| `MatchJobs` | the table `match_jobs` and the effect of each queue statement on a row |
| `MatchQueue` | queue and worker pool: who issues the statements, when, and what interferes |
| `FencedOwnership` | the abstract promise: rounds, grants, epochs, verdicts |
| `MatchPipeline` | requests, executions with all their writes, replay files; every queue step is `MatchQueue`'s |
| `MemoryQueue` | the development queue with its producers and workers |
| `BotSession` | the bots of one match, their processes, pipes and readers |
| `EngineClient` | the supervisor of one engine process, and that process |
| `MatchPlay` | one execution from the engine's first answer to the published replay |
| `Registration` | uploads, enrolments and the states of a contest |
| `Rankings` | recalculations and snapshots of one leaderboard |
| `Sessions`, `Permissions`, `RateLimiter`, `Idempotency` | the bookkeeping of the API |
| `MC...` | instances for TLC |
| `...Proofs` | theorems |

    MatchJobs <- MatchQueue --implements--> FencedOwnership
                     ^
                     |  extends, and is implemented by
                MatchPipeline - - simulate - - MatchPlay - - turns - - BotSession
                                                   \ - - - steps - - - EngineClient

Solid lines are checked and proved. Dotted ones are by reading: what a step of
one module leaves open, the other describes in detail. Names are those of the
code where TLA+ allows it. How they correspond:

* **`MatchJobs`.** An operator per SQL statement. `Reservable` is the
  sub-select of Dequeue, `Holds` the WHERE clause RenewLease, Complete and Retry
  share, `CommitAccepted` the two checks of `CommitMatchResult` on the row it
  has locked. Time is reduced to what the statements test: `expired` (lease over)
  and `due` (back-off over). `id` and `run_id` of a job are generated together,
  so one number stands for both.
* **`MatchQueue`.** `phase[w]` is the worker's place in the body of the poll loop,
  `handle[w]` the `MatchJob` it holds, `alive[w]` whether `execCtx` is not
  cancelled. One action per statement and reporter: `Dequeue`, `Heartbeat`,
  `Commit`, `Complete`, `Retry`; `...Lost` variants for statements or
  replies that get lost; `Crash` for a process that ends, by accident or by
  `WorkerPool.Stop`. `commits` is a history variable, the commits that took effect.
* **`FencedOwnership`.** A *round* is a request's claim to have a match decided, a
  *grant* a hand-out of the right to decide, an *epoch* a fencing token, a
  *verdict* a commit. `MatchQueue!Ownership` gives the mapping: round = run of
  the row, open = pending or reserved, grants = attempt, epoch = token.
* **`MatchPipeline`.** `req[r]` holds RunMatch's local variables and place;
  `step[w]` how far `Execute` is, `snap[w]` the match it loaded, `todo[w]` the
  clean-up its error path still does. `Plans` lists, for each stage, the
  different sets and orders of clean-up the code's returns have. `Misses` is a
  statement whose error `Execute` ignores. `CountRuns` may fail to list the runs
  and go on with the first number, as RunMatch does. `tmp` and `published` are the
  replay files, named by the attempt that wrote them since each attempt draws a
  new id; `unanswered` is a history variable, the commits whose reply was lost.
* **`MemoryQueue`.** A job is a pointer; it is where its request, the channel or a
  worker has it. Enqueue is two actions because the send follows the unlock, and
  so are taking a job and registering its reservation, failing and handing back.
* **`BotSession`.** `RequestAction` is `BeginTurn`, `SendPerception` or
  `SendFails`, and one of `TakeLine`, `OutputEnds`, `TurnTimesOut`,
  `TurnCancelled`, which `select` chooses among. The unbuffered channel is the
  reader in state `handing`. Bots outside `EagerBots` answer each perception
  with its tick, when they like or never; eager ones write anything at any time.
* **`EngineClient`.** A method is a call, the write of its command (`Write`), which
  takes as long as the pipe has no room for it and fails once the engine is gone,
  and its answer (`...Answered`, `OutputClosed`, `ReadGivenUp`). No deadline and no
  cancellation ends a write. `strays` are the goroutines that still read for a
  caller who has left. The engine is the repository's `cmd/fake-engine` with
  its failure modes, and besides may die or fall silent at any moment.
* **`MatchPlay`.** `stage` is the place in `Execute`. What bots and engine answer is
  an existential choice; the engine may contradict the executor in tick, hash,
  reason and winner. Error exits differ in whether they discard the replay, as
  they do in the code. `StreamReplay` is a reader that comes at any time.
* **`Registration`.** `up[u]` and `enrol[e]` are requests between their statements.
  `clean` records that no two uploads of one agent have overlapped and that no
  listing of its versions has failed, which the code takes for there being none.
  `RecalculationAddsRow` is a recalculation's upsert as far as enrolments see it.
* **`Rankings`.** A recalculation lists the entries, then the committed matches,
  sorts, and upserts row by row. The sort's input order is Go's map order, any
  permutation. An enrolment (`EnterStep`) checks, inserts the entry and upserts the
  first row, rank 1 and nothing counted, over whatever row there is by then. `sole`
  names the last recalculation begun if no other was under way, `restarted` the
  agents whose row an enrolment wrote since.
* **`Sessions`.** A session is a row and its token. `call[c]` is a request's next
  statement with the row it has read; `exchanged`, `ended`, `overlapped`
  and `unpruned` are history variables for what the properties say.
* **`Permissions`.** Loading a role is a query and a store. `lag` is the time
  between, `since[r]` a history variable, the time since role r last granted.
* **`RateLimiter`, `Idempotency`.** One action per critical section or statement. A
  look-up may find nothing although there is a record, and a store may not take
  place: RunMatch's handler ignores both errors. `admitted`, `replayed`, `started`
  and `disturbed` are history variables.

**Instances that hold several parts.** `MCQueues`, `MCExecution`, `MCContests`
and `MCServices` extend modules that share no variable. A variable `part` or
`kind` chosen initially says whose behaviour is explored; the others stand
still. This asks the modules' own questions, one run each, without multiplying
their states. It shows nothing of interactions beyond what each module has as its
environment. Where parts do share state, that environment is the other's write:
`Registration` and `Rankings` share the leaderboard's rows, and each
has the other's upsert of them as an action (`RecalculationAddsRow`,
`InsertFirstRow`). The parts of `MCServices` share nothing.

## 3. Runs

| Run | Question | Instance |
|---|---|---|
| `queue_safety` | one committer, one commit per run, tokens advance, implements `FencedOwnership` | 3 workers on 2 processes, 1 match, 2 enqueues, 3 attempts, 2 faults, leases lapse at will |
| `queue_liveness` | where executions end, is every job resolved; in memory, is a job in one place and kept, and is handing one back stopped only by all workers being stuck | 2 workers, 2 matches, 3 attempts, no fault; in memory 3 jobs for 2 matches, 2 workers, 1 place, 2 attempts |
| `pipeline_requests` | do runs and jobs agree, and does a match keep its result, when requests race each other, an execution and its retry | 3 requests, 3 runs, 1 worker, 2 attempts, 1 slip |
| `pipeline_faults` | does a match name one result, has a published replay a commit and a stored result its replay, does a result stay while all is calm | 1 request, 2 workers, 3 attempts, 1 lapse, 1 fault, 1 slip |
| `execution` | do bots, engine, replay and verdict stay in step; does everything end that has a deadline | 2 bots, one eager, 3 ticks, pipes of 3; the engine in 11 modes, 2 ticks, its input full at will; a match of up to 3 ticks |
| `contests` | files, entries and leaderboard rows under overlapping uploads and enrolments; tables and snapshots under overlapping recalculations and publications | 2 agents, 2 uploads, 2 enrolments; 3 agents in 3 matches, one of them enrolled meanwhile, 2 recalculations; 2 publications |
| `services` | token families, cached permissions, request counts; does a repeated key repeat one answer and start one run | 1 user, 2 requests, 3 sessions, limit 1; 2 roles, 2 checks; 2 admitted per 2 ticks of 7; 5 requests, 2 keys, 2 matches, 2 runs each |
| `queue_abandoned`, `pipeline_zombie`, `pipeline_phantom`, `pipeline_ambiguous`, `rankings_lost` | five statements of the documents the code does not keep | smallest that shows it |

**Why the bounds are enough.** Two workers are the fewest that can disagree about
a row, and a third lets two of them be stale at once; two processes, one of them
with two workers, make "the row is reserved by my process" and "the row is
reserved by me" differ. Two requests are the fewest that can count the same
runs, and a third, or a retry, is what brings the match back to the status both
have read, so that both pass the compare-and-set; three runs give each request
one. One worker suffices there, since requests and executions meet only in the
database; stale workers are the subject of `pipeline_faults`. Three attempts
give a retry that is not the last. One lapse, one fault and one slip each make
every single failure possible at every point, in combination; the queue, which
is smaller, is checked with two faults and without a bound on lapses.

In memory, three jobs are as many as two workers and one place hold, the fewest
with which both workers block handing a job back while the place is taken; the
run reaches that state. Three ticks let an answer
be late by one and by two; a pipe of three holds what a bot that answers each
perception can leave unread, and less than an eager bot can write. An engine that
plays two ticks has a first and a last one, and fails in either. A match of three
ticks can be ended by the engine, by a disqualification and by its limit in
different ticks. Three agents are the fewest that beat each other in a circle,
two recalculations the fewest that overlap. One user with three sessions has a
family of three or three families, so that a token is rotated, reused, pruned
and revoked while another request holds it. Two keys, one of them carried by four
requests for two matches, can overlap, fail and be repeated under either match.
Seven instants see three windows.
What holds of all sizes is proved (section 5), so the runs mainly guard against
statements that are wrong and models in which nothing happens. Every bound of
the model, as against a setting of the program, is marked "bound" where it is
declared.

**Deadlock** is not checked: requests, ticks and faults are bounded and an
execution ends, so a run of the model stops when they are used up, which is
no error. That work does not get stuck is what the liveness properties say.

**Symmetry.** In `pipeline_requests` and `pipeline_faults` workers are exchanged
together with their processes, and requests, all for one match, with each other;
in `services` the requests of `Sessions`. Nothing in specification or
properties names one of them, and no liveness is checked there.

**Fairness** is stated for what the program's own scheduling does.

* *Database queue* (`JobsResolve`). Workers poll without end
  (`executor/worker.go:44`), so a row that stays reservable is reserved; reports are
  attempted once `Execute` returns; clocks advance, so leases lapse and
  back-offs end. That an execution ends is not assumed, for nothing in the code
  guarantees it: its context has no deadline (`worker.go:69`), neither have
  InitializeMatch, AdvanceTick and FinishMatch (`engine/subprocess.go` 395, 657)
  nor any write to a bot or the engine, and the heartbeat renews the lease all the
  while. So `Commit` and `ExecuteFails` have no fairness, and `JobsResolve` is
  about jobs whose own executions end while some worker keeps returning to its
  poll; those of other matches may hang. No fairness makes a commit succeed, a
  heartbeat tick or a request arrive either.
* *Queue in memory* (`RetryReturns`). A worker that can go on does. A send on a
  full channel is enabled again and again rather than always, and Go's channel
  serves blocked senders in turn: strong fairness of `Resends`. Handing a job back
  is then claimed to return unless the queue stays clogged: the buffer full, and
  every worker executing or itself waiting to hand a job back.
* *Bots* (`TurnEnds`, `ReadersSettle`). A write with room in the pipe returns,
  `select` does not wait past its timer, closing goes on, a reader with something
  to read is scheduled. Nothing is asked of a bot.
* *Engine* (`DeadlinesHold`). Goroutines of the client go on and its timers fire,
  a write to an engine that is gone returns, and so does the shutdown message into
  an empty pipe, having a few bytes only. Any other write may block for ever.
  Nothing is asked of the engine, nor that anyone cancels the execution. What is
  then claimed is that Start returns, that every method returns once the
  engine is gone, and that Close returns unless a living engine leaves a command
  unread: its shutdown message is written before its first deadline is set.

## 4. Where code and documents disagree

Each of these is a run TLC must find violated; the counterexample is the evidence.

* `queue_abandoned`: Dequeue recovers a lapsed lease only while `attempt <
  max_attempts` (`connection/queue.go:278`); a row whose last attempt died with
  its process stays reserved for ever.
* `pipeline_zombie`: `UpdateMatch` and `FailMatchRun` carry no fencing token
  (`executor/executor.go:149`); a worker whose lease lapsed writes its stale row
  over its successor's finished match.
* `pipeline_phantom`: a failing attempt sets the match to failed before its job is
  retried. A request in between creates a run, its Enqueue changes nothing
  (`connection/queue.go:217`), and 202 is answered for a run nobody executes.
* `pipeline_ambiguous`: a commit whose reply is lost is cleaned up as a failure
  (`executor/executor.go:612`): replay discarded, match failed. The next request
  has a second run committed.
* `rankings_lost`: of two recalculations the one that read fewer matches may write
  last (`service/rankings.go:277`); the table then lacks a match until the next.

The modules define further statements that do not hold of the code. They are
in no run's configuration; to see a counterexample, put the definition in place of the
properties of the run named.

| Definition | Run | What happens |
|---|---|---|
| `FailedIsFinal` | `pipeline_requests` | a retry runs under the failed run's id (`connection/queue.go:396`); ADR 0010 line 50 wants a new one |
| `QueuedHasJob` | `pipeline_requests` | a request that breaks off after its compare-and-set leaves the match queued without a job (`service/matches.go:486`) |
| `BothFailNobodyWins` | `execution` | a bot that timed out and one that crashed in the same tick: the second wins, since only the first counts as disqualified (`executor/executor.go:416`); ADR 0004 line 41 wants symmetry |
| `ServedIsSealed`, `FailedIsPurged` | `execution` | a reader finds the temporary file of a match under way, and errors at the end of a match leave it behind; ADR 0006 lines 51 and 57 |
| `EveryTurnEnds` | `execution` | writing to a bot that reads nothing has no deadline (`executor/bot_session.go:247`) |
| `CloseCleansUp` | `execution` | when the shutdown's deadline passes, Close kills the engine and nobody waits for it (`engine/subprocess.go:571`) |
| `VersionsImmutable` | `contests` | two uploads that count the same versions write to one directory (`service/submissions.go:88`); ADR 0010 line 24 |
| `ContestFollowsMachine` | `contests` | an update writes whatever state its body names (`repository/contests.go:218`) |
| `OneTimeRotation` | `services` | two refreshes that read a token before either revokes it both get a new one; the comment at `auth/session.go:52` says one-time |
| `SlidingWindow` | `services` | the window is fixed, not sliding as `server/ratelimit.go:18` says |

Other things seen while modelling: a request that compared "failed" can
re-enqueue a match a retry has finished meanwhile; a run committed at its
second attempt keeps the token of the first in `match_runs`; a snapshot may be
taken of a table half written; a key answered for one match is answered again
for another; a repeated key can start a second run when its look-up or its store
fails (`service/matches.go` 144, 504) or its requests overlap; an agent that
played a contest match before it was enrolled gets a row from the recalculation
and can then not be enrolled, since the row is taken for an entry
(`ErrAgentAlreadyEnrolled`), and an enrolment under way writes its zeroes over
such a row until the next recalculation (`service/contests.go:230`); Close may
block writing its shutdown message before its first deadline
(`engine/subprocess.go:548`); with as many jobs as workers and places
together, every worker of the in-memory queue may block handing its job back
(`connection/queue.go:159`), and nothing moves any more.

## 5. Proofs

All are for arbitrary sets and any values of the bounds, except where an
assumption says otherwise. Assumed of the constants, by name in the modules:
`MaxAttempts`, a queue's capacity and a match's ticks are positive, bounds are
natural numbers, every worker has a host and every request a target, placeholders
("none", "no process", "no user") are none of the things they stand beside; a
match has exactly two players, as the replay stream and `Rankings` demand; a pipe
holds at least three messages; uploads and the agents of a leaderboard are finite
sets. TLC evaluates these assumptions on every run. What a theorem supposes
beyond them is in its statement.

Every safety and action property the passing runs check is a theorem. Each rests
on an inductive invariant, a conjunction of named parts, and has a lemma per
action. Here is why the properties are not inductive as they stand, and what
the invariants add.

**Queue** (`MatchQueueProofs`). `AtMostOneCommitter` says nothing of a worker
that is stale now and may look current later. `IInv` adds that handed-out tokens
are positive, at most the row's and pairwise distinct (`TokensHandedOut`,
`TokensDistinct`), so at most one worker has the row's; that the executing worker
with the row's token owns the reservation (`LatestOwnsRow`), so that worker's run
is the row's; and that a committed run is closed if it is the row's
(`CommittedRunClosed`), so it cannot be committed again. From `IInv` follow
`SingleCommitter`, `CommitterIsOwner`, `CommitOnce`, `TokensOnlyAdvance`, and
`ImplementsFencedOwnership`: Enqueue opens or drops a round, a reservation is a
grant, a commit a verdict, a Retry at the last attempt gives the round up,
everything else is invisible.

**Abstract promise** (`FencedOwnershipProofs`): one verdict per round and one per
epoch.

**Pipeline** (`MatchPipelineProofs`). The pipeline's queue steps are
`MatchQueue`'s with further writes beside them; the lemma `QueueSpec` carries the
results about the queue over, with `PipelineImplementsOwnership` among them, and
`TokensCommitOnce` brings the abstract "one verdict per epoch" back down to
requests, executions and files. `PipelineInv` is then built on it. Stale writes
are dealt with by `SnapsNameOneCommit`: what a worker writes back was in the row
once, and commits are never taken back, so a match never names a mixture
(`MatchesNameCommits`) nor is finished without a result
(`FinishedMatchesHaveResults`). `RequestsSound` gives `EnqueuedRunsExist`.
`RunsAreEnqueuedOnce` rests on the uniqueness of a run's id: of requests that
counted the same runs, or could not list them and take the first number, one
creates the run and the others fail; it also justifies
`run \notin issued[m]`, which `MatchQueue!Enqueue` assumes of its caller.
`ResultsKeepReplays` says that no clean-up, crash, stale write or failed renewal
takes the replay of a result away; only the clean-up after a commit whose reply
was lost does. It needs that a failing execution has not committed
(`UncommittedUntilSucceeded`), that one about to commit has its replay
(`ReplaysAtHand`), and, for a new token to be ahead of every commit, that handles
are distinct (`CommitsBehind`).

`CalmResultsKept` is about any number of requests, which may requeue and run a
match again that has a result. Until a lease lapses, a process stops or a call is
lost (`Untroubled`), an execution that has not committed holds its row
(`CalmHolds`), hence is the only one; what it remembers of the match's result is
still what the match says (`CalmResults`, `Remembers`); and the run of a result is
committed, so no other run's commit or failure reaches it. A row written back then
writes what is there already.

`CalmMatchesStayFinished` is `CalmFinishedIsFinal` for matches with one request
each (`OneRequestEach`), whose `CalmInv` adds that a row is there only once its
request was accepted, and that, as long as no lease lapses, no process stops and
no call is lost, an execution without a commit holds its row and the row of a
finished match is completed. The hypothesis is needed: two requests that both
read "failed" may both requeue and enqueue, the second after the first one's run
was committed, and reopen a finished match with no fault at all. `pipeline_faults`,
which checks the property, has one request too.

**Queue in memory** (`MemoryQueueProofs`). `SolePlace` counts places; `OnePlace`
says the same of any two of them. It is kept because a job is with its request
until it is sent and nowhere once completed (`NowhereElse`), and because the
reservation of a running job is its worker's own (`RunningOwn`): without that, a
report could be refused and its job be nowhere, against `AcceptedJobsKept`.

**Course of a match** (`MatchPlayProofs`). `PlayInv` follows the stages: until the
result is sealed the replay has one snapshot more than ticks were played and
there is no verdict (`PlayInStep`); what is sealed, committed and published at
each stage (`FilesInStep`); whoever was disqualified last is not the executor's
winner (`LosersKnown`), for which two players are needed.

**Bots** (`ProcessProofs`). `HonestNotBlamed` is about messages that may be
anywhere on their way. `HonestOnesInStep` bounds them: of a connected bot that
answers what it is asked at most one message of the current tick is under way, as a
perception, in the process, in its output or with the reader, and none outside
its own turn. What makes it inductive is that every turn without an answer in
time ends with the bot disconnected. `Reaped` and `SessionSound` give
`ProcessesAreGone`.

**Engine client** (`ProcessProofs`). `InStep` speaks of the moments between calls.
During a call the client's numbers are behind, so `OneAtATime` says where the
exchange is: nothing is under way while the command is being written (`Unsent`);
then the command is and nothing else, or one answer is with the next number and
the engine's tick, or the engine is gone and nothing comes.
That every answer is read by who asked for it needs that reads are left behind
only after a failure or by Close (`StraysCounted`), and that the one method that
may be under way fits the lifecycle (`CallersFit`). `NotStarted` and `Numbered`
are where it begins. For `NoOrphan` they say that before Start there is no process.

**Registration** (`ContestsProofs`). As long as uploads of an agent do not
overlap, the one under way has counted all rows, so its version is later
than every row's (`CleanUploads`) and the files it has saved are still its own
(`CleanFiles`); the argument is about cardinalities, and the type invariant
itself needs one: an agent has no more rows than there are uploads.
`EntriesAreSound` and `ConfirmedAreRanked` hold without that condition, and
whatever rows recalculations add.

**Rankings** (`ContestsProofs`). *Snapshots:* the latest version is the number of
snapshots (`LatestIsNumber`), and a publication inserts a version that was the
next one when it read, so it fills no gap and its insert fails if the version is
taken. *Repair:* `TableInv` says that a recalculation that is alone has
written its own rows as far as it has come of a table in the order its
matches justify (`OrdersSorted`), and that it will come to every other row there
is (`SoleAlone`); for this, rows must belong to agents it has found or will
find, those entered or in a committed match (`RowsKnown`, `Found`). Rows an
enrolment has written since it began are exempt: they may hold zeroes. *Uniqueness* needs no state: of two agents one comes first
(`OneIsAhead`); where nobody has beaten each other in a circle that relation is
transitive, so a table is in order throughout and not only from neighbour to
neighbour (`InOrder`); everyone is in it (`EveryoneListed`); hence there is only
one (`OneTable`). Go's sort is modelled by its result, a list with no neighbours
the wrong way round.

**Sessions** (`ServicesProofs`). `FamilyLinear` is not inductive: a request may
rotate a token that was revoked since the request read it. `OpenOnce` counts
tokens not yet exchanged, live or not, and with what requests carry between
statements (`CallsCarry`, `InsertsDistinct`) it is. `EndedFamiliesStay` is
carried along. `SessionLimitHolds` is a count: an insert adds one live session and
one request that has yet to prune, a failed prune turns the latter into one that
is owed until the next prune, and a prune leaves what the limit allows. `LimitInv` adds
that a request inserts for the user it read (`Owned`), whom no later
statement changes.

**Rate limiter** (`ServicesProofs`). `AtMostTwoWindows` is about any span of time
and the counter about the current window. `CountsItsWindow` says that the count
is no less than what was admitted since the window began, and that the window's
length before that saw the limit at most; `MayBegin` says the same of a client
whose entry was cleaned up, for whom a window may begin at any time.

**Permissions** (`ServicesProofs`). Age is handed on: what is granted now was
granted 0 ago (`GrantingNow`), what a load has read at most the load's lag ago
(`LoadsRecent`), what an entry holds at most its age and one load ago
(`EntriesRecent`), which gives `GrantsRecent`.

**Idempotency keys** (`ServicesProofs`). `RepeatedKeysAgree`: a stored answer is
never replaced, and every answer given from a record is the stored one; an answer
given because a look-up failed is not among these. `OneRunForAKey` is about the
harm, a second run: it is excluded as long as the key's requests come one after
the other and lose no look-up or store, since then (`KeyOrderly`) the run is
stored, or its request about to store it, before another request gets past its
look-up. Otherwise the code starts a second one.

**Type invariants** are theorems for all these modules (of `FencedOwnership`,
`Idempotency` and `RateLimiter` as a part of the inductive invariant; of
`MatchPipeline` for what it adds to `MatchQueue`).

**Only model-checked:** liveness (`JobsResolve`, `RetryReturns`, `TurnEnds`,
`ReadersSettle`, `DeadlinesHold`), which needs fairness and is beyond the prover;
and that the violations of section 4 occur.

## 6. Abstractions

* In `MatchPipeline` the simulation is one step with any outcome and a replay
  one file; `MatchPlay` has the inside and both files, and one execution only.
* A graceful stop is a crash or, worker by worker, a cancelled context followed
  by a report that gets lost.
* Documents, frames and lines are reduced to what is compared: a tick, a
  sequence number, whose match, well-formed or not. A final report whose state
  hash or reason disagrees is `FinishFails`; the hash itself is left out.
* The job's `ORDER BY created_at` is any eligible row, since SKIP LOCKED passes
  over locked ones.
* A lost reply of Enqueue ends the request as an answered one would; a lost
  reply of `CreateMatchRun` is part of `RequestBreaks`.
* `results` is the history `commits`: one batch of rows per commit.
* Rankings use the default scoring policy and tie-breakers; the score of a match
  is 1 for its winner and 0 for the others.
* Two readers of one buffer without a lock (`CloseReadsGarbled`) may get a line
  whole or spoilt.
* In `Idempotency` all of RunMatch is one step; `MatchPipeline` has its parts.
* A command enters the engine's pipe in one step, when its write returns; until
  then the method is writing, possibly for ever. What the pipe holds is not
  measured, and a command is never there in part.
* Enrolments and recalculations share rows but are explored apart: `Rankings` has
  of an enrolment what writes entry and row, `Registration` of a recalculation that
  it may add a row.
* There is one contest, and a user acts for their own agents.
* Fallbacks for repositories without transactions or compare-and-set, which only
  tests use, are left out.

## 7. Not modelled

* *Execution spec and canonical JSON* (`model/`): pure functions on documents,
  hashing and validating field by field, covered by unit tests.
* *HTTP handlers*: decode, call a service, answer; their effects are the services'.
* *Creation, listing and publication* of contests, agents, games and users:
  single statements without a protocol around them.
* *`ranking_applied_runs`*: `ApplyMatchResultIncremental`, its only user, is called by
  a test alone. Scoring policies other than the default differ in arithmetic only.
* *Sandbox* (`executor/sandbox.go`, `fallback.go`): namespaces and resource
  limits are the operating system's; the bot they hold is any process.
* *Tracing, configuration, commands, web client, game assets*: output, wiring and
  user interface. *`src/db`*: a design no Go code uses.

## 8. What could come next

1. `MatchPlay` as a refinement of the simulation step of `MatchPipeline`, and
   `BotSession` and `EngineClient` of its turns and steps, with an abstract
   synchronous call that answers for its own turn or fails.
2. Whether `MemoryQueue` implements `FencedOwnership` as the PostgreSQL queue does;
   its attempts are unbounded, so grants would have to be.
3. One abstract file protocol (temporary, canonical, gone) that the replay files
   of `MatchPlay` and those of `MatchPipeline` both implement.
