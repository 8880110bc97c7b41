---------------------------- MODULE MatchPipeline ----------------------------
(***************************************************************************)
(* One match from the request to run it to its published replay.           *)
(*                                                                         *)
(* MatchQueue says who may commit.  This module adds what the three        *)
(* parties write besides: RunMatch (src/src/service/matches.go), which     *)
(* reads the match, moves it to "queued" by compare-and-set, creates a run *)
(* and enqueues a job, in separate statements; Execute                     *)
(* (src/src/executor/executor.go), which updates the match and the run     *)
(* under no fencing at all before it commits under one; and the replay     *)
(* files (src/src/service/replays.go), written under replays/tmp and moved *)
(* once the commit has succeeded.                                          *)
(*                                                                         *)
(* Every action that touches the queue is MatchQueue's own, with the other *)
(* writes of the same statement conjoined.  commits stands for the table   *)
(* results: one batch for each commit that took effect.  A replay is named *)
(* by the handle of the attempt that wrote it.                             *)
(***************************************************************************)
EXTENDS MatchQueue, Sequences

CONSTANTS
    Requests,       \* calls of RunMatch
    Target,         \* Target[r]: the match of request r
    MaxLapses,      \* bound: leases that run out
    MaxSlips        \* bound: statements, moves and requests that break off

ASSUME TargetAssumption == Target \in [Requests -> Matches]
ASSUME BudgetAssumption == MaxLapses \in Nat /\ MaxSlips \in Nat

VARIABLES
    matches,    \* the rows of table matches
    runs,       \* runs[m][n]: the n-th row of match_runs for m
    tmp,        \* the files under replays/tmp
    published,  \* the files under replays/
    step,       \* step[w]: how far Execute has got
    snap,       \* snap[w]: the match row as Execute loaded it
    todo,       \* todo[w]: the clean-up a failing Execute still has to do
    req,        \* req[r]: the local variables of RunMatch
    unanswered, \* history: the commits whose reply was lost
    lapses,
    slips

store == <<matches, runs, tmp, published>>
local == <<step, snap, todo>>
pipelineVars == <<vars, store, local, req, unanswered, lapses, slips>>

MatchStatus == {"scheduled", "queued", "running", "finished", "failed"}
RunStatus == {"none", "created", "running", "failed", "committed"}
Steps == {"idle", "load", "mark", "start", "prepare", "simulate", "publish",
          "done", "cleanup"}

\* committed_run_id and replay_id are 0 for NULL; a replay id is its token.
MatchRow == [status: MatchStatus, run: Nat, replay: Nat]
RunRow == [status: RunStatus, token: Nat]

Request == [pc: {"ready", "count", "cas", "create", "enqueue", "accepted", "over"},
            seen: MatchStatus, run: Nat]

NewMatch == [status |-> "scheduled", run |-> 0, replay |-> 0]

PipelineTypeOK ==
    /\ TypeOK
    /\ matches \in [Matches -> MatchRow]
    /\ runs \in [Matches -> [1..MaxRuns -> RunRow]]
    /\ tmp \subseteq Handle
    /\ published \subseteq Handle
    /\ step \in [Workers -> Steps]
    /\ snap \in [Workers -> MatchRow]
    /\ todo \in [Workers -> Seq({"match", "discard", "run"})]
    /\ \A w \in Workers : step[w] = "idle" <=> phase[w] = "idle"
    /\ req \in [Requests -> Request]
    /\ unanswered \subseteq Handle
    /\ lapses \in Nat /\ slips \in Nat

PipelineInit ==
    /\ Init
    /\ matches = [m \in Matches |-> NewMatch]
    /\ runs = [m \in Matches |->
                  [n \in 1..MaxRuns |-> [status |-> "none", token |-> 0]]]
    /\ tmp = {}
    /\ published = {}
    /\ step = [w \in Workers |-> "idle"]
    /\ snap = [w \in Workers |-> NewMatch]
    /\ todo = [w \in Workers |-> <<>>]
    /\ req = [r \in Requests |->
                 [pc |-> "ready", seen |-> "scheduled", run |-> 0]]
    /\ unanswered = {}
    /\ lapses = 0
    /\ slips = 0

Slip == slips < MaxSlips /\ slips' = slips + 1

Created(m) == {n \in 1..MaxRuns : runs[m][n].status # "none"}

-----------------------------------------------------------------------------

(***************************************************************************)
(* RunMatch                                                                *)
(***************************************************************************)

At(r, pc) == req[r].pc = pc

GoTo(r, pc) == req' = [req EXCEPT ![r].pc = pc]

UnchangedByRequest == UNCHANGED <<vars, tmp, published, local, unanswered, lapses>>

\* A finished match is refused; a queued or running one is answered with what
\* is there already.
LoadMatch(r) ==
    /\ At(r, "ready")
    /\ LET status == matches[Target[r]].status IN
        req' = [req EXCEPT
            ![r].pc = IF status \in {"scheduled", "failed"} THEN "count" ELSE "over",
            ![r].seen = status]
    /\ UNCHANGED <<matches, runs, slips>>
    /\ UnchangedByRequest

\* The new run's number is one more than the number of runs so far.  When they
\* cannot be listed the error is ignored and the number is 1, which may be the
\* number of a run there is.  MaxRuns bounds it.
CountRuns(r) ==
    /\ At(r, "count")
    /\ \E n \in 1..MaxRuns :
        /\ \/ n = Cardinality(Created(Target[r])) + 1 /\ UNCHANGED slips
           \/ n = 1 /\ Slip
        /\ req' = [req EXCEPT ![r].pc = "cas", ![r].run = n]
    /\ UNCHANGED <<matches, runs>>
    /\ UnchangedByRequest

\* Mutant: the job is enqueued before its run is created.
QueueMatchFirst(r) ==
    /\ At(r, "cas")
    /\ IF matches[Target[r]].status = req[r].seen
       THEN /\ matches' = [matches EXCEPT ![Target[r]].status = "queued"]
            /\ GoTo(r, "enqueue")
       ELSE /\ GoTo(r, "over")
            /\ UNCHANGED matches
    /\ UNCHANGED <<runs, slips>>
    /\ UnchangedByRequest

\* UpdateMatchStatusCAS(status read, queued); when it fails, another request
\* got there first and its run is returned.
QueueMatch(r) ==
    /\ At(r, "cas")
    /\ IF matches[Target[r]].status = req[r].seen
       THEN /\ matches' = [matches EXCEPT ![Target[r]].status = "queued"]
            /\ GoTo(r, "create")
       ELSE /\ GoTo(r, "over")
            /\ UNCHANGED matches
    /\ UNCHANGED <<runs, slips>>
    /\ UnchangedByRequest

\* UpdateMatchStatusCAS(queued, status read), when CreateMatchRun has failed.
PutBack(r) ==
    matches' = IF matches[Target[r]].status = "queued"
               THEN [matches EXCEPT ![Target[r]].status = req[r].seen]
               ELSE matches

AddRun(r) ==
    /\ req[r].run \notin Created(Target[r])
    /\ runs' = [runs EXCEPT ![Target[r]][req[r].run].status = "created"]

\* Mutant: a run that exists already is not an error.
CreateRunAgain(r) ==
    /\ At(r, "create")
    /\ AddRun(r) \/ (req[r].run \in Created(Target[r]) /\ UNCHANGED runs)
    /\ GoTo(r, "enqueue")
    /\ UNCHANGED <<matches, slips>>
    /\ UnchangedByRequest

\* CreateMatchRun; a run of that number exists already if another request
\* counted the same runs.
CreateRun(r) ==
    /\ At(r, "create")
    /\ \/ AddRun(r) /\ GoTo(r, "enqueue") /\ UNCHANGED matches
       \/ /\ req[r].run \in Created(Target[r])
          /\ PutBack(r) /\ GoTo(r, "over") /\ UNCHANGED runs
    /\ UNCHANGED slips
    /\ UnchangedByRequest

\* The job is handed over and the request answered with 202, whether or not
\* the statement changed the row.
EnqueueRun(r) ==
    /\ At(r, "enqueue")
    /\ Enqueue(Target[r], req[r].run)
    /\ GoTo(r, "accepted")
    /\ UNCHANGED <<store, local, unanswered, lapses, slips>>

\* The request breaks off: its process stops or its next statement fails.  A
\* failed CreateMatchRun, which may have taken effect all the same, is undone.
RequestBreaks(r) ==
    /\ req[r].pc \in {"count", "cas", "create", "enqueue"}
    /\ Slip
    /\ \/ UNCHANGED <<matches, runs>>
       \/ At(r, "create") /\ PutBack(r) /\ (AddRun(r) \/ UNCHANGED runs)
    /\ GoTo(r, "over")
    /\ UnchangedByRequest

-----------------------------------------------------------------------------

(***************************************************************************)
(* Execute                                                                 *)
(***************************************************************************)

MatchOf(w) == handle[w].match
RunOf(w) == handle[w].run

Advance(w, next) == step' = [step EXCEPT ![w] = next]

\* Mutants: the committed run is left as it is; the status of a finished match
\* is left as it is.
UpdateMatchKeepsRun(w, status) ==
    matches' = [matches EXCEPT
        ![MatchOf(w)].status = status, ![MatchOf(w)].replay = snap[w].replay]

UpdateMatchKeepsFinished(w, status) ==
    matches' = [matches EXCEPT ![MatchOf(w)] =
        [snap[w] EXCEPT !.status = IF matches[MatchOf(w)].status = "finished"
                                   THEN "finished" ELSE status]]

\* UpdateMatch writes status, replay and committed run of the row loaded at
\* the start; it has no condition on what the row says now.
UpdateMatch(w, status) ==
    matches' = [matches EXCEPT ![MatchOf(w)] = [snap[w] EXCEPT !.status = status]]

\* StartMatchRun only touches a run that has not ended.
StartMatchRun(w) ==
    runs' = IF runs[MatchOf(w)][RunOf(w)].status \in {"created", "running"}
            THEN [runs EXCEPT ![MatchOf(w)][RunOf(w)] =
                    [status |-> "running", token |-> handle[w].token]]
            ELSE runs

FailMatchRun(w) ==
    runs' = [runs EXCEPT ![MatchOf(w)][RunOf(w)].status = "failed"]

\* The statement w issues next takes effect; a cancelled context stops it, and
\* so may any other error, which Execute ignores.
Reaches(w) == alive[w] /\ UNCHANGED slips
Misses(w) == IF alive[w] THEN Slip ELSE UNCHANGED slips

Reserve(w, m) ==
    /\ Dequeue(w, m)
    /\ Advance(w, "load")
    /\ UNCHANGED <<store, snap, todo, req, unanswered, lapses, slips>>

Load(w) ==
    /\ step[w] = "load"
    /\ alive[w]
    /\ snap' = [snap EXCEPT ![w] = matches[MatchOf(w)]]
    /\ Advance(w, "mark")
    /\ UNCHANGED <<vars, store, todo, req, unanswered, lapses, slips>>

MarkRunning(w) ==
    /\ step[w] = "mark"
    /\ \/ Reaches(w) /\ UpdateMatch(w, "running")
       \/ Misses(w) /\ UNCHANGED matches
    /\ Advance(w, "start")
    /\ UNCHANGED <<vars, runs, tmp, published, snap, todo, req, unanswered, lapses>>

StartRun(w) ==
    /\ step[w] = "start"
    /\ \/ Reaches(w) /\ StartMatchRun(w)
       \/ Misses(w) /\ UNCHANGED runs
    /\ Advance(w, "prepare")
    /\ UNCHANGED <<vars, matches, tmp, published, snap, todo, req, unanswered, lapses>>

OpenReplay(w) ==
    /\ step[w] = "prepare"
    /\ tmp' = tmp \union {handle[w]}
    /\ Advance(w, "simulate")
    /\ UNCHANGED <<vars, matches, runs, published, snap, todo, req, unanswered, lapses, slips>>

\* Mutant: no such index.
IndexMissing(w) == TRUE

\* The partial unique index idx_match_runs_committed.
IndexAllows(w) ==
    \A n \in 1..MaxRuns :
        runs[MatchOf(w)][n].status = "committed" => n = RunOf(w)

\* CommitMatchResult: job, run, match, results and replay in one transaction.
CommitStore(w) ==
    /\ step[w] = "simulate"
    /\ IndexAllows(w)
    /\ runs' = [runs EXCEPT ![MatchOf(w)][RunOf(w)].status = "committed"]
    /\ matches' = [matches EXCEPT ![MatchOf(w)] =
            [status |-> "finished", run |-> RunOf(w), replay |-> handle[w].token]]

CommitResult(w) ==
    /\ Commit(w)
    /\ CommitStore(w)
    /\ Advance(w, "publish")
    /\ UNCHANGED <<tmp, published, snap, todo, req, unanswered, lapses, slips>>

CommitUnanswered(w) ==
    /\ CommitReplyLost(w)
    /\ CommitStore(w)
    /\ Advance(w, "cleanup")
    /\ todo' = [todo EXCEPT ![w] = <<"discard", "match", "run">>]
    /\ unanswered' = unanswered \union {handle[w]}
    /\ UNCHANGED <<tmp, published, snap, req, lapses, slips>>

\* Mutant: the replay is published before the commit.
PublishEarly(w) ==
    /\ step[w] = "simulate"
    /\ published' = published \union {handle[w]}
    /\ tmp' = tmp \ {handle[w]}
    /\ UNCHANGED <<vars, matches, runs, step, snap, todo, req, unanswered, lapses, slips>>

\* Mutant: a cancelled context counts as a failure to publish and discards.
PublishIfAlive(w) ==
    /\ step[w] = "publish"
    /\ published' = published \union (IF alive[w] THEN {handle[w]} ELSE {})
    /\ tmp' = tmp \ {handle[w]}
    /\ Advance(w, "done")
    /\ UNCHANGED <<vars, matches, runs, snap, todo, req, unanswered, lapses, slips>>

\* Files are moved without a look at the context; a failure is logged.
PublishReplay(w) ==
    /\ step[w] = "publish"
    /\ \/ /\ published' = published \union {handle[w]}
          /\ tmp' = tmp \ {handle[w]}
          /\ UNCHANGED slips
       \/ Slip /\ UNCHANGED <<published, tmp>>
    /\ Advance(w, "done")
    /\ UNCHANGED <<vars, matches, runs, snap, todo, req, unanswered, lapses>>

\* What the error paths of Execute still do before they return: nothing (load,
\* submissions, reference bots), engine errors, storage and bot session errors;
\* later also a failed tick and a refused or failed commit.
Plans(s) ==
    CASE s = "load"     -> {<<>>}
      [] s = "prepare"  -> {<<>>, <<"match", "run">>, <<"match">>}
      [] s = "simulate" -> {<<"match">>, <<"match", "run">>,
                            <<"match", "discard", "run">>,
                            <<"discard", "match", "run">>}
      [] OTHER          -> {}

Fail(w) ==
    /\ \E plan \in Plans(step[w]) : todo' = [todo EXCEPT ![w] = plan]
    /\ ExecuteFails(w)
    /\ Advance(w, "cleanup")
    /\ UNCHANGED <<store, snap, req, unanswered, lapses, slips>>

CleanupStep(w) ==
    /\ step[w] = "cleanup"
    /\ todo[w] # <<>>
    /\ todo' = [todo EXCEPT ![w] = Tail(@)]
    /\ \/ /\ Head(todo[w]) = "match"
          /\ \/ Reaches(w) /\ UpdateMatch(w, "failed")
             \/ Misses(w) /\ UNCHANGED matches
          /\ UNCHANGED <<runs, tmp>>
       \/ /\ Head(todo[w]) = "run"
          /\ \/ Reaches(w) /\ FailMatchRun(w)
             \/ Misses(w) /\ UNCHANGED runs
          /\ UNCHANGED <<matches, tmp>>
       \/ /\ Head(todo[w]) = "discard"
          /\ tmp' = tmp \ {handle[w]}
          /\ UNCHANGED <<matches, runs, slips>>
    /\ UNCHANGED <<vars, published, step, snap, req, unanswered, lapses>>

\* Execute returns and the worker reports to the queue.
LeaveExecute(w) ==
    /\ Advance(w, "idle")
    /\ snap' = [snap EXCEPT ![w] = NewMatch]
    /\ UNCHANGED <<store, todo, req, unanswered, lapses, slips>>

ReportSuccess(w) == step[w] = "done" /\ Complete(w) /\ LeaveExecute(w)

ReportFailure(w) ==
    /\ step[w] = "cleanup"
    /\ todo[w] = <<>>
    /\ Retry(w) \/ RetryLost(w)
    /\ LeaveExecute(w)

Beat(w) ==
    /\ Heartbeat(w) \/ HeartbeatLost(w)
    /\ UNCHANGED <<store, local, req, unanswered, lapses, slips>>

Stop(p) ==
    /\ Crash(p)
    /\ step' = [w \in Workers |-> IF Host[w] = p THEN "idle" ELSE step[w]]
    /\ snap' = [w \in Workers |-> IF Host[w] = p THEN NewMatch ELSE snap[w]]
    /\ todo' = [w \in Workers |-> IF Host[w] = p THEN <<>> ELSE todo[w]]
    /\ UNCHANGED <<store, req, unanswered, lapses, slips>>

ReservationLost(p, m) ==
    DequeueReplyLost(p, m) /\ UNCHANGED <<store, local, req, unanswered, lapses, slips>>

Lapse(m) ==
    /\ lapses < MaxLapses
    /\ lapses' = lapses + 1
    /\ LeaseExpires(m)
    /\ UNCHANGED <<store, local, req, unanswered, slips>>

Due(m) == BackoffElapses(m) /\ UNCHANGED <<store, local, req, unanswered, lapses, slips>>

-----------------------------------------------------------------------------

RequestStep(r) ==
    \/ LoadMatch(r)
    \/ CountRuns(r)
    \/ QueueMatch(r)
    \/ CreateRun(r)
    \/ EnqueueRun(r)
    \/ RequestBreaks(r)

ExecutorStep(w) ==
    \/ \E m \in Matches : Reserve(w, m)
    \/ Load(w)
    \/ MarkRunning(w)
    \/ StartRun(w)
    \/ OpenReplay(w)
    \/ CommitResult(w)
    \/ CommitUnanswered(w)
    \/ PublishReplay(w)
    \/ Fail(w)
    \/ CleanupStep(w)
    \/ ReportSuccess(w)
    \/ ReportFailure(w)
    \/ Beat(w)

PipelineNext ==
    \/ \E r \in Requests : RequestStep(r)
    \/ \E w \in Workers : ExecutorStep(w)
    \/ \E m \in Matches : Lapse(m) \/ Due(m)
    \/ \E p \in Processes : Stop(p)
    \/ \E p \in Processes, m \in Matches : ReservationLost(p, m)

PipelineSpec == PipelineInit /\ [][PipelineNext]_pipelineVars

-----------------------------------------------------------------------------

\* Every replay under its canonical path was committed (ADR 0006: "respaldado
\* por una transacción comprometida").
PublishedCommitted == published \subseteq commits

\* Every stored result has its replay, published or on its way, unless the
\* reply to its own commit was lost: no clean-up, stale write, crash or renewal
\* that fails after the commit takes the replay of a result away.
ResultsHaveReplay == commits \ unanswered \subseteq tmp \union published

\* A match that names a run and a replay names those of one commit; a stale
\* row written back by another worker cannot mix two of them.
MatchNamesOneCommit ==
    \A m \in Matches : matches[m].run # 0 =>
        [match |-> m, run |-> matches[m].run, token |-> matches[m].replay]
            \in commits

\* A finished match has a result.
FinishedHasResult ==
    \A m \in Matches : matches[m].status = "finished" => matches[m].run # 0

\* At any time at most one run of a match is committed.
OneCommittedRun ==
    \A m \in Matches, i, j \in 1..MaxRuns :
        runs[m][i].status = "committed" /\ runs[m][j].status = "committed" => i = j

\* A job is enqueued for a run that exists.
JobsHaveRuns ==
    \A m \in Matches :
        /\ issued[m] \subseteq Created(m)
        /\ jobs[m].status # "absent" => jobs[m].run \in Created(m)

\* No run is enqueued twice, although requests may count the same runs and a
\* match may return to the status each of them read: a request about to
\* enqueue its run is the only one, and nobody did so before.
RunsEnqueuedOnce ==
    \A r \in Requests : At(r, "enqueue") =>
        /\ req[r].run \notin issued[Target[r]]
        /\ \A q \in Requests :
            At(q, "enqueue") /\ Target[q] = Target[r] /\ req[q].run = req[r].run
                => q = r

\* A finished match stays finished, with the result it has.
FinishedIsFinal ==
    [][\A m \in Matches :
        matches[m].status = "finished" => matches'[m] = matches[m]]_matches

Calm == lapses' = 0 /\ faults' = 0 /\ slips' = 0

\* For one request it does, until a lease lapses, a call is lost or a statement
\* fails.
CalmFinishedIsFinal ==
    [][\A m \in Matches :
        Calm /\ matches[m].status = "finished" => matches'[m] = matches[m]]_matches

Untroubled == lapses = 0 /\ faults = 0

\* Until a lease lapses, a process stops or a call is lost, a match keeps the
\* result it names, and its run stays committed, although requests that read an
\* earlier status may enqueue and execute another run of it.
CalmResultKept ==
    [][\A m \in Matches :
        Untroubled' /\ matches[m].run # 0 =>
            /\ matches'[m].run = matches[m].run
            /\ matches'[m].replay = matches[m].replay
            /\ runs'[m][matches[m].run].status = "committed"]_<<matches, runs>>

\* A failed run stays failed.  (It does not: a retry starts it again.)
FailedIsFinal ==
    [][\A m \in Matches, n \in 1..MaxRuns :
        runs[m][n].status = "failed" => runs'[m][n].status = "failed"]_runs

\* An accepted request's run was taken up by the queue: it is the row's, or was
\* when it was started, or its result is in.
AcceptedRunTaken ==
    \A r \in Requests : At(r, "accepted") =>
        \/ jobs[Target[r]].run = req[r].run
        \/ runs[Target[r]][req[r].run].status # "created"

\* A queued match has a job to come, or a request still at work on it.  (It need
\* not: the request may have broken off before its enqueue.)
QueuedHasJob ==
    \A m \in Matches : matches[m].status = "queued" =>
        \/ Unresolved(m)
        \/ \E r \in Requests : Target[r] = m /\ req[r].pc \in {"create", "enqueue"}

\* All the results of a match belong to one run.
OneRunPerMatch ==
    \A c, d \in commits : c.match = d.match => c.run = d.run

-----------------------------------------------------------------------------

(***************************************************************************)
(* The inductive invariant of the proofs in MatchPipelineProofs.           *)
(***************************************************************************)

\* Where Execute is and what the queue knows of its worker agree.
StepsFollowPhases ==
    \A w \in Workers :
        /\ step[w] \in {"load", "mark", "start", "prepare", "simulate"}
               <=> phase[w] = "executing"
        /\ step[w] \in {"publish", "done"} <=> phase[w] = "succeeded"
        /\ step[w] = "cleanup" <=> phase[w] = "errored"

\* A request past its checks read a status it may start from, and has counted
\* and created its run by the time it needs it.
RequestsSound ==
    \A r \in Requests :
        /\ req[r].pc \in {"count", "cas", "create", "enqueue"}
               => req[r].seen \in {"scheduled", "failed"}
        /\ req[r].pc \in {"cas", "create", "enqueue"}
               => req[r].run \in 1..MaxRuns
        /\ req[r].pc = "enqueue" => req[r].run \in Created(Target[r])

\* A worker executes a run that was issued.
HandlesIssued ==
    \A w \in Workers : Busy(w) => handle[w].run \in issued[handle[w].match]

\* The row as an execution loaded it also names the run and replay of one
\* commit, and an execution has a row only once it has loaded it.
SnapsNameOneCommit ==
    \A w \in Workers : snap[w].run # 0 =>
        /\ step[w] \notin {"idle", "load"}
        /\ [match |-> MatchOf(w), run |-> snap[w].run, token |-> snap[w].replay]
               \in commits

\* No commit is ahead of the tokens handed out.
CommitsBehind == \A c \in commits : c.token <= jobs[c.match].token

\* Only an execution that has committed has a commit under its handle, unless
\* the reply was lost.
UncommittedUntilSucceeded ==
    \A w \in Workers :
        phase[w] \in {"executing", "errored"} => handle[w] \notin commits \ unanswered

\* An execution that will commit or has just committed has its replay at hand.
ReplaysAtHand ==
    \A w \in Workers : step[w] \in {"simulate", "publish"} => handle[w] \in tmp

PipelineInv ==
    /\ IInv
    /\ PipelineTypeOK
    /\ StepsFollowPhases
    /\ RequestsSound
    /\ HandlesIssued
    /\ JobsHaveRuns
    /\ RunsEnqueuedOnce
    /\ OneCommittedRun
    /\ FinishedHasResult
    /\ MatchNamesOneCommit
    /\ SnapsNameOneCommit
    /\ PublishedCommitted
    /\ CommitsBehind
    /\ UncommittedUntilSucceeded
    /\ ReplaysAtHand
    /\ ResultsHaveReplay

-----------------------------------------------------------------------------

(***************************************************************************)
(* What PipelineInv is strengthened with to prove CalmResultKept, and      *)
(* CalmFinishedIsFinal when no two requests are for the same match.        *)
(***************************************************************************)

\* Until a lease lapses, a process stops or a call is lost, no lease has run
\* out and an execution without a commit holds its row.
CalmHolds ==
    Untroubled =>
        /\ \A m \in Matches : ~jobs[m].expired
        /\ \A w \in Workers : phase[w] \in {"executing", "errored"} => HoldsJob(w)

\* An execution that may still write back the row it loaded.
Remembers(w) ==
    \/ step[w] \in {"mark", "start", "prepare", "simulate"}
    \/ step[w] = "cleanup" /\ todo[w] # <<>>

\* Nor does what such an execution remembers of its match's result differ from
\* what the match says, and the run of a result is committed.
CalmResults ==
    Untroubled =>
        /\ \A m \in Matches :
            matches[m].run # 0 => runs[m][matches[m].run].status = "committed"
        /\ \A w \in Workers : Remembers(w) =>
            /\ snap[w].run = matches[MatchOf(w)].run
            /\ snap[w].replay = matches[MatchOf(w)].replay

ResultInv == PipelineInv /\ CalmHolds /\ CalmResults

OneRequestEach == \A r, q \in Requests : Target[r] = Target[q] => r = q

\* A row is there only once its request was accepted.
RowsAccepted ==
    \A m \in Matches : jobs[m].status # "absent" =>
        \E r \in Requests : Target[r] = m /\ At(r, "accepted")

\* Until there is trouble the row of a finished match is completed.
CalmFinished ==
    Untroubled => \A m \in Matches :
        matches[m].status = "finished" => jobs[m].status = "completed"

CalmInv == PipelineInv /\ CalmHolds /\ RowsAccepted /\ CalmFinished
=============================================================================
