------------------------- MODULE MatchPipelineProofs -------------------------
(***************************************************************************)
(* Proofs about MatchPipeline, for any number of matches, requests,        *)
(* processes, workers, attempts and runs, and any budgets.                 *)
(*                                                                         *)
(* Each step of the pipeline is a step of MatchQueue or does not touch its *)
(* variables (QueueStep), so the invariant of MatchQueueProofs holds here  *)
(* too.  PipelineInv adds to it what the unfenced writes rest on: the row  *)
(* a worker writes back names no result or a committed one, because the    *)
(* row it loaded did, and a commit is never forgotten.                     *)
(***************************************************************************)
EXTENDS MatchPipeline, MatchQueueProofs

-----------------------------------------------------------------------------

(***************************************************************************)
(* The pipeline and the queue                                              *)
(***************************************************************************)

LEMMA RequestQueueStep ==
    ASSUME PipelineInv, NEW r \in Requests, RequestStep(r)
    PROVE  [Next]_vars
<1>1. CASE EnqueueRun(r)
  <2>1. Target[r] \in Matches /\ req[r].run \in 1..MaxRuns
    BY <1>1, TargetAssumption DEF PipelineInv, RequestsSound, EnqueueRun, At
  <2> QED
    BY <1>1, <2>1 DEF EnqueueRun, Next
<1>2. CASE \/ LoadMatch(r) \/ CountRuns(r) \/ QueueMatch(r)
           \/ CreateRun(r) \/ RequestBreaks(r)
  BY <1>2 DEF LoadMatch, CountRuns, QueueMatch, CreateRun, RequestBreaks,
              UnchangedByRequest
<1> QED
  BY <1>1, <1>2 DEF RequestStep

LEMMA ExecutorQueueStep ==
    ASSUME NEW w \in Workers, ExecutorStep(w)
    PROVE  [Next]_vars
<1>1. ASSUME NEW m \in Matches, Reserve(w, m)
      PROVE  Next
  BY <1>1 DEF Reserve, Next, WorkerStep
<1>2. CASE CommitResult(w)
  BY <1>2 DEF CommitResult, Next, WorkerStep
<1>3. CASE CommitUnanswered(w)
  BY <1>3 DEF CommitUnanswered, Next, WorkerStep
<1>4. CASE Fail(w)
  BY <1>4 DEF Fail, Next, WorkerStep
<1>5. CASE ReportSuccess(w)
  BY <1>5 DEF ReportSuccess, Next, WorkerStep
<1>6. CASE ReportFailure(w)
  BY <1>6 DEF ReportFailure, Next, WorkerStep
<1>7. CASE Beat(w)
  BY <1>7 DEF Beat, Next, WorkerStep
<1>8. CASE \/ Load(w) \/ MarkRunning(w) \/ StartRun(w) \/ OpenReplay(w)
           \/ PublishReplay(w) \/ CleanupStep(w)
  BY <1>8 DEF Load, MarkRunning, StartRun, OpenReplay, PublishReplay, CleanupStep
<1> QED
  BY <1>1, <1>2, <1>3, <1>4, <1>5, <1>6, <1>7, <1>8 DEF ExecutorStep

LEMMA QueueStep == PipelineInv /\ [PipelineNext]_pipelineVars => [Next]_vars
<1> SUFFICES ASSUME PipelineInv, [PipelineNext]_pipelineVars
             PROVE  [Next]_vars
  OBVIOUS
<1>1. ASSUME NEW m \in Matches, Lapse(m) \/ Due(m)
      PROVE  Next
  BY <1>1 DEF Lapse, Due, Next
<1>2. ASSUME NEW p \in Processes, Stop(p)
      PROVE  Next
  BY <1>2 DEF Stop, Next
<1>3. ASSUME NEW p \in Processes, NEW m \in Matches, ReservationLost(p, m)
      PROVE  Next
  BY <1>3 DEF ReservationLost, Next
<1>4. CASE UNCHANGED pipelineVars
  BY <1>4 DEF pipelineVars
<1> QED
  BY <1>1, <1>2, <1>3, <1>4, RequestQueueStep, ExecutorQueueStep DEF PipelineNext

\* Commits are never taken back.
LEMMA CommitsGrow == [Next]_vars => commits \subseteq commits'
  BY DEF Next, vars, Enqueue, LeaseExpires, BackoffElapses, WorkerStep, Dequeue,
         Heartbeat, HeartbeatLost, Commit, CommitReplyLost, CommitRow,
         ExecuteFails, Complete, Retry, RetryLost, Crash, DequeueReplyLost

-----------------------------------------------------------------------------

(***************************************************************************)
(* Types                                                                   *)
(***************************************************************************)

LEMMA InitPipelineInv == PipelineInit => PipelineInv
<1> SUFFICES ASSUME PipelineInit
             PROVE  PipelineInv
  OBVIOUS
<1>1. IInv
  BY InitIInv DEF PipelineInit
<1>2. PipelineTypeOK
  BY <1>1, TargetAssumption
     DEF PipelineInit, Init, IInv, PipelineTypeOK, MatchRow, MatchStatus, RunRow,
         RunStatus, Request, NewMatch, Steps
<1>3. /\ StepsFollowPhases
      /\ RequestsSound
      /\ HandlesIssued
      /\ ReplaysAtHand
  BY DEF PipelineInit, Init, StepsFollowPhases, RequestsSound, HandlesIssued,
         ReplaysAtHand, Busy
<1>4. /\ JobsHaveRuns
      /\ RunsEnqueuedOnce
      /\ OneCommittedRun
  BY DEF PipelineInit, Init, InitJobs, AbsentRow, JobsHaveRuns, OneCommittedRun,
         RunsEnqueuedOnce, At
<1>5. /\ FinishedHasResult
      /\ MatchNamesOneCommit
      /\ SnapsNameOneCommit
  BY DEF PipelineInit, NewMatch, FinishedHasResult, MatchNamesOneCommit,
         SnapsNameOneCommit
<1>6. /\ PublishedCommitted
      /\ CommitsBehind
      /\ UncommittedUntilSucceeded
      /\ ResultsHaveReplay
  BY DEF PipelineInit, Init, PublishedCommitted, CommitsBehind,
         UncommittedUntilSucceeded, ResultsHaveReplay
<1> QED
  BY <1>1, <1>2, <1>3, <1>4, <1>5, <1>6 DEF PipelineInv

\* Writing one column of a row leaves well-formed tables behind.
LEMMA MatchWritten ==
    ASSUME matches \in [Matches -> MatchRow], NEW m \in Matches,
           NEW status \in MatchStatus
    PROVE  [matches EXCEPT ![m].status = status] \in [Matches -> MatchRow]
<1>1. [matches[m] EXCEPT !.status = status] \in MatchRow
  BY DEF MatchRow
<1> QED
  BY <1>1

LEMMA RunWritten ==
    ASSUME runs \in [Matches -> [1..MaxRuns -> RunRow]], NEW m \in Matches,
           NEW n \in 1..MaxRuns, NEW status \in RunStatus
    PROVE  [runs EXCEPT ![m][n].status = status]
               \in [Matches -> [1..MaxRuns -> RunRow]]
<1>1. runs[m] \in [1..MaxRuns -> RunRow] /\ runs[m][n] \in RunRow
  OBVIOUS
<1>2. [runs[m][n] EXCEPT !.status = status] \in RunRow
  BY <1>1 DEF RunRow
<1>3. [runs[m] EXCEPT ![n].status = status] \in [1..MaxRuns -> RunRow]
  BY <1>1, <1>2
<1> QED
  BY <1>3

LEMMA RequestTypes ==
    ASSUME PipelineInv, NEW r \in Requests, RequestStep(r)
    PROVE  /\ req' \in [Requests -> Request]
           /\ matches' \in [Matches -> MatchRow]
           /\ runs' \in [Matches -> [1..MaxRuns -> RunRow]]
           /\ slips' \in Nat
<1> USE TargetAssumption, BudgetAssumption, BoundAssumption
<1>1. /\ req \in [Requests -> Request]
      /\ matches \in [Matches -> MatchRow]
      /\ runs \in [Matches -> [1..MaxRuns -> RunRow]]
      /\ slips \in Nat
      /\ Target[r] \in Matches
      /\ req[r] \in Request
      /\ matches[Target[r]] \in MatchRow
  BY DEF PipelineInv, PipelineTypeOK
<1>2. CASE LoadMatch(r)
  BY <1>1, <1>2 DEF LoadMatch, Request, MatchRow
<1>3. CASE CountRuns(r)
  <2>1. PICK n \in 1..MaxRuns : req' = [req EXCEPT ![r].pc = "cas", ![r].run = n]
    BY <1>3 DEF CountRuns
  <2>2. n \in Nat
    OBVIOUS
  <2> HIDE BoundAssumption
  <2>3. [req[r] EXCEPT !.pc = "cas", !.run = n] \in Request
    BY <1>1, <2>2 DEF Request
  <2>4. req' \in [Requests -> Request]
    BY <1>1, <2>1, <2>3
  <2>5. slips' \in Nat /\ UNCHANGED <<matches, runs>>
    BY <1>1, <1>3 DEF CountRuns, Slip
  <2> QED
    BY <1>1, <2>4, <2>5
<1>4. ASSUME NEW pc \in {"create", "enqueue", "accepted", "over"}, GoTo(r, pc)
      PROVE  req' \in [Requests -> Request]
  <2>1. [req[r] EXCEPT !.pc = pc] \in Request
    BY <1>1 DEF Request
  <2> QED
    BY <1>1, <1>4, <2>1 DEF GoTo
<1>5. CASE QueueMatch(r)
  <2>1. "queued" \in MatchStatus
    BY DEF MatchStatus
  <2>2. \/ matches' = [matches EXCEPT ![Target[r]].status = "queued"]
        \/ matches' = matches
    BY <1>5 DEF QueueMatch
  <2>3. matches' \in [Matches -> MatchRow]
    BY <1>1, <2>1, <2>2, MatchWritten
  <2> QED
    BY <1>1, <1>4, <1>5, <2>3 DEF QueueMatch
<1>6. ASSUME PutBack(r)
      PROVE  matches' \in [Matches -> MatchRow]
  BY <1>1, <1>6, MatchWritten DEF PutBack, Request
<1>7. ASSUME AddRun(r), At(r, "create")
      PROVE  runs' \in [Matches -> [1..MaxRuns -> RunRow]]
  <2>1. req[r].run \in 1..MaxRuns /\ "created" \in RunStatus
    BY <1>7 DEF RunStatus, PipelineInv, RequestsSound, At
  <2> QED
    BY <1>1, <1>7, <2>1, RunWritten DEF AddRun
<1>8. CASE EnqueueRun(r)
  BY <1>1, <1>4, <1>8 DEF EnqueueRun, store
<1>9. CASE CreateRun(r)
  BY <1>1, <1>4, <1>6, <1>7, <1>9 DEF CreateRun
<1>10. CASE RequestBreaks(r)
  BY <1>1, <1>4, <1>6, <1>7, <1>10 DEF RequestBreaks, Slip
<1> QED
  BY <1>2, <1>3, <1>5, <1>8, <1>9, <1>10 DEF RequestStep

\* What is known of a worker that executes a job.
LEMMA AtWork ==
    ASSUME PipelineInv, NEW w \in Workers, step[w] # "idle"
    PROVE  /\ handle[w] \in Handle
           /\ MatchOf(w) \in Matches
           /\ RunOf(w) \in 1..MaxRuns
           /\ RunOf(w) \in issued[MatchOf(w)]
           /\ snap[w] \in MatchRow
<1>1. Busy(w)
  BY DEF PipelineInv, PipelineTypeOK, Busy
<1>2. handle[w] \in Handle
  BY <1>1 DEF PipelineInv, IInv, TypeOK, Busy
<1>3. RunOf(w) \in issued[MatchOf(w)]
  BY <1>1 DEF PipelineInv, HandlesIssued, MatchOf, RunOf
<1>4. MatchOf(w) \in Matches
  BY <1>2 DEF Handle, MatchOf
<1>5. issued[MatchOf(w)] \subseteq 1..MaxRuns
  BY <1>4 DEF PipelineInv, IInv, TypeOK
<1> QED
  BY <1>2, <1>3, <1>4, <1>5 DEF PipelineInv, PipelineTypeOK

\* The unfenced writes leave well-formed tables behind.
LEMMA UpdateTypes ==
    ASSUME PipelineInv, NEW w \in Workers, step[w] # "idle"
    PROVE  /\ \A status \in MatchStatus :
                UpdateMatch(w, status) => matches' \in [Matches -> MatchRow]
           /\ StartMatchRun(w) => runs' \in [Matches -> [1..MaxRuns -> RunRow]]
           /\ FailMatchRun(w) => runs' \in [Matches -> [1..MaxRuns -> RunRow]]
<1>1. /\ matches \in [Matches -> MatchRow]
      /\ runs \in [Matches -> [1..MaxRuns -> RunRow]]
      /\ handle[w] \in Handle
      /\ MatchOf(w) \in Matches
      /\ RunOf(w) \in 1..MaxRuns
      /\ snap[w] \in MatchRow
  BY AtWork DEF PipelineInv, PipelineTypeOK
<1>2. ASSUME NEW status \in MatchStatus, UpdateMatch(w, status)
      PROVE  matches' \in [Matches -> MatchRow]
  <2>1. [snap[w] EXCEPT !.status = status] \in MatchRow
    BY <1>1 DEF MatchRow
  <2> QED
    BY <1>1, <1>2, <2>1 DEF UpdateMatch
<1>3. ASSUME StartMatchRun(w)
      PROVE  runs' \in [Matches -> [1..MaxRuns -> RunRow]]
  <2>1. [status |-> "running", token |-> handle[w].token] \in RunRow
    BY <1>1 DEF RunRow, RunStatus, Handle
  <2> QED
    BY <1>1, <1>3, <2>1 DEF StartMatchRun
<1>4. ASSUME FailMatchRun(w)
      PROVE  runs' \in [Matches -> [1..MaxRuns -> RunRow]]
  <2>1. "failed" \in RunStatus
    BY DEF RunStatus
  <2> QED
    BY <1>1, <1>4, <2>1, RunWritten DEF FailMatchRun
<1> QED
  BY <1>2, <1>3, <1>4

LEMMA CommitTypes ==
    ASSUME PipelineInv, NEW w \in Workers, CommitStore(w)
    PROVE  /\ matches' \in [Matches -> MatchRow]
           /\ runs' \in [Matches -> [1..MaxRuns -> RunRow]]
<1>1. /\ matches \in [Matches -> MatchRow]
      /\ runs \in [Matches -> [1..MaxRuns -> RunRow]]
      /\ handle[w] \in Handle
      /\ MatchOf(w) \in Matches
      /\ RunOf(w) \in 1..MaxRuns
  BY AtWork DEF PipelineInv, PipelineTypeOK, CommitStore
<1>2. [status |-> "finished", run |-> RunOf(w), replay |-> handle[w].token]
          \in MatchRow
  BY <1>1 DEF MatchRow, MatchStatus, Handle
<1>3. "committed" \in RunStatus
  BY DEF RunStatus
<1>4. matches' \in [Matches -> MatchRow]
  BY <1>1, <1>2 DEF CommitStore
<1>5. runs' \in [Matches -> [1..MaxRuns -> RunRow]]
  BY <1>1, <1>3, RunWritten DEF CommitStore
<1> QED
  BY <1>4, <1>5

Duties == {"match", "discard", "run"}

\* The type invariant without the queue and without the link to phase.
Columns ==
    /\ matches \in [Matches -> MatchRow]
    /\ runs \in [Matches -> [1..MaxRuns -> RunRow]]
    /\ tmp \subseteq Handle
    /\ published \subseteq Handle
    /\ step \in [Workers -> Steps]
    /\ snap \in [Workers -> MatchRow]
    /\ todo \in [Workers -> Seq(Duties)]
    /\ req \in [Requests -> Request]
    /\ unanswered \subseteq Handle
    /\ lapses \in Nat
    /\ slips \in Nat

LEMMA ColumnsTyped == PipelineInv => Columns
  BY DEF PipelineInv, PipelineTypeOK, Columns, Duties

LEMMA PlansTyped == \A s : Plans(s) \subseteq Seq(Duties)
<1>1. /\ <<>> \in Seq(Duties)
      /\ <<"match">> \in Seq(Duties)
      /\ <<"match", "run">> \in Seq(Duties)
      /\ <<"match", "discard", "run">> \in Seq(Duties)
      /\ <<"discard", "match", "run">> \in Seq(Duties)
  BY DEF Duties
<1> QED
  BY <1>1 DEF Plans

LEMMA ExecutorColumns ==
    ASSUME PipelineInv, NEW w \in Workers, ExecutorStep(w)
    PROVE  Columns'
<1> USE BudgetAssumption
<1>0. Columns /\ NewMatch \in MatchRow
  BY ColumnsTyped DEF NewMatch, MatchRow, MatchStatus
<1>1. \A next \in Steps : Advance(w, next) => step' \in [Workers -> Steps]
  BY <1>0 DEF Columns, Advance
<1>2. Reaches(w) \/ Misses(w) => slips' \in Nat
  BY <1>0 DEF Columns, Reaches, Misses, Slip
<1>3. ASSUME NEW m \in Matches, Reserve(w, m)
      PROVE  Columns'
  BY <1>0, <1>1, <1>3 DEF Reserve, Columns, Steps, store
<1>4. CASE Load(w)
  <2>1. snap' \in [Workers -> MatchRow]
    BY <1>0, <1>4, AtWork DEF Columns, Load
  <2> QED
    BY <1>0, <1>1, <1>4, <2>1 DEF Load, Columns, Steps, store
<1>5. CASE MarkRunning(w)
  <2>1. "running" \in MatchStatus
    BY DEF MatchStatus
  <2>2. matches' \in [Matches -> MatchRow] /\ slips' \in Nat
    BY <1>0, <1>2, <1>5, <2>1, UpdateTypes DEF MarkRunning, Columns
  <2> QED
    BY <1>0, <1>1, <1>5, <2>2 DEF MarkRunning, Columns, Steps
<1>6. CASE StartRun(w)
  <2>1. runs' \in [Matches -> [1..MaxRuns -> RunRow]] /\ slips' \in Nat
    BY <1>0, <1>2, <1>6, UpdateTypes DEF StartRun, Columns
  <2> QED
    BY <1>0, <1>1, <1>6, <2>1 DEF StartRun, Columns, Steps
<1>7. CASE OpenReplay(w)
  <2>1. handle[w] \in Handle
    BY <1>7, AtWork DEF OpenReplay
  <2> QED
    BY <1>0, <1>1, <1>7, <2>1 DEF OpenReplay, Columns, Steps
<1>8. CASE CommitResult(w)
  <2>1. /\ matches' \in [Matches -> MatchRow]
        /\ runs' \in [Matches -> [1..MaxRuns -> RunRow]]
    BY <1>8, CommitTypes DEF CommitResult
  <2> QED
    BY <1>0, <1>1, <1>8, <2>1 DEF CommitResult, Columns, Steps
<1>9. CASE CommitUnanswered(w)
  <2>1. /\ matches' \in [Matches -> MatchRow]
        /\ runs' \in [Matches -> [1..MaxRuns -> RunRow]]
    BY <1>9, CommitTypes DEF CommitUnanswered
  <2>2. todo' \in [Workers -> Seq(Duties)]
    <3>1. <<"discard", "match", "run">> \in Seq(Duties)
      BY DEF Duties
    <3> QED
      BY <1>0, <1>9, <3>1 DEF CommitUnanswered, Columns
  <2>3. unanswered' \subseteq Handle
    BY <1>0, <1>9, AtWork DEF CommitUnanswered, CommitStore, Columns
  <2> QED
    BY <1>0, <1>1, <1>9, <2>1, <2>2, <2>3 DEF CommitUnanswered, Columns, Steps
<1>10. CASE PublishReplay(w)
  <2>1. handle[w] \in Handle
    BY <1>10, AtWork DEF PublishReplay
  <2> QED
    BY <1>0, <1>1, <1>10, <2>1 DEF PublishReplay, Columns, Steps, Slip
<1>11. CASE Fail(w)
  <2>1. todo' \in [Workers -> Seq(Duties)]
    BY <1>0, <1>11, PlansTyped DEF Fail, Columns
  <2> QED
    BY <1>0, <1>1, <1>11, <2>1 DEF Fail, Columns, Steps, store
<1>12. CASE CleanupStep(w)
  <2>1. /\ matches' \in [Matches -> MatchRow]
        /\ runs' \in [Matches -> [1..MaxRuns -> RunRow]]
        /\ tmp' \subseteq Handle
        /\ slips' \in Nat
    <3>1. "failed" \in MatchStatus /\ step[w] # "idle"
      BY <1>12 DEF MatchStatus, CleanupStep
    <3> QED
      BY <1>0, <1>2, <1>12, <3>1, UpdateTypes DEF CleanupStep, Columns
  <2>2. todo' \in [Workers -> Seq(Duties)]
    BY <1>0, <1>12 DEF CleanupStep, Columns
  <2> QED
    BY <1>0, <1>12, <2>1, <2>2 DEF CleanupStep, Columns
<1>13. CASE ReportSuccess(w) \/ ReportFailure(w)
  BY <1>0, <1>1, <1>13
     DEF ReportSuccess, ReportFailure, LeaveExecute, Columns, Steps, store
<1>14. CASE Beat(w)
  BY <1>0, <1>14 DEF Beat, Columns, store, local
<1> QED
  BY <1>3, <1>4, <1>5, <1>6, <1>7, <1>8, <1>9, <1>10, <1>11, <1>12, <1>13, <1>14
     DEF ExecutorStep

LEMMA StepColumns == PipelineInv /\ [PipelineNext]_pipelineVars => Columns'
<1> SUFFICES ASSUME PipelineInv, [PipelineNext]_pipelineVars
             PROVE  Columns'
  OBVIOUS
<1>0. Columns /\ NewMatch \in MatchRow
  BY ColumnsTyped DEF NewMatch, MatchRow, MatchStatus
<1>1. ASSUME NEW r \in Requests, RequestStep(r)
      PROVE  Columns'
  <2>1. UNCHANGED <<tmp, published, local, unanswered, lapses>>
    BY <1>1 DEF RequestStep, LoadMatch, CountRuns, QueueMatch, CreateRun,
                EnqueueRun, RequestBreaks, UnchangedByRequest, store
  <2> QED
    BY <1>0, <1>1, <2>1, RequestTypes DEF Columns, local
<1>2. ASSUME NEW w \in Workers, ExecutorStep(w)
      PROVE  Columns'
  BY <1>2, ExecutorColumns
<1>3. ASSUME NEW m \in Matches, Lapse(m) \/ Due(m)
      PROVE  Columns'
  BY <1>0, <1>3, BudgetAssumption DEF Lapse, Due, Columns, store, local
<1>4. ASSUME NEW p \in Processes, Stop(p)
      PROVE  Columns'
  <2>1. /\ step' \in [Workers -> Steps]
        /\ snap' \in [Workers -> MatchRow]
    BY <1>0, <1>4 DEF Stop, Columns, Steps
  <2>2. todo' \in [Workers -> Seq(Duties)]
    BY <1>0, <1>4 DEF Stop, Columns
  <2> QED
    BY <1>0, <1>4, <2>1, <2>2 DEF Stop, Columns, store
<1>5. ASSUME NEW p \in Processes, NEW m \in Matches, ReservationLost(p, m)
      PROVE  Columns'
  BY <1>0, <1>5 DEF ReservationLost, Columns, store, local
<1>6. CASE UNCHANGED pipelineVars
  BY <1>0, <1>6 DEF pipelineVars, Columns, store, local
<1> QED
  BY <1>1, <1>2, <1>3, <1>4, <1>5, <1>6 DEF PipelineNext

-----------------------------------------------------------------------------

(***************************************************************************)
(* Workers, requests and jobs                                              *)
(***************************************************************************)

LEMMA StepPhases ==
    PipelineInv /\ [PipelineNext]_pipelineVars => StepsFollowPhases'
<1> SUFFICES ASSUME PipelineInv, [PipelineNext]_pipelineVars
             PROVE  StepsFollowPhases'
  OBVIOUS
<1>0. /\ StepsFollowPhases
      /\ step \in [Workers -> Steps]
      /\ phase \in [Workers -> Phases]
  BY DEF PipelineInv, PipelineTypeOK, IInv, TypeOK
<1> USE <1>0 DEF StepsFollowPhases, Steps, Phases
<1>1. CASE UNCHANGED <<step, phase>>
  BY <1>1
<1>2. ASSUME NEW r \in Requests, RequestStep(r)
      PROVE  UNCHANGED <<step, phase>>
  BY <1>2 DEF RequestStep, LoadMatch, CountRuns, QueueMatch, CreateRun,
              EnqueueRun, Enqueue, RequestBreaks, UnchangedByRequest, vars, local
<1>3. ASSUME NEW w \in Workers, ExecutorStep(w)
      PROVE  StepsFollowPhases'
  <2>1. ASSUME NEW m \in Matches, Reserve(w, m)
        PROVE  StepsFollowPhases'
    BY <2>1 DEF Reserve, Dequeue, Advance
  <2>2. CASE Load(w) \/ MarkRunning(w) \/ StartRun(w) \/ OpenReplay(w)
    BY <2>2 DEF Load, MarkRunning, StartRun, OpenReplay, Advance, vars
  <2>3. CASE CommitResult(w)
    BY <2>3 DEF CommitResult, Commit, Advance
  <2>4. CASE CommitUnanswered(w)
    BY <2>4 DEF CommitUnanswered, CommitReplyLost, Advance
  <2>5. CASE PublishReplay(w)
    BY <2>5 DEF PublishReplay, Advance, vars
  <2>6. CASE Fail(w)
    BY <2>6 DEF Fail, ExecuteFails, Advance
  <2>7. CASE CleanupStep(w)
    BY <2>7 DEF CleanupStep, vars
  <2>8. CASE ReportSuccess(w) \/ ReportFailure(w)
    BY <2>8 DEF ReportSuccess, ReportFailure, LeaveExecute, Complete, Retry,
                RetryLost, GoIdle, Advance
  <2>9. CASE Beat(w)
    BY <2>9 DEF Beat, Heartbeat, HeartbeatLost, local
  <2> QED
    BY <1>3, <2>1, <2>2, <2>3, <2>4, <2>5, <2>6, <2>7, <2>8, <2>9 DEF ExecutorStep
<1>4. ASSUME NEW p \in Processes, Stop(p)
      PROVE  StepsFollowPhases'
  BY <1>4 DEF Stop, Crash
<1>5. ASSUME NEW m \in Matches,
             Lapse(m) \/ Due(m) \/ \E p \in Processes : ReservationLost(p, m)
      PROVE  UNCHANGED <<step, phase>>
  BY <1>5 DEF Lapse, Due, ReservationLost, LeaseExpires, BackoffElapses,
              DequeueReplyLost, local
<1>6. CASE UNCHANGED pipelineVars
  BY <1>6, <1>1 DEF pipelineVars, vars, local
<1> QED
  BY <1>1, <1>2, <1>3, <1>4, <1>5, <1>6 DEF PipelineNext

LEMMA StepTypes ==
    PipelineInv /\ [PipelineNext]_pipelineVars => IInv' /\ PipelineTypeOK'
<1> SUFFICES ASSUME PipelineInv, [PipelineNext]_pipelineVars
             PROVE  IInv' /\ PipelineTypeOK'
  OBVIOUS
<1>1. IInv'
  BY QueueStep, StepIInv DEF PipelineInv
<1>2. Columns' /\ StepsFollowPhases'
  BY StepColumns, StepPhases
<1>3. \A w \in Workers : (step[w] = "idle" <=> phase[w] = "idle")'
  BY <1>1, <1>2 DEF IInv, TypeOK, Phases, Columns, Steps, StepsFollowPhases
<1> QED
  BY <1>1, <1>2, <1>3 DEF IInv, PipelineTypeOK, Columns, Duties

\* A statement on one run, and what it leaves in the status column of each.
WithStatus(a, b, s) == [runs EXCEPT ![a][b].status = s]

LEMMA RunStatusAfter ==
    ASSUME runs \in [Matches -> [1..MaxRuns -> RunRow]],
           NEW a \in Matches, NEW b \in 1..MaxRuns, NEW s,
           NEW m \in Matches, NEW n \in 1..MaxRuns
    PROVE  LET after == WithStatus(a, b, s)[m][n].status IN
           /\ m = a /\ n = b => after = s
           /\ m # a \/ n # b => after = runs[m][n].status
<1>1. runs[a] \in [1..MaxRuns -> RunRow] /\ runs[a][b] \in RunRow
  OBVIOUS
<1>2. [runs[a][b] EXCEPT !.status = s].status = s
  BY <1>1 DEF RunRow
<1> DEFINE row == [runs[a][b] EXCEPT !.status = s]
<1>3. WithStatus(a, b, s) = [runs EXCEPT ![a][b] = row]
  BY DEF WithStatus
<1> HIDE DEF row
<1>4. row.status = s
  BY <1>2 DEF row
<1>5. CASE m = a
  <2>1. [runs EXCEPT ![a][b] = row][m] = [runs[a] EXCEPT ![b] = row]
    BY <1>5
  <2>2. [runs[a] EXCEPT ![b] = row][n] = IF n = b THEN row ELSE runs[a][n]
    BY <1>1
  <2> QED
    BY <1>3, <1>4, <1>5, <2>1, <2>2
<1>6. CASE m # a
  BY <1>3, <1>6
<1> QED
  BY <1>5, <1>6

\* What each party writes there.
LEMMA RunsRewritten ==
    ASSUME PipelineInv, NEW m \in Matches, NEW n \in 1..MaxRuns
    PROVE  /\ \A r \in Requests : At(r, "create") /\ AddRun(r) =>
                \/ runs'[m][n].status = runs[m][n].status
                \/ runs'[m][n].status = "created" /\ runs[m][n].status = "none"
           /\ \A w \in Workers : step[w] # "idle" =>
                /\ StartMatchRun(w) =>
                     \/ runs'[m][n].status = runs[m][n].status
                     \/ runs'[m][n].status = "running"
                /\ FailMatchRun(w) =>
                     \/ runs'[m][n].status = runs[m][n].status
                     \/ runs'[m][n].status = "failed"
                /\ CommitStore(w) =>
                     runs'[m][n].status = IF m = MatchOf(w) /\ n = RunOf(w)
                                          THEN "committed" ELSE runs[m][n].status
<1>0. runs \in [Matches -> [1..MaxRuns -> RunRow]]
  BY DEF PipelineInv, PipelineTypeOK
<1>1. ASSUME NEW r \in Requests, At(r, "create"), AddRun(r)
      PROVE  \/ runs'[m][n].status = runs[m][n].status
             \/ runs'[m][n].status = "created" /\ runs[m][n].status = "none"
  <2>1. Target[r] \in Matches /\ req[r].run \in 1..MaxRuns
    BY <1>1, TargetAssumption DEF At, PipelineInv, RequestsSound
  <2>2. runs[Target[r]][req[r].run].status = "none"
    BY <1>1, <2>1 DEF AddRun, Created
  <2>3. runs' = WithStatus(Target[r], req[r].run, "created")
    BY <1>1 DEF AddRun, WithStatus
  <2> QED
    BY <1>0, <2>1, <2>2, <2>3, RunStatusAfter
<1> SUFFICES ASSUME NEW w \in Workers, step[w] # "idle"
             PROVE  /\ StartMatchRun(w) =>
                         \/ runs'[m][n].status = runs[m][n].status
                         \/ runs'[m][n].status = "running"
                    /\ FailMatchRun(w) =>
                         \/ runs'[m][n].status = runs[m][n].status
                         \/ runs'[m][n].status = "failed"
                    /\ CommitStore(w) =>
                         runs'[m][n].status =
                             IF m = MatchOf(w) /\ n = RunOf(w)
                             THEN "committed" ELSE runs[m][n].status
  BY <1>1
<1>2. MatchOf(w) \in Matches /\ RunOf(w) \in 1..MaxRuns
  BY AtWork
<1>3. StartMatchRun(w) => \/ runs'[m][n].status = runs[m][n].status
                         \/ runs'[m][n].status = "running"
  BY <1>0, <1>2 DEF StartMatchRun
<1>4. FailMatchRun(w) => \/ runs'[m][n].status = runs[m][n].status
                        \/ runs'[m][n].status = "failed"
  BY <1>0, <1>2, RunStatusAfter DEF FailMatchRun
<1>5. CommitStore(w) =>
          runs'[m][n].status = IF m = MatchOf(w) /\ n = RunOf(w)
                               THEN "committed" ELSE runs[m][n].status
  <2>1. CommitStore(w) => runs' = WithStatus(MatchOf(w), RunOf(w), "committed")
    BY DEF CommitStore, WithStatus
  <2> QED
    BY <1>0, <1>2, <2>1, RunStatusAfter
<1> QED
  BY <1>3, <1>4, <1>5

\* Which statement a step issues on match_runs, if any.
LEMMA RunsByStep ==
    ASSUME PipelineInv, [PipelineNext]_pipelineVars
    PROVE  \/ UNCHANGED runs
           \/ \E r \in Requests : At(r, "create") /\ AddRun(r)
           \/ \E w \in Workers :
                /\ step[w] # "idle"
                /\ \/ StartMatchRun(w)
                   \/ FailMatchRun(w) /\ step[w] = "cleanup"
                   \/ CommitStore(w) /\ CommitRow(w)
<1>1. ASSUME NEW r \in Requests, RequestStep(r)
      PROVE  UNCHANGED runs \/ (At(r, "create") /\ AddRun(r))
  BY <1>1 DEF RequestStep, LoadMatch, CountRuns, QueueMatch, CreateRun, EnqueueRun,
              RequestBreaks, store
<1>2. ASSUME NEW w \in Workers, ExecutorStep(w)
      PROVE  \/ UNCHANGED runs
             \/ /\ step[w] # "idle"
                /\ \/ StartMatchRun(w)
                   \/ FailMatchRun(w) /\ step[w] = "cleanup"
                   \/ CommitStore(w) /\ CommitRow(w)
  <2>1. CASE StartRun(w)
    BY <2>1 DEF StartRun
  <2>2. CASE CommitResult(w) \/ CommitUnanswered(w)
    BY <2>2 DEF CommitResult, CommitUnanswered, CommitStore, Commit, CommitReplyLost
  <2>3. CASE CleanupStep(w)
    BY <2>3 DEF CleanupStep
  <2>4. CASE \/ \E n \in Matches : Reserve(w, n)
             \/ Load(w) \/ MarkRunning(w) \/ OpenReplay(w) \/ PublishReplay(w)
             \/ Fail(w) \/ ReportSuccess(w) \/ ReportFailure(w) \/ Beat(w)
    BY <2>4 DEF Reserve, Load, MarkRunning, OpenReplay, PublishReplay, Fail,
                ReportSuccess, ReportFailure, Beat, LeaveExecute, store
  <2> QED
    BY <1>2, <2>1, <2>2, <2>3, <2>4 DEF ExecutorStep
<1>3. ASSUME NEW n \in Matches,
             Lapse(n) \/ Due(n) \/ \E p \in Processes : ReservationLost(p, n)
      PROVE  UNCHANGED runs
  BY <1>3 DEF Lapse, Due, ReservationLost, store
<1>4. ASSUME NEW p \in Processes, Stop(p)
      PROVE  UNCHANGED runs
  BY <1>4 DEF Stop, store
<1>5. CASE UNCHANGED pipelineVars
  BY <1>5 DEF pipelineVars, store
<1> QED
  BY <1>1, <1>2, <1>3, <1>4, <1>5 DEF PipelineNext

\* Runs are created and never removed.
LEMMA CreatedGrows ==
    ASSUME PipelineInv, [PipelineNext]_pipelineVars, NEW m \in Matches
    PROVE  Created(m) \subseteq Created(m)'
<1> SUFFICES ASSUME NEW n \in 1..MaxRuns, runs[m][n].status # "none"
             PROVE  runs'[m][n].status # "none"
  BY DEF Created
<1> QED
  BY RunsByStep, RunsRewritten

\* The partial unique index keeps a second run from being committed.
LEMMA StepOneCommittedRun ==
    PipelineInv /\ [PipelineNext]_pipelineVars => OneCommittedRun'
<1> SUFFICES ASSUME PipelineInv, [PipelineNext]_pipelineVars, NEW m \in Matches,
                    NEW i \in 1..MaxRuns, NEW j \in 1..MaxRuns,
                    runs'[m][i].status = "committed",
                    runs'[m][j].status = "committed"
             PROVE  i = j
  BY DEF OneCommittedRun
<1>1. CASE runs[m][i].status = "committed" /\ runs[m][j].status = "committed"
  BY <1>1 DEF PipelineInv, OneCommittedRun
<1>2. CASE runs[m][i].status # "committed" \/ runs[m][j].status # "committed"
  <2>1. PICK w \in Workers : step[w] # "idle" /\ CommitStore(w)
    BY <1>2, RunsByStep, RunsRewritten
  <2>2. ASSUME NEW n \in 1..MaxRuns, runs'[m][n].status = "committed"
        PROVE  \/ m = MatchOf(w) /\ n = RunOf(w)
               \/ runs[m][n].status = "committed"
    BY <2>1, <2>2, RunsRewritten
  <2>3. m = MatchOf(w)
    BY <1>2, <2>2
  <2>4. ASSUME NEW n \in 1..MaxRuns, runs[m][n].status = "committed"
        PROVE  n = RunOf(w)
    BY <2>1, <2>3, <2>4 DEF CommitStore, IndexAllows
  <2> QED
    BY <2>2, <2>4
<1> QED
  BY <1>1, <1>2

LEMMA StepRequests ==
    PipelineInv /\ [PipelineNext]_pipelineVars => RequestsSound'
<1> SUFFICES ASSUME PipelineInv, [PipelineNext]_pipelineVars,
                    NEW q \in Requests
             PROVE  /\ req'[q].pc \in {"count", "cas", "create", "enqueue"}
                           => req'[q].seen \in {"scheduled", "failed"}
                    /\ req'[q].pc \in {"cas", "create", "enqueue"}
                           => req'[q].run \in 1..MaxRuns
                    /\ req'[q].pc = "enqueue" => req'[q].run \in Created(Target[q])'
  BY DEF RequestsSound
<1>0. /\ req \in [Requests -> Request]
      /\ req[q] \in Request
      /\ runs \in [Matches -> [1..MaxRuns -> RunRow]]
      /\ Target[q] \in Matches
      /\ RequestsSound
  BY TargetAssumption DEF PipelineInv, PipelineTypeOK
<1>1. req[q].pc = "enqueue" => req[q].run \in Created(Target[q])'
  BY <1>0, CreatedGrows DEF RequestsSound
<1>2. CASE UNCHANGED req
  BY <1>0, <1>1, <1>2 DEF RequestsSound
<1>3. ASSUME NEW r \in Requests, RequestStep(r), r # q
      PROVE  req'[q] = req[q]
  BY <1>0, <1>3 DEF RequestStep, LoadMatch, CountRuns, QueueMatch, CreateRun,
                    EnqueueRun, RequestBreaks, GoTo
<1>4. CASE RequestStep(q)
  <2>1. CASE LoadMatch(q)
    BY <1>0, <2>1 DEF LoadMatch, Request
  <2>2. CASE CountRuns(q)
    <3>1. PICK n \in 1..MaxRuns : req' = [req EXCEPT ![q].pc = "cas", ![q].run = n]
      BY <2>2 DEF CountRuns
    <3>2. req[q].pc = "count"
      BY <2>2 DEF CountRuns, At
    <3> QED
      BY <1>0, <3>1, <3>2 DEF RequestsSound, Request
  <2>3. CASE QueueMatch(q)
    <3>1. /\ req[q].pc = "cas"
          /\ req'[q].pc \in {"create", "over"}
          /\ req'[q].seen = req[q].seen /\ req'[q].run = req[q].run
      BY <1>0, <2>3 DEF QueueMatch, At, GoTo, Request
    <3> QED
      BY <1>0, <3>1 DEF RequestsSound
  <2>4. CASE CreateRun(q)
    <3>1. /\ req[q].pc = "create"
          /\ req'[q].pc \in {"enqueue", "over"}
          /\ req'[q].seen = req[q].seen /\ req'[q].run = req[q].run
      BY <1>0, <2>4 DEF CreateRun, At, GoTo, Request
    <3>2. ASSUME req'[q].pc = "enqueue"
          PROVE  req[q].run \in Created(Target[q])'
      <4>1. req[q].run \in 1..MaxRuns
        BY <1>0, <3>1 DEF RequestsSound
      <4>2. runs' = WithStatus(Target[q], req[q].run, "created")
        BY <1>0, <2>4, <3>2 DEF CreateRun, AddRun, GoTo, WithStatus, Request
      <4>3. runs'[Target[q]][req[q].run].status = "created"
        BY <1>0, <4>1, <4>2, RunStatusAfter
      <4> QED
        BY <4>1, <4>3 DEF Created
    <3> QED
      BY <1>0, <3>1, <3>2 DEF RequestsSound
  <2>5. CASE EnqueueRun(q) \/ RequestBreaks(q)
    <3>1. req'[q].pc \in {"accepted", "over"}
      BY <1>0, <2>5 DEF EnqueueRun, RequestBreaks, GoTo, Request
    <3> QED
      BY <3>1
  <2> QED
    BY <1>4, <2>1, <2>2, <2>3, <2>4, <2>5 DEF RequestStep
<1>5. ASSUME NEW r \in Requests, RequestStep(r), r # q
      PROVE  /\ req'[q].pc = req[q].pc
             /\ req'[q].seen = req[q].seen /\ req'[q].run = req[q].run
  BY <1>3, <1>5
<1>6. ASSUME NEW w \in Workers, ExecutorStep(w)
      PROVE  UNCHANGED req
  BY <1>6 DEF ExecutorStep, Reserve, Load, MarkRunning, StartRun, OpenReplay,
              CommitResult, CommitUnanswered, PublishReplay, Fail, CleanupStep,
              ReportSuccess, ReportFailure, LeaveExecute, Beat
<1>7. ASSUME NEW m \in Matches,
             Lapse(m) \/ Due(m) \/ \E p \in Processes : ReservationLost(p, m)
      PROVE  UNCHANGED req
  BY <1>7 DEF Lapse, Due, ReservationLost
<1>8. ASSUME NEW p \in Processes, Stop(p)
      PROVE  UNCHANGED req
  BY <1>8 DEF Stop
<1>9. CASE UNCHANGED pipelineVars
  BY <1>2, <1>9 DEF pipelineVars
<1>10. CASE \E r \in Requests : RequestStep(r)
  <2>1. PICK r \in Requests : RequestStep(r)
    BY <1>10
  <2>2. CASE r = q
    BY <1>4, <2>1, <2>2
  <2>3. CASE r # q
    BY <1>0, <1>1, <1>5, <2>1, <2>3 DEF RequestsSound
  <2> QED
    BY <2>2, <2>3
<1> QED
  BY <1>2, <1>6, <1>7, <1>8, <1>9, <1>10 DEF PipelineNext

\* Every step leaves the queue's variables alone, is the enqueue of an existing
\* run, or is a step of the queue that issues nothing.
LEMMA QueueStepKinds ==
    ASSUME PipelineInv, [PipelineNext]_pipelineVars
    PROVE  \/ UNCHANGED vars
           \/ \E r \in Requests :
                /\ req[r].run \in Created(Target[r])
                /\ Enqueue(Target[r], req[r].run)
           \/ \E m \in Matches : LeaseExpires(m) \/ BackoffElapses(m)
           \/ \E w \in Workers : WorkerStep(w)
           \/ \E p \in Processes : Crash(p)
           \/ \E p \in Processes, m \in Matches : DequeueReplyLost(p, m)
<1>1. ASSUME NEW r \in Requests, RequestStep(r)
      PROVE  \/ UNCHANGED vars
             \/ /\ req[r].run \in Created(Target[r])
                /\ Enqueue(Target[r], req[r].run)
  BY <1>1 DEF RequestStep, LoadMatch, CountRuns, QueueMatch, CreateRun, EnqueueRun,
              RequestBreaks, UnchangedByRequest, PipelineInv, RequestsSound, At
<1>2. ASSUME NEW w \in Workers, ExecutorStep(w)
      PROVE  UNCHANGED vars \/ WorkerStep(w)
  BY <1>2 DEF ExecutorStep, Reserve, Load, MarkRunning, StartRun, OpenReplay,
              CommitResult, CommitUnanswered, PublishReplay, Fail, CleanupStep,
              ReportSuccess, ReportFailure, Beat, WorkerStep
<1>3. ASSUME NEW m \in Matches, Lapse(m) \/ Due(m)
      PROVE  LeaseExpires(m) \/ BackoffElapses(m)
  BY <1>3 DEF Lapse, Due
<1>4. ASSUME NEW p \in Processes, Stop(p)
      PROVE  Crash(p)
  BY <1>4 DEF Stop
<1>5. ASSUME NEW p \in Processes, NEW m \in Matches, ReservationLost(p, m)
      PROVE  DequeueReplyLost(p, m)
  BY <1>5 DEF ReservationLost
<1> QED
  BY <1>1, <1>2, <1>3, <1>4, <1>5 DEF PipelineNext, pipelineVars

LEMMA StepHandles == PipelineInv /\ [PipelineNext]_pipelineVars => HandlesIssued'
<1> SUFFICES ASSUME PipelineInv, [PipelineNext]_pipelineVars
             PROVE  HandlesIssued'
  OBVIOUS
<1>0. /\ IInv
      /\ HandlesIssued
      /\ issued \in [Matches -> SUBSET (1..MaxRuns)]
      /\ phase \in [Workers -> Phases]
      /\ handle \in [Workers -> Handle \union {NoHandle}]
      /\ \A w \in Workers : Busy(w) => handle[w] \in Handle
  BY DEF PipelineInv, IInv, TypeOK, Busy
<1> USE <1>0 DEF HandlesIssued, Busy, Phases
<1>1. CASE UNCHANGED <<phase, handle, issued>>
  BY <1>1
<1>2. ASSUME NEW m \in Matches, NEW run, Enqueue(m, run)
      PROVE  HandlesIssued'
  BY <1>2 DEF Enqueue, Handle
<1>3. ASSUME NEW w \in Workers, NEW m \in Matches, Dequeue(w, m)
      PROVE  HandlesIssued'
  <2>1. jobs[m].status # "absent"
    BY <1>3 DEF Dequeue, ReserveJob, Reservable
  <2>2. jobs[m].run \in issued[m]
    BY <2>1 DEF IInv, RowsBounded
  <2> QED
    BY <1>3, <2>2 DEF Dequeue
<1>4. ASSUME NEW w \in Workers,
             Commit(w) \/ CommitReplyLost(w) \/ ExecuteFails(w)
      PROVE  HandlesIssued'
  <2>1. /\ phase[w] = "executing"
        /\ phase' \in {[phase EXCEPT ![w] = "succeeded"],
                      [phase EXCEPT ![w] = "errored"]}
        /\ UNCHANGED <<handle, issued>>
    BY <1>4 DEF Commit, CommitReplyLost, CommitRow, ExecuteFails
  <2> QED
    BY <2>1
<1>5. ASSUME NEW w \in Workers, Complete(w) \/ Retry(w) \/ RetryLost(w)
      PROVE  HandlesIssued'
  <2>1. GoIdle(w) /\ UNCHANGED issued
    BY <1>5 DEF Complete, Retry, RetryLost
  <2> QED
    BY <2>1 DEF GoIdle
<1>6. ASSUME NEW p \in Processes, Crash(p)
      PROVE  HandlesIssued'
  BY <1>6 DEF Crash
<1>7. ASSUME NEW w \in Workers, WorkerStep(w)
      PROVE  HandlesIssued'
  <2>1. CASE Heartbeat(w) \/ HeartbeatLost(w)
    BY <1>1, <2>1 DEF Heartbeat, HeartbeatLost
  <2> QED
    BY <1>3, <1>4, <1>5, <1>7, <2>1 DEF WorkerStep
<1>8. ASSUME NEW m \in Matches,
             \/ LeaseExpires(m) \/ BackoffElapses(m)
             \/ \E p \in Processes : DequeueReplyLost(p, m)
      PROVE  UNCHANGED <<phase, handle, issued>>
  BY <1>8 DEF LeaseExpires, BackoffElapses, DequeueReplyLost
<1>9. CASE UNCHANGED vars
  BY <1>1, <1>9 DEF vars
<1> QED
  BY <1>1, <1>2, <1>6, <1>7, <1>8, <1>9, QueueStepKinds, TargetAssumption

LEMMA StepJobsHaveRuns ==
    PipelineInv /\ [PipelineNext]_pipelineVars => JobsHaveRuns'
<1> SUFFICES ASSUME PipelineInv, [PipelineNext]_pipelineVars,
                    NEW m \in Matches
             PROVE  /\ issued'[m] \subseteq Created(m)'
                    /\ jobs'[m].status # "absent" => jobs'[m].run \in Created(m)'
  BY DEF JobsHaveRuns
<1>1. IInv' /\ Created(m) \subseteq Created(m)'
  BY StepTypes, CreatedGrows
<1>2. issued[m] \subseteq Created(m)
  BY DEF PipelineInv, JobsHaveRuns
<1>3. issued \in [Matches -> SUBSET (1..MaxRuns)]
  BY DEF PipelineInv, IInv, TypeOK
<1>4. issued'[m] \subseteq Created(m)'
  <2>1. ASSUME NEW r \in Requests, req[r].run \in Created(Target[r]),
               Enqueue(Target[r], req[r].run)
        PROVE  issued'[m] \subseteq Created(m)
    BY <1>2, <1>3, <2>1, TargetAssumption DEF Enqueue
  <2>2. ASSUME NEW w \in Workers, WorkerStep(w)
        PROVE  UNCHANGED issued
    BY <2>2 DEF WorkerStep, Dequeue, Heartbeat, HeartbeatLost, Commit,
                CommitReplyLost, ExecuteFails, Complete, Retry, RetryLost
  <2>3. ASSUME NEW k \in Matches,
               \/ LeaseExpires(k) \/ BackoffElapses(k)
               \/ \E p \in Processes : Crash(p) \/ DequeueReplyLost(p, k)
        PROVE  UNCHANGED issued
    BY <2>3 DEF LeaseExpires, BackoffElapses, DequeueReplyLost, Crash
  <2> QED
    BY <1>1, <1>2, <2>1, <2>2, <2>3, QueueStepKinds DEF vars
<1>5. jobs'[m].status # "absent" => jobs'[m].run \in issued'[m]
  BY <1>1 DEF IInv, RowsBounded
<1> QED
  BY <1>4, <1>5

\* Which request, if any, moves to or from its enqueue, and what it issues.
LEMMA RequestMoves ==
    ASSUME PipelineInv, [PipelineNext]_pipelineVars
    PROVE  \/ UNCHANGED <<req, issued>>
           \/ \E r \in Requests :
                /\ \A q \in Requests \ {r} : req'[q] = req[q]
                /\ \/ req'[r].pc # "enqueue" /\ UNCHANGED issued
                   \/ /\ At(r, "create") /\ AddRun(r)
                      /\ req'[r].run = req[r].run /\ UNCHANGED issued
                   \/ /\ At(r, "enqueue") /\ req'[r].pc # "enqueue"
                      /\ Enqueue(Target[r], req[r].run)
<1>0. req \in [Requests -> Request]
  BY DEF PipelineInv, PipelineTypeOK
<1>1. ASSUME NEW r \in Requests, RequestStep(r)
      PROVE  /\ \A q \in Requests \ {r} : req'[q] = req[q]
             /\ \/ req'[r].pc # "enqueue" /\ UNCHANGED issued
                \/ /\ At(r, "create") /\ AddRun(r)
                   /\ req'[r].run = req[r].run /\ UNCHANGED issued
                \/ /\ At(r, "enqueue") /\ req'[r].pc # "enqueue"
                   /\ Enqueue(Target[r], req[r].run)
  <2>1. CASE LoadMatch(r) \/ CountRuns(r)
    BY <1>0, <2>1 DEF LoadMatch, CountRuns, UnchangedByRequest, vars, Request
  <2>2. CASE QueueMatch(r) \/ CreateRun(r) \/ RequestBreaks(r)
    BY <1>0, <2>2 DEF QueueMatch, CreateRun, RequestBreaks, GoTo,
                      UnchangedByRequest, vars, Request
  <2>3. CASE EnqueueRun(r)
    BY <1>0, <2>3 DEF EnqueueRun, GoTo, Request
  <2> QED
    BY <1>1, <2>1, <2>2, <2>3 DEF RequestStep
<1>2. ASSUME NEW w \in Workers, ExecutorStep(w)
      PROVE  UNCHANGED <<req, issued>>
  BY <1>2 DEF ExecutorStep, Reserve, Load, MarkRunning, StartRun, OpenReplay,
              CommitResult, CommitUnanswered, PublishReplay, Fail, CleanupStep,
              ReportSuccess, ReportFailure, LeaveExecute, Beat, Dequeue, Commit,
              CommitReplyLost, ExecuteFails, Complete, Retry, RetryLost,
              Heartbeat, HeartbeatLost, vars
<1>3. ASSUME NEW m \in Matches,
             Lapse(m) \/ Due(m) \/ \E p \in Processes : ReservationLost(p, m)
      PROVE  UNCHANGED <<req, issued>>
  BY <1>3 DEF Lapse, Due, ReservationLost, LeaseExpires, BackoffElapses,
              DequeueReplyLost
<1>4. ASSUME NEW p \in Processes, Stop(p)
      PROVE  UNCHANGED <<req, issued>>
  BY <1>4 DEF Stop, Crash
<1>5. CASE UNCHANGED pipelineVars
  BY <1>5 DEF pipelineVars, vars
<1> QED
  BY <1>1, <1>2, <1>3, <1>4, <1>5 DEF PipelineNext

\* A run that a request creates has not been issued, and no other request is
\* about to enqueue it: it did not exist.
LEMMA StepEnqueuedOnce ==
    PipelineInv /\ [PipelineNext]_pipelineVars => RunsEnqueuedOnce'
<1> SUFFICES ASSUME PipelineInv, [PipelineNext]_pipelineVars,
                    NEW r \in Requests, req'[r].pc = "enqueue",
                    NEW q \in Requests
             PROVE  /\ req'[r].run \notin issued'[Target[r]]
                    /\ /\ req'[q].pc = "enqueue" /\ Target[q] = Target[r]
                       /\ req'[q].run = req'[r].run
                       => q = r
  BY DEF RunsEnqueuedOnce, At
<1>1. /\ issued \in [Matches -> SUBSET (1..MaxRuns)]
      /\ \A k \in Requests : Target[k] \in Matches
  BY TargetAssumption DEF PipelineInv, IInv, TypeOK
<1>2. \A k \in Requests : req[k].pc = "enqueue" =>
          /\ req[k].run \notin issued[Target[k]]
          /\ req[k].run \in Created(Target[k])
  BY DEF PipelineInv, RunsEnqueuedOnce, RequestsSound, At
<1>3. \A j, k \in Requests :
          /\ req[j].pc = "enqueue" /\ req[k].pc = "enqueue"
          /\ Target[j] = Target[k] /\ req[j].run = req[k].run
          => j = k
  BY DEF PipelineInv, RunsEnqueuedOnce, At
<1>4. CASE req'[r] = req[r] /\ req'[q] = req[q] /\ UNCHANGED issued
  BY <1>2, <1>3, <1>4
<1>5. ASSUME NEW k \in Requests, \A j \in Requests \ {k} : req'[j] = req[j],
             req'[k].pc # "enqueue", UNCHANGED issued
      PROVE  /\ req'[r].run \notin issued'[Target[r]]
             /\ req'[q].pc = "enqueue" => req'[r] = req[r] /\ req'[q] = req[q]
  BY <1>2, <1>5
<1>6. ASSUME NEW k \in Requests, \A j \in Requests \ {k} : req'[j] = req[j],
             AddRun(k), req'[k].run = req[k].run, UNCHANGED issued
      PROVE  /\ req'[r].run \notin issued'[Target[r]]
             /\ /\ req'[q].pc = "enqueue" /\ Target[q] = Target[r]
                /\ req'[q].run = req'[r].run
                => q = r
  <2>1. req[k].run \notin issued[Target[k]] /\ req[k].run \notin Created(Target[k])
    BY <1>1, <1>6 DEF AddRun, PipelineInv, JobsHaveRuns
  <2>2. req'[r].run \notin issued'[Target[r]]
    BY <1>2, <1>6, <2>1
  <2>3. ASSUME NEW j \in Requests, j # k, req'[j].pc = "enqueue",
               Target[j] = Target[k]
        PROVE  req'[j].run # req'[k].run
    BY <1>2, <1>6, <2>1, <2>3
  <2>4. CASE r # k /\ q # k
    BY <1>3, <1>6, <2>2, <2>4
  <2> QED
    BY <2>2, <2>3, <2>4
<1>7. ASSUME NEW k \in Requests, \A j \in Requests \ {k} : req'[j] = req[j],
             At(k, "enqueue"), req'[k].pc # "enqueue",
             Enqueue(Target[k], req[k].run)
      PROVE  /\ req'[r].run \notin issued'[Target[r]]
             /\ req'[q].pc = "enqueue" => req'[r] = req[r] /\ req'[q] = req[q]
  <2>1. r # k /\ req'[r] = req[r]
    BY <1>7
  <2>2. Target[r] = Target[k] => req[r].run # req[k].run
    BY <1>3, <1>7, <2>1 DEF At
  <2>3. req[r].run \notin issued'[Target[r]]
    BY <1>1, <1>2, <1>7, <2>1, <2>2 DEF Enqueue
  <2> QED
    BY <1>7, <2>1, <2>3
<1>8. CASE UNCHANGED <<req, issued>>
  BY <1>4, <1>8
<1> QED
  BY <1>3, <1>5, <1>6, <1>7, <1>8, RequestMoves

\* A commit is that of the row's own token.
LEMMA CommitsByStep ==
    ASSUME PipelineInv, [PipelineNext]_pipelineVars
    PROVE  \/ UNCHANGED commits
           \/ \E w \in Workers : CommitRow(w)
<1>1. ASSUME NEW w \in Workers, WorkerStep(w)
      PROVE  UNCHANGED commits \/ CommitRow(w)
  BY <1>1 DEF WorkerStep, Dequeue, Heartbeat, HeartbeatLost, Commit,
              CommitReplyLost, ExecuteFails, Complete, Retry, RetryLost
<1>2. ASSUME NEW m \in Matches,
             \/ LeaseExpires(m) \/ BackoffElapses(m)
             \/ \E p \in Processes : Crash(p) \/ DequeueReplyLost(p, m)
      PROVE  UNCHANGED commits
  BY <1>2 DEF LeaseExpires, BackoffElapses, DequeueReplyLost, Crash
<1>3. ASSUME NEW p \in Processes, Crash(p)
      PROVE  UNCHANGED commits
  BY <1>3 DEF Crash
<1>4. ASSUME NEW r \in Requests, Enqueue(Target[r], req[r].run)
      PROVE  UNCHANGED commits
  BY <1>4 DEF Enqueue
<1> QED
  BY <1>1, <1>2, <1>3, <1>4, QueueStepKinds DEF vars

LEMMA StepCommitsBehind ==
    PipelineInv /\ [PipelineNext]_pipelineVars => CommitsBehind'
<1> SUFFICES ASSUME PipelineInv, [PipelineNext]_pipelineVars, NEW c \in commits'
             PROVE  c.token <= jobs'[c.match].token
  BY DEF CommitsBehind
<1>1. commits \subseteq Handle /\ jobs \in [Matches -> Row] /\ IInv
  BY DEF PipelineInv, IInv, TypeOK
<1>2. IInv' /\ jobs' \in [Matches -> Row]
  BY StepTypes DEF IInv, TypeOK
<1>3. /\ c \in Handle
      /\ c.token <= jobs[c.match].token
  <2>1. CASE c \in commits
    BY <1>1, <2>1 DEF PipelineInv, CommitsBehind
  <2>2. ASSUME NEW w \in Workers, CommitRow(w), c = handle[w]
        PROVE  c \in Handle /\ c.token <= jobs[c.match].token
    BY <1>1, <2>2 DEF CommitRow, IInv, TypeOK, TokensHandedOut, Busy
  <2> QED
    BY <2>1, <2>2, CommitsByStep DEF CommitRow
<1>4. jobs'[c.match].token >= jobs[c.match].token
  <2>1. c.match \in Matches
    BY <1>3 DEF Handle
  <2>2. jobs[c.match].token \in Nat
    BY <1>1, <2>1 DEF Row
  <2>3. CASE jobs' = jobs
    BY <2>2, <2>3
  <2>4. CASE jobs' # jobs
    BY <1>1, <2>1, <2>4, QueueStep, StepTokens DEF TokensMoveOn
  <2> QED
    BY <2>3, <2>4
<1>5. /\ c.token \in Nat
      /\ jobs[c.match].token \in Nat
      /\ jobs'[c.match].token \in Nat
  BY <1>1, <1>2, <1>3 DEF Handle, Row
<1> QED
  BY <1>3, <1>4, <1>5

-----------------------------------------------------------------------------

(***************************************************************************)
(* What a match says of its result                                         *)
(***************************************************************************)

\* A request writes the status of a match and nothing else of it.
LEMMA RequestKeepsResult ==
    ASSUME PipelineInv, NEW r \in Requests, RequestStep(r), NEW m \in Matches
    PROVE  \/ matches'[m] = matches[m]
           \/ /\ matches'[m].status # "finished"
              /\ matches'[m].run = matches[m].run
              /\ matches'[m].replay = matches[m].replay
<1>0. /\ matches \in [Matches -> MatchRow]
      /\ matches[m] \in MatchRow
      /\ Target[r] \in Matches
  BY TargetAssumption DEF PipelineInv, PipelineTypeOK
<1>1. ASSUME NEW s, s # "finished",
             matches' = [matches EXCEPT ![Target[r]].status = s]
      PROVE  \/ matches'[m] = matches[m]
             \/ /\ matches'[m].status # "finished"
                /\ matches'[m].run = matches[m].run
                /\ matches'[m].replay = matches[m].replay
  BY <1>0, <1>1 DEF MatchRow
<1>2. CASE QueueMatch(r)
  BY <1>1, <1>2 DEF QueueMatch
<1>3. ASSUME PutBack(r), At(r, "create")
      PROVE  \/ matches'[m] = matches[m]
             \/ /\ matches'[m].status # "finished"
                /\ matches'[m].run = matches[m].run
                /\ matches'[m].replay = matches[m].replay
  <2>1. req[r].seen # "finished"
    BY <1>3 DEF PipelineInv, RequestsSound, At
  <2> QED
    BY <1>1, <1>3, <2>1 DEF PutBack
<1>4. CASE UNCHANGED matches
  BY <1>4
<1> QED
  BY <1>2, <1>3, <1>4
     DEF RequestStep, LoadMatch, CountRuns, CreateRun, EnqueueRun, RequestBreaks, store

\* A request does not touch a match it finds finished: it compares the status
\* with the one it read, or with "queued".
LEMMA RequestKeepsFinished ==
    ASSUME PipelineInv, NEW r \in Requests, RequestStep(r), NEW m \in Matches,
           matches[m].status = "finished"
    PROVE  matches'[m] = matches[m]
<1>0. /\ matches \in [Matches -> MatchRow]
      /\ Target[r] \in Matches
  BY TargetAssumption DEF PipelineInv, PipelineTypeOK
<1>1. ASSUME NEW s, matches' = [matches EXCEPT ![Target[r]].status = s],
             matches[Target[r]].status # "finished"
      PROVE  matches'[m] = matches[m]
  BY <1>0, <1>1
<1>2. CASE QueueMatch(r)
  <2>1. req[r].seen # "finished"
    BY <1>2 DEF QueueMatch, PipelineInv, RequestsSound, At
  <2> QED
    BY <1>1, <1>2, <2>1 DEF QueueMatch
<1>3. CASE PutBack(r)
  BY <1>1, <1>3 DEF PutBack
<1>4. CASE UNCHANGED matches
  BY <1>4
<1> QED
  BY <1>2, <1>3, <1>4
     DEF RequestStep, LoadMatch, CountRuns, CreateRun, EnqueueRun, RequestBreaks, store

\* Which statement a step issues on matches, if any.
LEMMA MatchesByStep ==
    ASSUME PipelineInv, [PipelineNext]_pipelineVars
    PROVE  \/ UNCHANGED matches
           \/ \E r \in Requests : RequestStep(r)
           \/ \E w \in Workers :
                /\ step[w] \notin {"idle", "load"}
                /\ \/ /\ step[w] \in {"mark", "cleanup"} /\ Remembers(w)
                      /\ UpdateMatch(w, "running") \/ UpdateMatch(w, "failed")
                   \/ /\ CommitStore(w) /\ CommitRow(w)
                      /\ Advance(w, "publish") \/ Fault
<1>1. ASSUME NEW w \in Workers, ExecutorStep(w)
      PROVE  \/ UNCHANGED matches
             \/ /\ step[w] \notin {"idle", "load"}
                /\ \/ /\ step[w] \in {"mark", "cleanup"} /\ Remembers(w)
                      /\ UpdateMatch(w, "running") \/ UpdateMatch(w, "failed")
                   \/ /\ CommitStore(w) /\ CommitRow(w)
                      /\ Advance(w, "publish") \/ Fault
  <2>1. CASE MarkRunning(w)
    BY <2>1 DEF MarkRunning, Remembers
  <2>2. CASE CommitResult(w) \/ CommitUnanswered(w)
    BY <2>2 DEF CommitResult, CommitUnanswered, CommitStore, Commit, CommitReplyLost
  <2>3. CASE CleanupStep(w)
    BY <2>3 DEF CleanupStep, Remembers
  <2>4. CASE \/ \E n \in Matches : Reserve(w, n)
             \/ Load(w) \/ StartRun(w) \/ OpenReplay(w) \/ PublishReplay(w)
             \/ Fail(w) \/ ReportSuccess(w) \/ ReportFailure(w) \/ Beat(w)
    BY <2>4 DEF Reserve, Load, StartRun, OpenReplay, PublishReplay, Fail,
                ReportSuccess, ReportFailure, Beat, LeaveExecute, store
  <2> QED
    BY <1>1, <2>1, <2>2, <2>3, <2>4 DEF ExecutorStep
<1>2. ASSUME NEW n \in Matches,
             Lapse(n) \/ Due(n) \/ \E p \in Processes : ReservationLost(p, n)
      PROVE  UNCHANGED matches
  BY <1>2 DEF Lapse, Due, ReservationLost, store
<1>3. ASSUME NEW p \in Processes, Stop(p)
      PROVE  UNCHANGED matches
  BY <1>3 DEF Stop, store
<1>4. CASE UNCHANGED pipelineVars
  BY <1>4 DEF pipelineVars, store
<1> QED
  BY <1>1, <1>2, <1>3, <1>4 DEF PipelineNext

\* A worker writes a row back, or the row of its own commit.
LEMMA WorkerWrites ==
    ASSUME PipelineInv, NEW w \in Workers, step[w] # "idle", NEW m \in Matches
    PROVE  /\ \A s \in {"running", "failed"} : UpdateMatch(w, s) =>
                \/ matches'[m] = matches[m]
                \/ /\ m = MatchOf(w)
                   /\ matches'[m].status # "finished"
                   /\ matches'[m].run = snap[w].run
                   /\ matches'[m].replay = snap[w].replay
           /\ CommitStore(w) =>
                \/ matches'[m] = matches[m]
                \/ /\ m = MatchOf(w)
                   /\ matches'[m].run = handle[w].run
                   /\ matches'[m].run # 0
                   /\ matches'[m].replay = handle[w].token
<1>0. /\ matches \in [Matches -> MatchRow]
      /\ MatchOf(w) \in Matches
      /\ RunOf(w) \in 1..MaxRuns
      /\ snap[w] \in MatchRow
  BY AtWork DEF PipelineInv, PipelineTypeOK
<1>1. ASSUME NEW s \in {"running", "failed"}, UpdateMatch(w, s)
      PROVE  \/ matches'[m] = matches[m]
             \/ /\ m = MatchOf(w)
                /\ matches'[m].status # "finished"
                /\ matches'[m].run = snap[w].run
                /\ matches'[m].replay = snap[w].replay
  BY <1>0, <1>1 DEF UpdateMatch, MatchRow
<1>2. ASSUME CommitStore(w)
      PROVE  \/ matches'[m] = matches[m]
             \/ /\ m = MatchOf(w)
                /\ matches'[m].run = handle[w].run
                /\ matches'[m].run # 0
                /\ matches'[m].replay = handle[w].token
  <2>1. RunOf(w) # 0
    BY <1>0, BoundAssumption
  <2> QED
    BY <1>0, <1>2, <2>1 DEF CommitStore, RunOf
<1> QED
  BY <1>1, <1>2

LEMMA StepFinishedHasResult ==
    PipelineInv /\ [PipelineNext]_pipelineVars => FinishedHasResult'
<1> SUFFICES ASSUME PipelineInv, [PipelineNext]_pipelineVars, NEW m \in Matches,
                    matches'[m].status = "finished"
             PROVE  matches'[m].run # 0
  BY DEF FinishedHasResult
<1>1. matches[m].status = "finished" => matches[m].run # 0
  BY DEF PipelineInv, FinishedHasResult
<1>2. ASSUME NEW r \in Requests, RequestStep(r)
      PROVE  matches'[m].run # 0
  BY <1>1, <1>2, RequestKeepsResult
<1>3. ASSUME NEW w \in Workers, step[w] \notin {"idle", "load"},
             \/ UpdateMatch(w, "running") \/ UpdateMatch(w, "failed")
             \/ CommitStore(w)
      PROVE  matches'[m].run # 0
  BY <1>1, <1>3, WorkerWrites
<1> QED
  BY <1>1, <1>2, <1>3, MatchesByStep

\* The handle of an accepted commit joins the commits.
LEMMA StepNames ==
    PipelineInv /\ [PipelineNext]_pipelineVars => MatchNamesOneCommit'
<1> SUFFICES ASSUME PipelineInv, [PipelineNext]_pipelineVars, NEW m \in Matches,
                    matches'[m].run # 0
             PROVE  [match |-> m, run |-> matches'[m].run,
                     token |-> matches'[m].replay] \in commits'
  BY DEF MatchNamesOneCommit
<1>0. commits \subseteq commits'
  BY QueueStep, CommitsGrow
<1>1. matches[m].run # 0 =>
          [match |-> m, run |-> matches[m].run, token |-> matches[m].replay]
              \in commits'
  BY <1>0 DEF PipelineInv, MatchNamesOneCommit
<1>2. ASSUME NEW r \in Requests, RequestStep(r)
      PROVE  /\ matches'[m].run = matches[m].run
             /\ matches'[m].replay = matches[m].replay
  BY <1>2, RequestKeepsResult
<1>3. ASSUME NEW w \in Workers, step[w] \notin {"idle", "load"},
             UpdateMatch(w, "running") \/ UpdateMatch(w, "failed")
      PROVE  [match |-> m, run |-> matches'[m].run,
              token |-> matches'[m].replay] \in commits'
  <2>1. \/ matches'[m] = matches[m]
        \/ /\ m = MatchOf(w)
           /\ matches'[m].run = snap[w].run
           /\ matches'[m].replay = snap[w].replay
    BY <1>3, WorkerWrites
  <2>2. snap[w].run # 0 =>
            [match |-> MatchOf(w), run |-> snap[w].run, token |-> snap[w].replay]
                \in commits'
    BY <1>0 DEF PipelineInv, SnapsNameOneCommit
  <2> QED
    BY <1>1, <2>1, <2>2
<1>4. ASSUME NEW w \in Workers, step[w] \notin {"idle", "load"},
             CommitStore(w), CommitRow(w)
      PROVE  [match |-> m, run |-> matches'[m].run,
              token |-> matches'[m].replay] \in commits'
  <2>1. \/ matches'[m] = matches[m]
        \/ /\ m = handle[w].match
           /\ matches'[m].run = handle[w].run
           /\ matches'[m].replay = handle[w].token
    BY <1>4, WorkerWrites DEF MatchOf
  <2>2. handle[w] \in commits'
    BY <1>4 DEF CommitRow
  <2>3. handle[w] = [match |-> handle[w].match, run |-> handle[w].run,
                     token |-> handle[w].token]
    BY <1>4, AtWork DEF Handle
  <2> QED
    BY <1>1, <2>1, <2>2, <2>3
<1> QED
  BY <1>1, <1>2, <1>3, <1>4, MatchesByStep

\* What a worker's step does to its local state, and that it leaves that of the
\* others alone.
LEMMA OwnStep ==
    ASSUME PipelineInv, NEW w \in Workers, ExecutorStep(w)
    PROVE  /\ \/ step'[w] = "idle" /\ snap'[w] = NewMatch
              \/ UNCHANGED <<handle, step, snap>>
              \/ step[w] = "idle" /\ step'[w] = "load" /\ snap'[w] = snap[w]
              \/ /\ step[w] = "load" /\ step'[w] = "mark"
                 /\ snap'[w] = matches[MatchOf(w)] /\ handle'[w] = handle[w]
              \/ /\ step[w] = "prepare" /\ step'[w] = "simulate"
                 /\ tmp' = tmp \union {handle[w]}
                 /\ UNCHANGED <<handle, snap>>
              \/ /\ step[w] = "simulate" /\ step'[w] = "publish"
                 /\ UNCHANGED <<handle, snap, tmp>>
              \/ /\ step[w] # "idle"
                 /\ step'[w] \in {"start", "prepare", "done", "cleanup"}
                 /\ UNCHANGED <<handle, snap>>
           /\ \A v \in Workers \ {w} :
                handle'[v] = handle[v] /\ step'[v] = step[v] /\ snap'[v] = snap[v]
<1>0. /\ step \in [Workers -> Steps]
      /\ snap \in [Workers -> MatchRow]
      /\ handle \in [Workers -> Handle \union {NoHandle}]
  BY DEF PipelineInv, PipelineTypeOK, TypeOK
<1> USE <1>0
<1>1. ASSUME NEW m \in Matches, Reserve(w, m)
      PROVE  /\ step[w] = "idle"
             /\ step' = [step EXCEPT ![w] = "load"]
             /\ snap' = snap
             /\ \A v \in Workers \ {w} : handle'[v] = handle[v]
  BY <1>1 DEF Reserve, Advance, Dequeue, PipelineInv, PipelineTypeOK
<1>2. CASE Load(w)
  BY <1>2 DEF Load, Advance, vars
<1>3. CASE MarkRunning(w) \/ StartRun(w)
  BY <1>3 DEF MarkRunning, StartRun, Advance, vars
<1>4. CASE OpenReplay(w)
  BY <1>4 DEF OpenReplay, Advance, vars
<1>5. CASE CommitResult(w)
  BY <1>5 DEF CommitResult, CommitStore, Commit, Advance
<1>6. CASE CommitUnanswered(w)
  BY <1>6 DEF CommitUnanswered, CommitStore, CommitReplyLost, Advance
<1>7. CASE PublishReplay(w)
  BY <1>7 DEF PublishReplay, Advance, vars
<1>8. CASE Fail(w)
  <2>1. step[w] # "idle"
    BY <1>8 DEF Fail, ExecuteFails, PipelineInv, PipelineTypeOK
  <2> QED
    BY <1>8, <2>1 DEF Fail, ExecuteFails, Advance
<1>9. CASE CleanupStep(w)
  BY <1>9 DEF CleanupStep, vars
<1>10. CASE ReportSuccess(w) \/ ReportFailure(w)
  <2>1. /\ step' = [step EXCEPT ![w] = "idle"]
        /\ snap' = [snap EXCEPT ![w] = NewMatch]
        /\ handle' = [handle EXCEPT ![w] = NoHandle]
    BY <1>10 DEF ReportSuccess, ReportFailure, LeaveExecute, Advance, Complete,
                 Retry, RetryLost, GoIdle
  <2> QED
    BY <2>1
<1>11. CASE Beat(w)
  BY <1>11 DEF Beat, Heartbeat, HeartbeatLost, local
<1> QED
  BY <1>1, <1>2, <1>3, <1>4, <1>5, <1>6, <1>7, <1>8, <1>9, <1>10, <1>11
     DEF ExecutorStep

\* Steps of others than workers leave the workers alone, or end them.
LEMMA OtherStep ==
    ASSUME PipelineInv, [PipelineNext]_pipelineVars
    PROVE  \/ \E w \in Workers : ExecutorStep(w)
           \/ /\ UNCHANGED <<tmp, published, commits, unanswered>>
              /\ \A v \in Workers :
                    \/ step'[v] = "idle" /\ snap'[v] = NewMatch /\ phase'[v] = "idle"
                    \/ /\ handle'[v] = handle[v] /\ step'[v] = step[v]
                       /\ snap'[v] = snap[v] /\ phase'[v] = phase[v]
<1>0. /\ step \in [Workers -> Steps]
      /\ snap \in [Workers -> MatchRow]
      /\ handle \in [Workers -> Handle \union {NoHandle}]
      /\ phase \in [Workers -> Phases]
  BY DEF PipelineInv, PipelineTypeOK, TypeOK
<1>1. ASSUME NEW r \in Requests, RequestStep(r)
      PROVE  UNCHANGED <<handle, step, snap, phase, tmp, published, commits,
                         unanswered>>
  BY <1>1 DEF RequestStep, LoadMatch, CountRuns, QueueMatch, CreateRun, EnqueueRun,
              Enqueue, RequestBreaks, UnchangedByRequest, vars, local, store
<1>2. ASSUME NEW m \in Matches,
             Lapse(m) \/ Due(m) \/ \E p \in Processes : ReservationLost(p, m)
      PROVE  UNCHANGED <<handle, step, snap, phase, tmp, published, commits,
                         unanswered>>
  BY <1>2 DEF Lapse, Due, ReservationLost, LeaseExpires, BackoffElapses,
              DequeueReplyLost, local, store
<1>3. ASSUME NEW p \in Processes, Stop(p)
      PROVE  /\ UNCHANGED <<tmp, published, commits, unanswered>>
             /\ \A v \in Workers :
                   \/ step'[v] = "idle" /\ snap'[v] = NewMatch /\ phase'[v] = "idle"
                   \/ /\ handle'[v] = handle[v] /\ step'[v] = step[v]
                      /\ snap'[v] = snap[v] /\ phase'[v] = phase[v]
  BY <1>0, <1>3 DEF Stop, Crash, store
<1>4. CASE UNCHANGED pipelineVars
  BY <1>4 DEF pipelineVars, vars, local, store
<1> QED
  BY <1>1, <1>2, <1>3, <1>4 DEF PipelineNext

LEMMA StepSnaps ==
    PipelineInv /\ [PipelineNext]_pipelineVars => SnapsNameOneCommit'
<1> SUFFICES ASSUME PipelineInv, [PipelineNext]_pipelineVars, NEW v \in Workers,
                    snap'[v].run # 0
             PROVE  /\ step'[v] \notin {"idle", "load"}
                    /\ [match |-> handle'[v].match, run |-> snap'[v].run,
                        token |-> snap'[v].replay] \in commits'
  BY DEF SnapsNameOneCommit, MatchOf
<1>0. commits \subseteq commits'
  BY QueueStep, CommitsGrow
<1>1. NewMatch.run = 0
  BY DEF NewMatch
<1>2. snap[v].run # 0 =>
          /\ step[v] \notin {"idle", "load"}
          /\ [match |-> handle[v].match, run |-> snap[v].run,
              token |-> snap[v].replay] \in commits'
  BY <1>0 DEF PipelineInv, SnapsNameOneCommit, MatchOf
<1>3. CASE handle'[v] = handle[v] /\ step'[v] = step[v] /\ snap'[v] = snap[v]
  BY <1>2, <1>3
<1>4. CASE ExecutorStep(v)
  <2>1. CASE /\ step[v] = "load" /\ step'[v] = "mark"
             /\ snap'[v] = matches[MatchOf(v)] /\ handle'[v] = handle[v]
    <3>1. MatchOf(v) \in Matches
      BY <2>1, AtWork
    <3> QED
      BY <1>0, <2>1, <3>1 DEF PipelineInv, MatchNamesOneCommit, MatchOf
  <2>2. CASE /\ handle'[v] = handle[v] /\ snap'[v] = snap[v]
             /\ step'[v] \notin {"idle", "load"}
    BY <1>2, <2>2
  <2> QED
    BY <1>1, <1>2, <1>3, <1>4, <2>1, <2>2, OwnStep
<1>5. ASSUME NEW w \in Workers, ExecutorStep(w), w # v
      PROVE  handle'[v] = handle[v] /\ step'[v] = step[v] /\ snap'[v] = snap[v]
  BY <1>5, OwnStep
<1> QED
  BY <1>1, <1>3, <1>4, <1>5, OtherStep

-----------------------------------------------------------------------------

(***************************************************************************)
(* Replay files and commits                                                *)
(***************************************************************************)

\* What a worker's step does to the files and to the commits.
LEMMA FilesByStep ==
    ASSUME NEW w \in Workers, ExecutorStep(w)
    PROVE  \/ UNCHANGED <<tmp, published, commits>>
           \/ /\ step[w] = "prepare"
              /\ tmp' = tmp \union {handle[w]}
              /\ UNCHANGED <<published, commits>>
           \/ /\ step[w] = "simulate" /\ CommitRow(w)
              /\ CommitResult(w) \/ CommitReplyLost(w)
              /\ UNCHANGED <<tmp, published>>
           \/ /\ step[w] = "publish" /\ UNCHANGED vars
              /\ Advance(w, "done")
              /\ \/ UNCHANGED <<tmp, published>>
                 \/ /\ published' = published \union {handle[w]}
                    /\ tmp' = tmp \ {handle[w]}
           \/ /\ step[w] = "cleanup" /\ UNCHANGED <<vars, step>>
              /\ tmp' = tmp \ {handle[w]}
              /\ UNCHANGED published
<1>1. CASE OpenReplay(w)
  BY <1>1 DEF OpenReplay, vars
<1>2. CASE CommitResult(w)
  BY <1>2 DEF CommitResult, CommitStore, Commit
<1>3. CASE CommitUnanswered(w)
  BY <1>3 DEF CommitUnanswered, CommitStore, CommitReplyLost
<1>4. CASE PublishReplay(w)
  BY <1>4 DEF PublishReplay
<1>5. CASE CleanupStep(w)
  BY <1>5 DEF CleanupStep, vars
<1>6. CASE \/ \E m \in Matches : Reserve(w, m)
           \/ Load(w) \/ MarkRunning(w) \/ StartRun(w) \/ Fail(w)
           \/ ReportSuccess(w) \/ ReportFailure(w) \/ Beat(w)
  BY <1>6 DEF Reserve, Dequeue, Load, MarkRunning, StartRun, Fail, ExecuteFails,
     ReportSuccess, Complete, ReportFailure, Retry, RetryLost, LeaveExecute, Beat,
     Heartbeat, HeartbeatLost, vars, store
<1> QED
  BY <1>1, <1>2, <1>3, <1>4, <1>5, <1>6 DEF ExecutorStep

\* Two workers never execute under the same handle.
LEMMA HandlesDiffer ==
    ASSUME PipelineInv, NEW v \in Workers, NEW w \in Workers, v # w,
           step[v] # "idle", step[w] # "idle"
    PROVE  handle[v] # handle[w]
<1>1. Busy(v) /\ Busy(w)
  BY DEF PipelineInv, PipelineTypeOK, Busy
<1> QED
  BY <1>1 DEF PipelineInv, IInv, TokensDistinct

LEMMA StepPublished ==
    PipelineInv /\ [PipelineNext]_pipelineVars => PublishedCommitted'
<1> SUFFICES ASSUME PipelineInv, [PipelineNext]_pipelineVars
             PROVE  published' \subseteq commits'
  BY DEF PublishedCommitted
<1>1. published \subseteq commits /\ commits \subseteq commits'
  BY QueueStep, CommitsGrow DEF PipelineInv, PublishedCommitted
<1>2. ASSUME NEW w \in Workers, step[w] = "publish"
      PROVE  handle[w] \in commits
  BY <1>2 DEF PipelineInv, StepsFollowPhases, IInv, SucceededCommitted
<1> QED
  BY <1>1, <1>2, OtherStep, FilesByStep

LEMMA StepAtHand == PipelineInv /\ [PipelineNext]_pipelineVars => ReplaysAtHand'
<1> SUFFICES ASSUME PipelineInv, [PipelineNext]_pipelineVars, NEW v \in Workers,
                    step'[v] \in {"simulate", "publish"}
             PROVE  handle'[v] \in tmp'
  BY DEF ReplaysAtHand
<1>0. /\ step[v] \in {"simulate", "publish"} => handle[v] \in tmp
      /\ step \in [Workers -> Steps]
  BY DEF PipelineInv, PipelineTypeOK, ReplaysAtHand
<1>1. CASE ExecutorStep(v)
  BY <1>0, <1>1, OwnStep, FilesByStep DEF Advance
<1>2. ASSUME NEW w \in Workers, ExecutorStep(w), w # v
      PROVE  handle'[v] \in tmp'
  <2>1. handle'[v] = handle[v] /\ step'[v] = step[v]
    BY <1>2, OwnStep
  <2>2. handle[v] \in tmp
    BY <1>0, <2>1
  <2>3. step[w] # "idle" => handle[v] # handle[w]
    BY <1>2, <2>1, HandlesDiffer
  <2> QED
    BY <1>2, <2>1, <2>2, <2>3, FilesByStep
<1> QED
  BY <1>0, <1>1, <1>2, OtherStep

\* What a worker's step does to the workers, the commits and the answers.
LEMMA CommitsByWorker ==
    ASSUME NEW w \in Workers, ExecutorStep(w)
    PROVE  \/ UNCHANGED <<phase, handle, commits, unanswered>>
           \/ \E m \in Matches : Dequeue(w, m) /\ UNCHANGED unanswered
           \/ Commit(w) /\ UNCHANGED unanswered
           \/ CommitReplyLost(w) /\ unanswered' = unanswered \union {handle[w]}
           \/ ExecuteFails(w) /\ UNCHANGED unanswered
           \/ GoIdle(w) /\ UNCHANGED <<commits, unanswered>>
<1>1. CASE \E m \in Matches : Reserve(w, m)
  BY <1>1 DEF Reserve
<1>2. CASE CommitResult(w) \/ CommitUnanswered(w) \/ Fail(w)
  BY <1>2 DEF CommitResult, CommitUnanswered, Fail
<1>3. CASE \/ Load(w) \/ MarkRunning(w) \/ StartRun(w) \/ OpenReplay(w)
           \/ PublishReplay(w) \/ CleanupStep(w)
  BY <1>3 DEF Load, MarkRunning, StartRun, OpenReplay, PublishReplay, CleanupStep,
              vars
<1>4. CASE ReportSuccess(w) \/ ReportFailure(w)
  BY <1>4 DEF ReportSuccess, ReportFailure, LeaveExecute, Complete, Retry, RetryLost
<1>5. CASE Beat(w)
  BY <1>5 DEF Beat, Heartbeat, HeartbeatLost
<1> QED
  BY <1>1, <1>2, <1>3, <1>4, <1>5 DEF ExecutorStep

\* A lost answer does not come later.
LEMMA UnansweredGrow ==
    ASSUME PipelineInv, [PipelineNext]_pipelineVars
    PROVE  unanswered \subseteq unanswered'
  BY OtherStep, CommitsByWorker

LEMMA StepUncommitted ==
    PipelineInv /\ [PipelineNext]_pipelineVars => UncommittedUntilSucceeded'
<1> SUFFICES ASSUME PipelineInv, [PipelineNext]_pipelineVars,
                    NEW v \in Workers, phase'[v] \in {"executing", "errored"}
             PROVE  handle'[v] \notin commits' \ unanswered'
  BY DEF UncommittedUntilSucceeded
<1>0. /\ phase[v] \in {"executing", "errored"} =>
            handle[v] \notin commits \ unanswered
      /\ unanswered \subseteq unanswered'
      /\ phase \in [Workers -> Phases]
      /\ handle \in [Workers -> Handle \union {NoHandle}]
      /\ jobs \in [Matches -> Row]
      /\ commits \subseteq Handle
  BY UnansweredGrow DEF PipelineInv, UncommittedUntilSucceeded, IInv, TypeOK
<1>1. CASE handle'[v] = handle[v] /\ phase'[v] = phase[v] /\ commits' = commits
  BY <1>0, <1>1
<1>2. ASSUME NEW w \in Workers, NEW m \in Matches, Dequeue(w, m)
      PROVE  handle'[v] \notin commits' \ unanswered'
  <2>1. CASE v = w
    <3>1. handle'[v].match = m /\ handle'[v].token = jobs[m].token + 1
      BY <1>0, <1>2, <2>1 DEF Dequeue
    <3>2. \A c \in commits : c.match = m => c.token <= jobs[m].token /\ c.token \in Nat
      BY <1>0 DEF PipelineInv, CommitsBehind, Handle
    <3>3. jobs[m].token \in Nat
      BY <1>0 DEF Row
    <3> QED
      BY <1>2, <3>1, <3>2, <3>3 DEF Dequeue
  <2>2. CASE v # w
    BY <1>0, <1>1, <1>2, <2>2 DEF Dequeue
  <2> QED
    BY <2>1, <2>2
<1>3. ASSUME NEW w \in Workers, CommitRow(w), v # w,
             handle' = handle, phase'[v] = phase[v]
      PROVE  handle'[v] \notin commits' \ unanswered'
  <2>1. handle[v] # handle[w]
    <3>1. Busy(v) /\ Busy(w)
      BY <1>3 DEF CommitRow, Busy
    <3> QED
      BY <1>3, <3>1 DEF PipelineInv, IInv, TokensDistinct
  <2> QED
    BY <1>0, <1>3, <2>1 DEF CommitRow
<1>4. ASSUME NEW w \in Workers, Commit(w)
      PROVE  handle'[v] \notin commits' \ unanswered'
  <2>1. CommitRow(w) /\ v # w /\ handle' = handle /\ phase'[v] = phase[v]
    BY <1>0, <1>4 DEF Commit
  <2> QED
    BY <1>3, <2>1
<1>5. ASSUME NEW w \in Workers, CommitReplyLost(w),
             unanswered' = unanswered \union {handle[w]}
      PROVE  handle'[v] \notin commits' \ unanswered'
  <2>1. CommitRow(w) /\ handle' = handle /\ (v # w => phase'[v] = phase[v])
    BY <1>0, <1>5 DEF CommitReplyLost
  <2> QED
    BY <1>3, <1>5, <2>1
<1>6. ASSUME NEW w \in Workers, ExecuteFails(w)
      PROVE  handle'[v] \notin commits' \ unanswered'
  BY <1>0, <1>6 DEF ExecuteFails
<1>7. ASSUME NEW w \in Workers, GoIdle(w), commits' = commits
      PROVE  handle'[v] = handle[v] /\ phase'[v] = phase[v] /\ commits' = commits
  BY <1>0, <1>7 DEF GoIdle
<1>8. ASSUME NEW w \in Workers, ExecutorStep(w)
      PROVE  handle'[v] \notin commits' \ unanswered'
  BY <1>1, <1>2, <1>4, <1>5, <1>6, <1>7, <1>8, CommitsByWorker
<1> QED
  BY <1>1, <1>8, OtherStep

LEMMA StepResults == PipelineInv /\ [PipelineNext]_pipelineVars => ResultsHaveReplay'
<1> SUFFICES ASSUME PipelineInv, [PipelineNext]_pipelineVars
             PROVE  commits' \ unanswered' \subseteq tmp' \union published'
  BY DEF ResultsHaveReplay
<1>0. /\ commits \ unanswered \subseteq tmp \union published
      /\ unanswered \subseteq unanswered'
  BY UnansweredGrow DEF PipelineInv, ResultsHaveReplay
<1>1. ASSUME NEW w \in Workers, ExecutorStep(w)
      PROVE  commits' \ unanswered' \subseteq tmp' \union published'
  <2>1. CASE step[w] = "simulate" /\ CommitRow(w) /\ UNCHANGED <<tmp, published>>
    BY <1>0, <2>1 DEF CommitRow, PipelineInv, ReplaysAtHand
  <2>2. CASE step[w] = "cleanup"
    <3>1. handle[w] \notin commits \ unanswered
      BY <2>2 DEF PipelineInv, StepsFollowPhases, UncommittedUntilSucceeded
    <3> QED
      BY <1>0, <1>1, <2>2, <3>1, FilesByStep DEF vars
  <2> QED
    BY <1>0, <1>1, <2>1, <2>2, FilesByStep DEF vars
<1> QED
  BY <1>0, <1>1, OtherStep

LEMMA StepPipelineInv == PipelineInv /\ [PipelineNext]_pipelineVars => PipelineInv'
  BY StepTypes, StepPhases, StepRequests, StepHandles, StepJobsHaveRuns,
     StepEnqueuedOnce, StepOneCommittedRun, StepFinishedHasResult, StepNames, StepSnaps,
     StepPublished, StepCommitsBehind, StepUncommitted, StepAtHand, StepResults
     DEF PipelineInv

-----------------------------------------------------------------------------

(***************************************************************************)
(* No trouble                                                              *)
(***************************************************************************)

\* An accepted request has nothing left to do.
LEMMA AcceptedStays ==
    ASSUME PipelineInv, [PipelineNext]_pipelineVars, NEW r \in Requests,
           At(r, "accepted")
    PROVE  req'[r].pc = "accepted"
<1>0. req \in [Requests -> Request]
  BY DEF PipelineInv, PipelineTypeOK
<1>1. ASSUME NEW q \in Requests, RequestStep(q)
      PROVE  req'[r].pc = "accepted"
  <2>1. q # r
    BY <1>1 DEF RequestStep, LoadMatch, CountRuns, QueueMatch, CreateRun,
                EnqueueRun, RequestBreaks, At
  <2>2. req'[r] = req[r]
    BY <1>0, <1>1, <2>1 DEF RequestStep, LoadMatch, CountRuns, QueueMatch,
                            CreateRun, EnqueueRun, RequestBreaks, GoTo
  <2> QED
    BY <2>2 DEF At
<1>2. ASSUME NEW w \in Workers, ExecutorStep(w)
      PROVE  UNCHANGED req
  BY <1>2 DEF ExecutorStep, Reserve, Load, MarkRunning, StartRun, OpenReplay,
              CommitResult, CommitUnanswered, PublishReplay, Fail, CleanupStep,
              ReportSuccess, ReportFailure, LeaveExecute, Beat
<1>3. ASSUME NEW m \in Matches,
             Lapse(m) \/ Due(m) \/ \E p \in Processes : ReservationLost(p, m)
      PROVE  UNCHANGED req
  BY <1>3 DEF Lapse, Due, ReservationLost
<1>4. ASSUME NEW p \in Processes, Stop(p)
      PROVE  UNCHANGED req
  BY <1>4 DEF Stop
<1>5. CASE UNCHANGED pipelineVars
  BY <1>5 DEF pipelineVars, At
<1>6. ASSUME UNCHANGED req
      PROVE  req'[r].pc = "accepted"
  BY <1>6 DEF At
<1> QED
  BY <1>1, <1>2, <1>3, <1>4, <1>5, <1>6 DEF PipelineNext

\* The steps that touch the queue, the enqueue with the request that makes it.
LEMMA StepKinds ==
    ASSUME PipelineInv, [PipelineNext]_pipelineVars
    PROVE  \/ UNCHANGED vars
           \/ \E r \in Requests : EnqueueRun(r)
           \/ \E m \in Matches : Lapse(m) \/ Due(m)
           \/ \E w \in Workers : WorkerStep(w)
           \/ \E p \in Processes : Crash(p)
           \/ \E p \in Processes, m \in Matches : DequeueReplyLost(p, m)
<1>1. ASSUME NEW r \in Requests, RequestStep(r)
      PROVE  UNCHANGED vars \/ EnqueueRun(r)
  BY <1>1 DEF RequestStep, LoadMatch, CountRuns, QueueMatch, CreateRun,
              RequestBreaks, UnchangedByRequest
<1>2. ASSUME NEW w \in Workers, ExecutorStep(w)
      PROVE  UNCHANGED vars \/ WorkerStep(w)
  BY <1>2 DEF ExecutorStep, Reserve, Load, MarkRunning, StartRun, OpenReplay,
              CommitResult, CommitUnanswered, PublishReplay, Fail, CleanupStep,
              ReportSuccess, ReportFailure, Beat, WorkerStep
<1>3. ASSUME NEW p \in Processes, Stop(p)
      PROVE  Crash(p)
  BY <1>3 DEF Stop
<1>4. ASSUME NEW p \in Processes, NEW m \in Matches, ReservationLost(p, m)
      PROVE  DequeueReplyLost(p, m)
  BY <1>4 DEF ReservationLost
<1>5. CASE UNCHANGED pipelineVars
  BY <1>5 DEF pipelineVars
<1> QED
  BY <1>1, <1>2, <1>3, <1>4, <1>5 DEF PipelineNext

\* The fault budget is never given back.
LEMMA FaultsCount ==
    ASSUME PipelineInv, [PipelineNext]_pipelineVars, faults' = 0
    PROVE  faults = 0
<1>1. faults \in Nat
  BY DEF PipelineInv, IInv, TypeOK
<1>2. faults' = faults \/ faults' = faults + 1
  BY QueueStep
     DEF Next, vars, Enqueue, LeaseExpires, BackoffElapses, WorkerStep, Dequeue,
         Heartbeat, HeartbeatLost, Commit, CommitReplyLost, ExecuteFails, Complete,
         Retry, RetryLost, Crash, DequeueReplyLost, Fault
<1> QED
  BY <1>1, <1>2

\* The budget of lapses is never given back either.
LEMMA LapsesCount ==
    ASSUME PipelineInv, [PipelineNext]_pipelineVars, lapses' = 0
    PROVE  lapses = 0 /\ \A m \in Matches : ~Lapse(m)
<1>0. lapses \in Nat
  BY DEF PipelineInv, PipelineTypeOK
<1>1. \A m \in Matches : ~Lapse(m)
  BY <1>0 DEF Lapse
<1>2. ASSUME NEW r \in Requests, RequestStep(r)
      PROVE  lapses' = lapses
  BY <1>2 DEF RequestStep, LoadMatch, CountRuns, QueueMatch, CreateRun,
              EnqueueRun, RequestBreaks, UnchangedByRequest
<1>3. ASSUME NEW w \in Workers, ExecutorStep(w)
      PROVE  lapses' = lapses
  BY <1>3 DEF ExecutorStep, Reserve, Load, MarkRunning, StartRun, OpenReplay,
              CommitResult, CommitUnanswered, PublishReplay, Fail, CleanupStep,
              ReportSuccess, ReportFailure, LeaveExecute, Beat
<1>4. ASSUME NEW m \in Matches,
             Due(m) \/ \E p \in Processes : ReservationLost(p, m)
      PROVE  lapses' = lapses
  BY <1>4 DEF Due, ReservationLost
<1>5. ASSUME NEW p \in Processes, Stop(p)
      PROVE  lapses' = lapses
  BY <1>5 DEF Stop
<1>6. CASE UNCHANGED pipelineVars
  BY <1>1, <1>6 DEF pipelineVars
<1> QED
  BY <1>1, <1>2, <1>3, <1>4, <1>5, <1>6 DEF PipelineNext

\* The steps left to the queue and its workers while there is no trouble.
LEMMA UntroubledSteps ==
    ASSUME PipelineInv, [PipelineNext]_pipelineVars, Untroubled'
    PROVE  /\ Untroubled
           /\ \/ UNCHANGED vars
              \/ \E r \in Requests : EnqueueRun(r)
              \/ \E m \in Matches : BackoffElapses(m)
              \/ \E w \in Workers :
                  \/ \E m \in Matches : Dequeue(w, m)
                  \/ Heartbeat(w) \/ Commit(w) \/ ExecuteFails(w)
                  \/ Complete(w) \/ Retry(w)
<1>1. faults = 0 /\ faults' = 0 /\ lapses = 0 /\ \A m \in Matches : ~Lapse(m)
  BY FaultsCount, LapsesCount DEF Untroubled
<1>2. ~Fault
  BY <1>1 DEF Fault
<1>3. ASSUME NEW w \in Workers, WorkerStep(w)
      PROVE  \/ \E m \in Matches : Dequeue(w, m)
             \/ Heartbeat(w) \/ Commit(w) \/ ExecuteFails(w)
             \/ Complete(w) \/ Retry(w)
  BY <1>2, <1>3 DEF WorkerStep, HeartbeatLost, CommitReplyLost, RetryLost
<1>4. ASSUME NEW p \in Processes
      PROVE  ~Crash(p) /\ \A m \in Matches : ~DequeueReplyLost(p, m)
  BY <1>2 DEF Crash, DequeueReplyLost
<1> QED
  BY <1>1, <1>3, <1>4, StepKinds DEF Untroubled, Due

\* What a statement on the row of one match leaves of the rows.
LEMMA RowReplaced ==
    ASSUME jobs \in [Matches -> Row], NEW m \in Matches, NEW row,
           jobs' = [jobs EXCEPT ![m] = row]
    PROVE  jobs'[m] = row /\ \A k \in Matches : k # m => jobs'[k] = jobs[k]
  OBVIOUS

\* A match without a row has none after a step, unless its request enqueues.
LEMMA StepAccepted ==
    ASSUME PipelineInv, RowsAccepted, [PipelineNext]_pipelineVars
    PROVE  RowsAccepted'
<1> SUFFICES ASSUME NEW m \in Matches, jobs'[m].status # "absent"
             PROVE  \E r \in Requests : Target[r] = m /\ req'[r].pc = "accepted"
  BY DEF RowsAccepted, At
<1>0. /\ jobs \in [Matches -> Row]
      /\ phase \in [Workers -> Phases]
      /\ req \in [Requests -> Request]
      /\ IInv
      /\ \A w \in Workers : phase[w] # "idle" => handle[w].match \in Matches
  BY DEF PipelineInv, PipelineTypeOK, IInv, TypeOK, Handle
<1>1. CASE jobs[m].status # "absent"
  BY <1>1, AcceptedStays DEF RowsAccepted
<1>2. ASSUME NEW r \in Requests, EnqueueRun(r), jobs[m].status = "absent"
      PROVE  Target[r] = m /\ req'[r].pc = "accepted"
  <2>1. Target[r] \in Matches
    BY TargetAssumption
  <2>2. req'[r].pc = "accepted"
    BY <1>0, <1>2 DEF EnqueueRun, GoTo, Request
  <2>3. Target[r] # m => jobs'[m] = jobs[m]
    BY <1>0, <1>2, <2>1 DEF EnqueueRun, Enqueue, EnqueueJob
  <2> QED
    BY <1>2, <2>2, <2>3
<1>3. ASSUME jobs[m].status = "absent", NEW k \in Matches, NEW row,
             jobs[k].status # "absent", jobs' = [jobs EXCEPT ![k] = row]
      PROVE  FALSE
  BY <1>0, <1>3, RowReplaced
<1>4. ASSUME NEW k \in Matches, jobs[m].status = "absent",
             \/ LeaseExpires(k) \/ BackoffElapses(k)
             \/ \E p \in Processes : ReserveJob(k, p)
      PROVE  FALSE
  <2>1. jobs[k].status # "absent"
    BY <1>4 DEF LeaseExpires, BackoffElapses, LeaseRunsOut, BackoffEnds,
                ReserveJob, Reservable
  <2>2. \E row : jobs' = [jobs EXCEPT ![k] = row]
    <3>1. CASE LeaseExpires(k)
      BY <3>1 DEF LeaseExpires, LeaseRunsOut
    <3>2. CASE BackoffElapses(k)
      BY <3>2 DEF BackoffElapses, BackoffEnds
    <3>3. CASE \E p \in Processes : ReserveJob(k, p)
      BY <3>3 DEF ReserveJob
    <3> QED
      BY <1>4, <3>1, <3>2, <3>3
  <2> QED
    BY <1>3, <1>4, <2>1, <2>2
<1>5. ASSUME NEW w \in Workers, WorkerStep(w), jobs[m].status = "absent"
      PROVE  FALSE
  <2>1. ASSUME NEW k \in Matches, Dequeue(w, k)
        PROVE  FALSE
    BY <1>4, <1>5, <2>1, HostAssumption DEF Dequeue
  <2>2. CASE CommitRow(w)
    <3>1. /\ jobs[handle[w].match].status # "absent"
          /\ \E row : jobs' = [jobs EXCEPT ![handle[w].match] = row]
          /\ handle[w].match \in Matches
      BY <1>0, <2>2 DEF CommitRow, CommitAccepted, CompleteJob
    <3> QED
      BY <1>3, <1>5, <3>1
  <2>3. CASE Heartbeat(w) \/ Retry(w)
    <3>1. handle[w].match \in Matches
      BY <1>0, <2>3 DEF Heartbeat, Retry, Busy
    <3>2. \/ jobs' = jobs
          \/ /\ jobs[handle[w].match].status # "absent"
             /\ \E row : jobs' = [jobs EXCEPT ![handle[w].match] = row]
      BY <2>3 DEF Heartbeat, Retry, RenewJob, RetryJob, HoldsJob, Holds
    <3> QED
      BY <1>3, <1>5, <3>1, <3>2
  <2>4. CASE HeartbeatLost(w) \/ ExecuteFails(w) \/ Complete(w) \/ RetryLost(w)
    BY <1>0, <1>5, <2>4, CompleteKeepsJobs
       DEF HeartbeatLost, ExecuteFails, RetryLost
  <2> QED
    BY <1>5, <2>1, <2>2, <2>3, <2>4 DEF WorkerStep, Commit, CommitReplyLost
<1>6. CASE UNCHANGED jobs
  BY <1>1, <1>6
<1>7. ASSUME NEW k \in Matches, Lapse(k) \/ Due(k)
      PROVE  LeaseExpires(k) \/ BackoffElapses(k)
  BY <1>7 DEF Lapse, Due
<1>8. ASSUME NEW p \in Processes, NEW k \in Matches, DequeueReplyLost(p, k)
      PROVE  ReserveJob(k, p)
  BY <1>8 DEF DequeueReplyLost
<1>9. ASSUME NEW p \in Processes, Crash(p)
      PROVE  UNCHANGED jobs
  BY <1>9 DEF Crash
<1> QED
  BY <1>1, <1>2, <1>4, <1>5, <1>6, <1>7, <1>8, <1>9, StepKinds DEF vars

\* A worker's hold on its row depends on the row and the handle only.
LEMMA HoldKept ==
    ASSUME NEW v \in Workers, handle'[v] = handle[v],
           jobs'[handle[v].match].status = jobs[handle[v].match].status,
           jobs'[handle[v].match].run = jobs[handle[v].match].run,
           jobs'[handle[v].match].by = jobs[handle[v].match].by,
           jobs'[handle[v].match].token = jobs[handle[v].match].token
    PROVE  HoldsJob(v)' <=> HoldsJob(v)
  BY DEF HoldsJob, Holds

\* Two workers that hold their rows do not hold the same one.
LEMMA HoldersDiffer ==
    ASSUME IInv, NEW v \in Workers, NEW w \in Workers, Busy(v), Busy(w),
           HoldsJob(v), HoldsJob(w), handle[v].match = handle[w].match
    PROVE  v = w
<1>1. handle[v].token > 0 /\ handle[w].token > 0
  BY DEF IInv, TokensHandedOut
<1>2. /\ handle[v] \in Handle /\ handle[w] \in Handle
  BY DEF IInv, TypeOK, Busy
<1>3. handle[v].token = handle[w].token
  BY <1>1, <1>2 DEF HoldsJob, Holds, Handle
<1> QED
  BY <1>3 DEF IInv, TokensDistinct

\* Without trouble a step keeps leases running and executions in possession of
\* their rows, and reopens a completed row only by an enqueue.
LEMMA StepHolds ==
    ASSUME PipelineInv, CalmHolds, [PipelineNext]_pipelineVars, Untroubled',
           NEW m \in Matches, NEW v
    PROVE  /\ ~jobs'[m].expired
           /\ v \in Workers /\ phase'[v] \in {"executing", "errored"} => HoldsJob(v)'
           /\ jobs[m].status = "completed" =>
                \/ jobs'[m].status = "completed"
                \/ \E r \in Requests : EnqueueRun(r) /\ Target[r] = m
<1> DEFINE Goal ==
        /\ ~jobs'[m].expired
        /\ v \in Workers /\ phase'[v] \in {"executing", "errored"} => HoldsJob(v)'
        /\ jobs[m].status = "completed" =>
             \/ jobs'[m].status = "completed"
             \/ \E r \in Requests : EnqueueRun(r) /\ Target[r] = m
<1>0. /\ IInv
      /\ jobs \in [Matches -> Row]
      /\ phase \in [Workers -> Phases]
      /\ handle \in [Workers -> Handle \union {NoHandle}]
      /\ \A w \in Workers : phase[w] # "idle" =>
            handle[w] \in Handle /\ handle[w].match \in Matches
      /\ \A k \in Matches : ~jobs[k].expired
      /\ \A w \in Workers : phase[w] \in {"executing", "errored"} => HoldsJob(w)
      /\ \A r \in Requests : Target[r] \in Matches
  BY UntroubledSteps, TargetAssumption
     DEF PipelineInv, IInv, TypeOK, Handle, CalmHolds
\* A statement that another worker than v, or a request, issues on a row v does
\* not hold.
<1>1. ASSUME NEW k \in Matches, NEW row, jobs' = [jobs EXCEPT ![k] = row],
             ~row.expired,
             jobs[k].status = "completed" => row.status = "completed",
             v \in Workers /\ phase'[v] \in {"executing", "errored"} =>
                /\ phase[v] \in {"executing", "errored"}
                /\ handle'[v] = handle[v] /\ handle[v].match # k
      PROVE  Goal
  <2>1. jobs'[k] = row /\ \A j \in Matches : j # k => jobs'[j] = jobs[j]
    BY <1>0, <1>1, RowReplaced
  <2>2. ASSUME v \in Workers, phase'[v] \in {"executing", "errored"}
        PROVE  HoldsJob(v)'
    <3>1. /\ phase[v] \in {"executing", "errored"} /\ handle'[v] = handle[v]
          /\ handle[v].match \in Matches /\ handle[v].match # k
      BY <1>0, <1>1, <2>2
    <3>2. jobs'[handle[v].match] = jobs[handle[v].match]
      BY <2>1, <3>1
    <3> QED
      BY <1>0, <2>2, <3>1, <3>2, HoldKept
  <2> QED
    BY <1>0, <1>1, <2>1, <2>2
<1>2. ASSUME UNCHANGED jobs,
             v \in Workers /\ phase'[v] \in {"executing", "errored"} =>
                phase[v] \in {"executing", "errored"} /\ handle'[v] = handle[v]
      PROVE  Goal
  BY <1>0, <1>2, HoldKept
<1>3. ASSUME NEW r \in Requests, EnqueueRun(r)
      PROVE  Goal
  <2> DEFINE k == Target[r]
             row == EnqueuedRow(k, req[r].run)
  <2>1. k \in Matches /\ UNCHANGED <<phase, handle>>
    BY <1>0, <1>3 DEF EnqueueRun, Enqueue
  <2>2. CASE Enqueueable(k)
    <3>1. jobs' = [jobs EXCEPT ![k] = row]
      BY <1>3, <2>2 DEF EnqueueRun, Enqueue, EnqueueJob
    <3>2. ~row.expired
      BY <1>0, <2>1 DEF EnqueuedRow, Row
    <3>3. HoldsJob(v) => handle[v].match # k
      BY <2>2 DEF HoldsJob, Holds, Enqueueable
    <3> HIDE DEF row
    <3>4. CASE m = k
      <4>1. jobs'[k] = row /\ \A j \in Matches : j # k => jobs'[j] = jobs[j]
        BY <1>0, <2>1, <3>1, RowReplaced
      <4>2. ASSUME v \in Workers, phase'[v] \in {"executing", "errored"}
            PROVE  HoldsJob(v)'
        <5>1. /\ HoldsJob(v) /\ handle'[v] = handle[v]
              /\ handle[v].match \in Matches /\ handle[v].match # k
          BY <1>0, <2>1, <3>3, <4>2
        <5> QED
          BY <4>1, <4>2, <5>1, HoldKept
      <4> QED
        BY <1>3, <3>2, <3>4, <4>1, <4>2
    <3>5. CASE m # k
      <4>1. jobs'[m] = jobs[m]
        BY <1>0, <2>1, <3>1, <3>5, RowReplaced
      <4>2. ASSUME v \in Workers, phase'[v] \in {"executing", "errored"}
            PROVE  HoldsJob(v)'
        <5>1. /\ HoldsJob(v) /\ handle'[v] = handle[v]
              /\ handle[v].match \in Matches /\ handle[v].match # k
          BY <1>0, <2>1, <3>3, <4>2
        <5>2. jobs'[handle[v].match] = jobs[handle[v].match]
          BY <1>0, <2>1, <3>1, <5>1, RowReplaced
        <5> QED
          BY <4>2, <5>1, <5>2, HoldKept
      <4> QED
        BY <1>0, <4>1, <4>2
    <3> QED
      BY <3>4, <3>5
  <2>3. CASE ~Enqueueable(k)
    BY <1>2, <1>3, <2>1, <2>3 DEF EnqueueRun, Enqueue, EnqueueJob
  <2> QED
    BY <2>2, <2>3
<1>4. ASSUME NEW k \in Matches, BackoffElapses(k)
      PROVE  Goal
  <2> DEFINE row == [jobs[k] EXCEPT !.due = TRUE]
  <2>1. /\ jobs' = [jobs EXCEPT ![k] = row] /\ jobs[k].status = "pending"
        /\ UNCHANGED <<phase, handle>>
    BY <1>4 DEF BackoffElapses, BackoffEnds
  <2>2. ~row.expired
    BY <1>0 DEF Row
  <2>3. HoldsJob(v) => handle[v].match # k
    BY <2>1 DEF HoldsJob, Holds
  <2> HIDE DEF row
  <2> QED
    BY <1>0, <1>1, <2>1, <2>2, <2>3
<1>5. ASSUME NEW w \in Workers, NEW k \in Matches, Dequeue(w, k)
      PROVE  Goal
  <2> DEFINE row == ReservedRow(k, Host[w])
  <2>1. /\ jobs' = [jobs EXCEPT ![k] = row] /\ jobs[k].status = "pending"
    BY <1>0, <1>5 DEF Dequeue, ReserveJob, Reservable
  <2>2. Host[w] \in Processes
    BY HostAssumption
  <2>3. /\ ~row.expired /\ row.status = "reserved" /\ row.by = Host[w]
        /\ row.run = jobs[k].run /\ row.token = jobs[k].token + 1
    BY <1>0, <2>2 DEF ReservedRow, Row
  <2>4. HoldsJob(v) => handle[v].match # k
    BY <2>1 DEF HoldsJob, Holds
  <2> HIDE DEF row
  <2>5. CASE v = w
    <3>1. jobs'[k] = row /\ \A j \in Matches : j # k => jobs'[j] = jobs[j]
      BY <1>0, <2>1, RowReplaced
    <3>2. handle'[v] = [match |-> k, run |-> jobs[k].run, token |-> jobs[k].token + 1]
      BY <1>0, <1>5, <2>5 DEF Dequeue
    <3>3. HoldsJob(v)'
      BY <2>3, <2>5, <3>1, <3>2 DEF HoldsJob, Holds
    <3> QED
      BY <1>0, <2>1, <2>3, <3>1, <3>3
  <2>6. CASE v # w
    <3>1. v \in Workers => phase'[v] = phase[v] /\ handle'[v] = handle[v]
      BY <1>0, <1>5, <2>6 DEF Dequeue
    <3> QED
      BY <1>0, <1>1, <2>1, <2>3, <2>4, <3>1
  <2> QED
    BY <2>5, <2>6
<1>6. ASSUME NEW w \in Workers, Heartbeat(w)
      PROVE  Goal
  <2>1. UNCHANGED <<phase, handle>>
    BY <1>6 DEF Heartbeat
  <2>2. CASE HoldsJob(w)
    <3> DEFINE k == handle[w].match
    <3>1. k \in Matches /\ jobs' = [jobs EXCEPT ![k] = RenewedRow(k)]
      BY <1>0, <1>6, <2>2 DEF Heartbeat, RenewJob, Busy
    <3>2. jobs'[k] = RenewedRow(k) /\ \A j \in Matches : j # k => jobs'[j] = jobs[j]
      BY <1>0, <3>1, RowReplaced
    <3>3. RenewedRow(k) = jobs[k]
      BY <1>0, <3>1 DEF RenewedRow, Row
    <3>4. \A j \in Matches : jobs'[j] = jobs[j]
      BY <3>2, <3>3
    <3>5. v \in Workers /\ phase'[v] \in {"executing", "errored"} => HoldsJob(v)'
      BY <1>0, <2>1, <3>4, HoldKept
    <3> QED
      BY <1>0, <3>4, <3>5
  <2> QED
    BY <1>2, <1>6, <2>1, <2>2 DEF Heartbeat
<1>7. ASSUME NEW w \in Workers, Commit(w)
      PROVE  Goal
  <2> DEFINE k == handle[w].match
             row == CompletedRow(k)
  <2>1. /\ k \in Matches /\ phase[w] = "executing"
        /\ jobs' = [jobs EXCEPT ![k] = row]
        /\ phase' = [phase EXCEPT ![w] = "succeeded"] /\ handle' = handle
    BY <1>0, <1>7 DEF Commit, CommitRow, CompleteJob
  <2>2. ~row.expired /\ row.status = "completed"
    BY <1>0, <2>1 DEF CompletedRow, Row
  <2>3. v \in Workers /\ phase'[v] \in {"executing", "errored"} =>
            v # w /\ phase[v] \in {"executing", "errored"}
    BY <1>0, <2>1
  <2>4. v \in Workers \ {w} /\ phase[v] \in {"executing", "errored"} => handle[v].match # k
    BY <1>0, <2>1, HoldersDiffer DEF Busy
  <2> HIDE DEF row
  <2> QED
    BY <1>1, <2>1, <2>2, <2>3, <2>4
<1>8. ASSUME NEW w \in Workers, Retry(w)
      PROVE  Goal
  <2> DEFINE k == handle[w].match
             row == RetriedRow(k)
  <2>1. /\ k \in Matches /\ phase[w] = "errored" /\ HoldsJob(w)
        /\ jobs' = [jobs EXCEPT ![k] = row]
        /\ phase' = [phase EXCEPT ![w] = "idle"]
        /\ handle' = [handle EXCEPT ![w] = NoHandle]
    BY <1>0, <1>8 DEF Retry, RetryJob, GoIdle
  <2>2. ~row.expired /\ jobs[k].status # "completed"
    BY <1>0, <2>1 DEF RetriedRow, Row, HoldsJob, Holds
  <2>3. v \in Workers /\ phase'[v] \in {"executing", "errored"} =>
            /\ v # w /\ phase[v] \in {"executing", "errored"}
            /\ handle'[v] = handle[v]
    BY <1>0, <2>1
  <2>4. v \in Workers \ {w} /\ phase[v] \in {"executing", "errored"} => handle[v].match # k
    BY <1>0, <2>1, HoldersDiffer DEF Busy
  <2> HIDE DEF row
  <2> QED
    BY <1>1, <2>1, <2>2, <2>3, <2>4
<1>9. ASSUME NEW w \in Workers, Complete(w)
      PROVE  Goal
  <2>1. jobs' = jobs /\ GoIdle(w)
    BY <1>0, <1>9, CompleteKeepsJobs DEF Complete
  <2> QED
    BY <1>0, <1>2, <2>1 DEF GoIdle
<1>10. ASSUME NEW w \in Workers, ExecuteFails(w)
       PROVE  Goal
  BY <1>0, <1>2, <1>10 DEF ExecuteFails
<1>11. CASE UNCHANGED vars
  BY <1>2, <1>11 DEF vars
<1> QED
  BY <1>3, <1>4, <1>5, <1>6, <1>7, <1>8, <1>9, <1>10, <1>11, UntroubledSteps

\* A match is finished only by the commit that completes its row.
LEMMA FinishedByCommit ==
    ASSUME PipelineInv, [PipelineNext]_pipelineVars, NEW m \in Matches,
           matches'[m].status = "finished", matches'[m] # matches[m]
    PROVE  \E w \in Workers : CommitRow(w) /\ handle[w].match = m
<1>1. ASSUME NEW r \in Requests, RequestStep(r)
      PROVE  FALSE
  BY <1>1, RequestKeepsResult
<1>2. ASSUME NEW w \in Workers, step[w] \notin {"idle", "load"},
             UpdateMatch(w, "running") \/ UpdateMatch(w, "failed")
      PROVE  FALSE
  BY <1>2, WorkerWrites
<1>3. ASSUME NEW w \in Workers, step[w] \notin {"idle", "load"},
             CommitStore(w), CommitRow(w)
      PROVE  handle[w].match = m
  BY <1>3, WorkerWrites DEF MatchOf
<1> QED
  BY <1>1, <1>2, <1>3, MatchesByStep

LEMMA StepCalmHolds ==
    ASSUME PipelineInv, CalmHolds, [PipelineNext]_pipelineVars
    PROVE  CalmHolds'
<1> SUFFICES ASSUME Untroubled'
             PROVE  /\ \A m \in Matches : ~jobs'[m].expired
                    /\ \A v \in Workers :
                        phase'[v] \in {"executing", "errored"} => HoldsJob(v)'
  BY DEF CalmHolds
<1>1. ASSUME NEW v \in Workers, phase'[v] \in {"executing", "errored"}
      PROVE  HoldsJob(v)'
  <2>1. handle'[v] \in Handle
    BY <1>1, StepTypes DEF IInv, TypeOK
  <2>2. PICK m \in Matches : TRUE
    BY <2>1 DEF Handle
  <2> QED
    BY <1>1, <2>2, StepHolds
<1>2. ASSUME NEW m \in Matches
      PROVE  ~jobs'[m].expired
  BY StepHolds
<1> QED
  BY <1>1, <1>2

LEMMA StepCalmFinished ==
    ASSUME CalmInv, OneRequestEach, [PipelineNext]_pipelineVars
    PROVE  CalmFinished'
<1> SUFFICES ASSUME Untroubled', NEW m \in Matches, matches'[m].status = "finished"
             PROVE  jobs'[m].status = "completed"
  BY DEF CalmFinished
<1>0. PipelineInv /\ CalmHolds /\ RowsAccepted /\ CalmFinished
  BY DEF CalmInv
<1>1. CASE \E w \in Workers : CommitRow(w) /\ handle[w].match = m
  <2>1. jobs' = [jobs EXCEPT ![m] = CompletedRow(m)] /\ jobs \in [Matches -> Row]
    BY <1>0, <1>1 DEF CommitRow, CompleteJob, PipelineInv, IInv, TypeOK
  <2> QED
    BY <2>1, RowsWritten
<1>2. CASE matches'[m] = matches[m]
  <2>1. matches[m].status = "finished" /\ jobs[m].status = "completed"
    BY <1>0, <1>2, UntroubledSteps DEF CalmFinished
  <2>2. \A r \in Requests : EnqueueRun(r) => Target[r] # m
    BY <1>0, <2>1 DEF EnqueueRun, RowsAccepted, OneRequestEach, At
  <2> QED
    BY <1>0, <2>1, <2>2, StepHolds
<1> QED
  BY <1>0, <1>1, <1>2, FinishedByCommit

LEMMA InitCalmInv == PipelineInit => CalmInv /\ ResultInv
<1> SUFFICES ASSUME PipelineInit
             PROVE  CalmInv /\ ResultInv
  OBVIOUS
<1>1. /\ \A m \in Matches : jobs[m] = AbsentRow /\ matches[m] = NewMatch
      /\ \A w \in Workers : phase[w] = "idle" /\ step[w] = "idle"
  BY DEF PipelineInit, Init, InitJobs
<1>2. RowsAccepted /\ CalmHolds /\ CalmFinished
  BY <1>1 DEF AbsentRow, NewMatch, RowsAccepted, CalmHolds, CalmFinished
<1>3. CalmResults
  BY <1>1 DEF NewMatch, CalmResults, Remembers
<1> QED
  BY <1>2, <1>3, InitPipelineInv DEF CalmInv, ResultInv

\* What CalmFinishedIsFinal says of one step.
CalmKeeps ==
    \A m \in Matches :
        Calm /\ matches[m].status = "finished" => matches'[m] = matches[m]

\* Only an execution that holds its row could write over a finished match, and
\* the row of a finished match is completed.
LEMMA StepCalmKeeps ==
    ASSUME CalmInv, OneRequestEach, [PipelineNext]_pipelineVars
    PROVE  CalmKeeps
<1> SUFFICES ASSUME NEW m \in Matches, Calm, matches[m].status = "finished",
                    matches'[m] # matches[m]
             PROVE  FALSE
  BY DEF CalmKeeps
<1>0. PipelineInv /\ CalmHolds /\ CalmFinished /\ Untroubled'
  BY DEF CalmInv, Calm, Untroubled
<1>1. Untroubled /\ jobs[m].status = "completed"
  BY <1>0, UntroubledSteps DEF CalmFinished
<1>2. ASSUME NEW r \in Requests, RequestStep(r)
      PROVE  FALSE
  BY <1>0, <1>2, RequestKeepsFinished
<1>3. ASSUME NEW w \in Workers, UpdateMatch(w, "running") \/ UpdateMatch(w, "failed"),
             step[w] \in {"mark", "cleanup"}
      PROVE  FALSE
  <2>1. HoldsJob(w)
    BY <1>0, <1>1, <1>3 DEF CalmHolds, PipelineInv, StepsFollowPhases
  <2>2. MatchOf(w) = m
    BY <1>0, <1>3, WorkerWrites
  <2> QED
    BY <1>1, <2>1, <2>2 DEF HoldsJob, Holds, MatchOf
<1>4. ASSUME NEW w \in Workers, step[w] \notin {"idle", "load"},
             CommitStore(w), CommitRow(w)
      PROVE  FALSE
  <2>1. handle[w].match = m
    BY <1>0, <1>4, WorkerWrites DEF MatchOf
  <2> QED
    BY <1>1, <1>4, <2>1 DEF CommitRow, CommitAccepted
<1> QED
  BY <1>0, <1>2, <1>3, <1>4, MatchesByStep

-----------------------------------------------------------------------------

(***************************************************************************)
(* The result a match names, and no trouble                                *)
(***************************************************************************)

\* The run a match names is one of its runs; while it is the row's, the row is
\* completed.
LEMMA NamedRun ==
    ASSUME PipelineInv, NEW m \in Matches, matches[m].run # 0
    PROVE  /\ matches[m].run \in 1..MaxRuns
           /\ jobs[m].run = matches[m].run => jobs[m].status = "completed"
<1> DEFINE c == [match |-> m, run |-> matches[m].run, token |-> matches[m].replay]
<1>1. c \in commits
  BY DEF PipelineInv, MatchNamesOneCommit
<1>2. c.match = m /\ c.run = matches[m].run
  OBVIOUS
<1> HIDE DEF c
<1>3. /\ c.run \in issued[c.match]
      /\ c.run = jobs[c.match].run => jobs[c.match].status = "completed"
  BY <1>1 DEF PipelineInv, IInv, CommittedRunClosed
<1>4. issued[m] \subseteq 1..MaxRuns
  BY DEF PipelineInv, IInv, TypeOK
<1> QED
  BY <1>2, <1>3, <1>4

\* An execution that holds its row is of another run than the one its match
\* names.
LEMMA HolderOfOtherRun ==
    ASSUME PipelineInv, CalmHolds, Untroubled, NEW w \in Workers,
           phase[w] \in {"executing", "errored"},
           matches[MatchOf(w)].run # 0
    PROVE  RunOf(w) # matches[MatchOf(w)].run
<1>1. HoldsJob(w)
  BY DEF CalmHolds
<1>2. step[w] # "idle"
  BY DEF PipelineInv, PipelineTypeOK
<1>3. MatchOf(w) \in Matches
  BY <1>2, AtWork
<1>4. jobs[MatchOf(w)].status = "reserved" /\ jobs[MatchOf(w)].run = RunOf(w)
  BY <1>1 DEF HoldsJob, Holds, MatchOf, RunOf
<1> QED
  BY <1>3, <1>4, NamedRun

\* Nobody commits a second run of a match that names a committed one.
LEMMA NoSecondCommit ==
    ASSUME ResultInv, Untroubled, NEW w \in Workers, CommitStore(w), CommitRow(w)
    PROVE  matches[MatchOf(w)].run = 0
<1> SUFFICES ASSUME matches[MatchOf(w)].run # 0
             PROVE  FALSE
  OBVIOUS
<1>0. PipelineInv /\ CalmHolds /\ CalmResults
  BY DEF ResultInv
<1>1. MatchOf(w) \in Matches /\ phase[w] = "executing"
  BY <1>0, AtWork DEF CommitStore, CommitRow
<1>2. runs[MatchOf(w)][matches[MatchOf(w)].run].status = "committed"
  BY <1>0, <1>1 DEF CalmResults
<1>3. matches[MatchOf(w)].run \in 1..MaxRuns
  BY <1>0, <1>1, NamedRun
<1>4. matches[MatchOf(w)].run = RunOf(w)
  BY <1>2, <1>3 DEF CommitStore, IndexAllows
<1> QED
  BY <1>0, <1>1, <1>4, HolderOfOtherRun

\* What a step without trouble leaves of the result a match names.
LEMMA ResultStays ==
    ASSUME ResultInv, [PipelineNext]_pipelineVars, Untroubled',
           NEW m \in Matches, matches[m].run # 0
    PROVE  /\ matches'[m].run = matches[m].run
           /\ matches'[m].replay = matches[m].replay
           /\ runs'[m][matches[m].run].status = "committed"
<1>0. PipelineInv /\ CalmHolds /\ CalmResults /\ Untroubled
  BY UntroubledSteps DEF ResultInv
<1>1. /\ runs[m][matches[m].run].status = "committed"
      /\ matches[m].run \in 1..MaxRuns
  BY <1>0, NamedRun DEF CalmResults
<1>2. ASSUME NEW w \in Workers, CommitStore(w), CommitRow(w)
      PROVE  MatchOf(w) # m
  BY <1>2, <1>0, NoSecondCommit
<1>3. ASSUME NEW w \in Workers, step[w] \in {"mark", "cleanup"}, Remembers(w),
             UpdateMatch(w, "running") \/ UpdateMatch(w, "failed")
      PROVE  /\ matches'[m].run = matches[m].run
             /\ matches'[m].replay = matches[m].replay
  BY <1>0, <1>3, WorkerWrites DEF CalmResults
<1>4. /\ matches'[m].run = matches[m].run
      /\ matches'[m].replay = matches[m].replay
  <2>1. ASSUME NEW r \in Requests, RequestStep(r)
        PROVE  /\ matches'[m].run = matches[m].run
               /\ matches'[m].replay = matches[m].replay
    BY <1>0, <2>1, RequestKeepsResult
  <2>2. ASSUME NEW w \in Workers, step[w] \notin {"idle", "load"},
               CommitStore(w), CommitRow(w)
        PROVE  /\ matches'[m].run = matches[m].run
               /\ matches'[m].replay = matches[m].replay
    BY <1>0, <1>2, <2>2, WorkerWrites
  <2> QED
    BY <1>0, <1>3, <2>1, <2>2, MatchesByStep
<1>5. runs'[m][matches[m].run].status = "committed"
  <2>1. ASSUME NEW w \in Workers, step[w] # "idle", FailMatchRun(w),
               step[w] = "cleanup"
        PROVE  runs'[m][matches[m].run].status = "committed"
    <3>1. phase[w] = "errored" /\ MatchOf(w) \in Matches /\ RunOf(w) \in 1..MaxRuns
      BY <1>0, <2>1, AtWork DEF PipelineInv, StepsFollowPhases
    <3>2. m # MatchOf(w) \/ matches[m].run # RunOf(w)
      BY <1>0, <3>1, HolderOfOtherRun
    <3>3. runs' = WithStatus(MatchOf(w), RunOf(w), "failed")
      BY <2>1 DEF FailMatchRun, WithStatus
    <3>4. runs \in [Matches -> [1..MaxRuns -> RunRow]]
      BY <1>0 DEF PipelineInv, PipelineTypeOK
    <3> QED
      BY <1>1, <3>1, <3>2, <3>3, <3>4, RunStatusAfter
  <2>2. ASSUME NEW w \in Workers, step[w] # "idle", StartMatchRun(w)
        PROVE  runs'[m][matches[m].run].status = "committed"
    <3>1. /\ MatchOf(w) \in Matches /\ RunOf(w) \in 1..MaxRuns
          /\ runs \in [Matches -> [1..MaxRuns -> RunRow]]
      BY <1>0, <2>2, AtWork DEF PipelineInv, PipelineTypeOK
    <3> QED
      BY <1>1, <2>2, <3>1 DEF StartMatchRun
  <2>3. ASSUME NEW w \in Workers, step[w] # "idle", CommitStore(w)
        PROVE  runs'[m][matches[m].run].status = "committed"
    BY <1>0, <1>1, <2>3, RunsRewritten
  <2>4. ASSUME NEW r \in Requests, At(r, "create"), AddRun(r)
        PROVE  runs'[m][matches[m].run].status = "committed"
    BY <1>0, <1>1, <2>4, RunsRewritten
  <2> QED
    BY <1>0, <1>1, <2>1, <2>2, <2>3, <2>4, RunsByStep
<1> QED
  BY <1>4, <1>5

\* A match comes to name a result by the commit of it.
LEMMA NamedByCommit ==
    ASSUME ResultInv, [PipelineNext]_pipelineVars, Untroubled', NEW m \in Matches,
           matches[m].run = 0, matches'[m].run # 0
    PROVE  \E w \in Workers :
               step[w] # "idle" /\ CommitStore(w) /\ matches'[m] # matches[m]
<1>0. PipelineInv /\ CalmResults /\ Untroubled
  BY UntroubledSteps DEF ResultInv
<1>1. ASSUME NEW r \in Requests, RequestStep(r)
      PROVE  FALSE
  BY <1>0, <1>1, RequestKeepsResult
<1>2. ASSUME NEW w \in Workers, step[w] \in {"mark", "cleanup"}, Remembers(w),
             UpdateMatch(w, "running") \/ UpdateMatch(w, "failed")
      PROVE  FALSE
  BY <1>0, <1>2, WorkerWrites DEF CalmResults
<1> QED
  BY <1>0, <1>1, <1>2, MatchesByStep

\* An execution that goes on remembering its row finds its match's result as it
\* was: nobody else writes it.
LEMMA OthersKeepResult ==
    ASSUME ResultInv, [PipelineNext]_pipelineVars, Untroubled',
           NEW v \in Workers, Remembers(v), Remembers(v)'
    PROVE  /\ matches'[MatchOf(v)].run = matches[MatchOf(v)].run
           /\ matches'[MatchOf(v)].replay = matches[MatchOf(v)].replay
<1>0. /\ PipelineInv /\ CalmHolds /\ CalmResults /\ Untroubled
      /\ IInv
      /\ step \in [Workers -> Steps]
      /\ ~Fault
  BY UntroubledSteps DEF ResultInv, PipelineInv, PipelineTypeOK, Untroubled, Fault,
                         IInv, TypeOK
<1>1. step[v] # "idle" /\ phase[v] \in {"executing", "errored"}
  BY <1>0 DEF Remembers, PipelineInv, StepsFollowPhases
<1>2. MatchOf(v) \in Matches
  BY <1>0, <1>1, AtWork
<1>3. ASSUME NEW r \in Requests, RequestStep(r)
      PROVE  /\ matches'[MatchOf(v)].run = matches[MatchOf(v)].run
             /\ matches'[MatchOf(v)].replay = matches[MatchOf(v)].replay
  BY <1>0, <1>2, <1>3, RequestKeepsResult
<1>4. ASSUME NEW w \in Workers, step[w] \in {"mark", "cleanup"}, Remembers(w),
             UpdateMatch(w, "running") \/ UpdateMatch(w, "failed")
      PROVE  /\ matches'[MatchOf(v)].run = matches[MatchOf(v)].run
             /\ matches'[MatchOf(v)].replay = matches[MatchOf(v)].replay
  BY <1>0, <1>2, <1>4, WorkerWrites DEF CalmResults
<1>5. ASSUME NEW w \in Workers, step[w] \notin {"idle", "load"},
             CommitStore(w), CommitRow(w), Advance(w, "publish")
      PROVE  matches'[MatchOf(v)] = matches[MatchOf(v)]
  <2>1. w # v
    BY <1>0, <1>5 DEF Advance, Remembers
  <2>2. phase[w] = "executing"
    BY <1>5 DEF CommitRow
  <2>3. HoldsJob(v) /\ HoldsJob(w) /\ Busy(v) /\ Busy(w)
    BY <1>0, <1>1, <2>2 DEF CalmHolds, Busy
  <2>4. MatchOf(v) # MatchOf(w)
    BY <1>0, <2>1, <2>3, HoldersDiffer DEF MatchOf
  <2> QED
    BY <1>0, <1>2, <1>5, <2>4, WorkerWrites
<1> QED
  BY <1>0, <1>3, <1>4, <1>5, MatchesByStep

\* An execution remembers the row it has just loaded or had loaded before.
LEMMA RemembersFrom ==
    ASSUME PipelineInv, [PipelineNext]_pipelineVars, NEW v \in Workers,
           Remembers(v)'
    PROVE  \/ Remembers(v) /\ handle'[v] = handle[v] /\ snap'[v] = snap[v]
           \/ /\ step[v] = "load" /\ snap'[v] = matches[MatchOf(v)]
              /\ UNCHANGED matches /\ handle'[v] = handle[v]
<1>0. /\ step \in [Workers -> Steps]
      /\ todo \in [Workers -> Seq(Duties)]
  BY ColumnsTyped DEF Columns
<1>1. CASE /\ handle'[v] = handle[v] /\ step'[v] = step[v] /\ snap'[v] = snap[v]
           /\ todo'[v] = todo[v]
  BY <1>1 DEF Remembers
<1>2. ASSUME NEW w \in Workers, ExecutorStep(w), w # v
      PROVE  todo'[v] = todo[v]
  BY <1>0, <1>2
     DEF ExecutorStep, Reserve, Load, MarkRunning, StartRun, OpenReplay,
         CommitResult, CommitUnanswered, PublishReplay, Fail, CleanupStep,
         ReportSuccess, ReportFailure, LeaveExecute, Beat, local
<1>3. CASE ExecutorStep(v)
  <2>1. CASE \E m \in Matches : Reserve(v, m)
    BY <1>0, <2>1 DEF Reserve, Advance, Remembers
  <2>2. CASE Load(v)
    BY <2>2, <1>0, OwnStep, <1>3 DEF Load, store, vars, Advance, Remembers
  <2>3. CASE MarkRunning(v) \/ StartRun(v) \/ OpenReplay(v)
    BY <2>3 DEF MarkRunning, StartRun, OpenReplay, Remembers, vars
  <2>4. CASE CommitResult(v) \/ PublishReplay(v)
    BY <1>0, <2>4 DEF CommitResult, PublishReplay, Advance, Remembers
  <2>5. CASE CommitUnanswered(v)
    BY <2>5 DEF CommitUnanswered, CommitStore, CommitReplyLost, Remembers
  <2>6. CASE Fail(v)
    <3>1. step[v] # "load"
      BY <1>0, <2>6 DEF Fail, Plans, Advance, Remembers
    <3>2. step[v] \in {"prepare", "simulate"}
      BY <2>6, <3>1 DEF Fail, Plans
    <3> QED
      BY <2>6, <3>2 DEF Fail, ExecuteFails, Remembers
  <2>7. CASE CleanupStep(v)
    BY <2>7 DEF CleanupStep, Remembers, vars
  <2>8. CASE ReportSuccess(v) \/ ReportFailure(v)
    BY <1>0, <2>8 DEF ReportSuccess, ReportFailure, LeaveExecute, Advance, Remembers
  <2>9. CASE Beat(v)
    BY <1>1, <2>9 DEF Beat, Heartbeat, HeartbeatLost, local
  <2> QED
    BY <1>3, <2>1, <2>2, <2>3, <2>4, <2>5, <2>6, <2>7, <2>8, <2>9 DEF ExecutorStep
<1>4. ASSUME NEW w \in Workers, ExecutorStep(w), w # v
      PROVE  handle'[v] = handle[v] /\ step'[v] = step[v] /\ snap'[v] = snap[v]
  BY <1>4, OwnStep
<1>5. ASSUME NEW r \in Requests, RequestStep(r)
      PROVE  UNCHANGED <<handle, step, snap, todo>>
  BY <1>5 DEF RequestStep, LoadMatch, CountRuns, QueueMatch, CreateRun, EnqueueRun,
              Enqueue, RequestBreaks, UnchangedByRequest, vars, local
<1>6. ASSUME NEW m \in Matches,
             Lapse(m) \/ Due(m) \/ \E p \in Processes : ReservationLost(p, m)
      PROVE  UNCHANGED <<handle, step, snap, todo>>
  BY <1>6 DEF Lapse, Due, ReservationLost, LeaseExpires, BackoffElapses,
              DequeueReplyLost, local
<1>7. ASSUME NEW p \in Processes, Stop(p)
      PROVE  \/ /\ handle'[v] = handle[v] /\ step'[v] = step[v]
                /\ snap'[v] = snap[v] /\ todo'[v] = todo[v]
             \/ step'[v] = "idle"
  BY <1>0, <1>7 DEF Stop, Crash, PipelineInv, PipelineTypeOK, IInv, TypeOK
<1>8. CASE UNCHANGED pipelineVars
  BY <1>1, <1>8 DEF pipelineVars, vars, local
<1>9. step'[v] # "idle"
  BY DEF Remembers
<1> QED
  BY <1>1, <1>2, <1>3, <1>4, <1>5, <1>6, <1>7, <1>8, <1>9 DEF PipelineNext

LEMMA StepCalmResults ==
    ASSUME ResultInv, [PipelineNext]_pipelineVars
    PROVE  CalmResults'
<1> SUFFICES ASSUME Untroubled'
             PROVE  /\ \A m \in Matches : matches'[m].run # 0 =>
                          runs'[m][matches'[m].run].status = "committed"
                    /\ \A v \in Workers : Remembers(v)' =>
                        /\ snap'[v].run = matches'[handle'[v].match].run
                        /\ snap'[v].replay = matches'[handle'[v].match].replay
  BY DEF CalmResults, MatchOf
<1>0. PipelineInv /\ CalmHolds /\ CalmResults /\ Untroubled
  BY UntroubledSteps DEF ResultInv
<1>1. ASSUME NEW m \in Matches, matches'[m].run # 0
      PROVE  runs'[m][matches'[m].run].status = "committed"
  <2>1. CASE matches[m].run # 0
    BY <2>1, ResultStays
  <2>2. CASE matches[m].run = 0
    <3>1. PICK w \in Workers :
              step[w] # "idle" /\ CommitStore(w) /\ matches'[m] # matches[m]
      BY <1>0, <1>1, <2>2, NamedByCommit
    <3>2. m = MatchOf(w) /\ matches'[m].run = RunOf(w)
      BY <1>0, <3>1, WorkerWrites DEF RunOf
    <3>3. RunOf(w) \in 1..MaxRuns
      BY <1>0, <3>1, AtWork
    <3> QED
      BY <1>0, <3>1, <3>2, <3>3, RunsRewritten
  <2> QED
    BY <2>1, <2>2
<1>2. ASSUME NEW v \in Workers, Remembers(v)'
      PROVE  /\ snap'[v].run = matches'[handle'[v].match].run
             /\ snap'[v].replay = matches'[handle'[v].match].replay
  <2>1. CASE /\ Remembers(v) /\ handle'[v] = handle[v] /\ snap'[v] = snap[v]
    BY <1>0, <1>2, <2>1, OthersKeepResult DEF CalmResults, MatchOf
  <2>2. CASE /\ step[v] = "load" /\ snap'[v] = matches[MatchOf(v)]
             /\ UNCHANGED matches /\ handle'[v] = handle[v]
    BY <2>2 DEF MatchOf
  <2> QED
    BY <1>0, <1>2, <2>1, <2>2, RemembersFrom
<1> QED
  BY <1>1, <1>2

-----------------------------------------------------------------------------

(***************************************************************************)
(* Theorems                                                                *)
(***************************************************************************)

\* PipelineInv holds of every reachable state of requests, workers and store
\* (matches.go RunMatch, executor.go Execute, worker.go).
THEOREM PipelineInvariant == PipelineSpec => []PipelineInv
<1>1. PipelineInit => PipelineInv
  BY InitPipelineInv
<1>2. PipelineInv /\ [PipelineNext]_pipelineVars => PipelineInv'
  BY StepPipelineInv
<1> QED
  BY <1>1, <1>2, PTL DEF PipelineSpec

\* Requests, runs, files and what workers remember of them stay well typed
\* (matches.go, executor.go).
THEOREM PipelineTyped == PipelineSpec => []PipelineTypeOK
<1>1. PipelineInv => PipelineTypeOK
  BY DEF PipelineInv
<1> QED
  BY <1>1, PipelineInvariant, PTL

\* No replay is published without its commit (executor.go, CommitMatchResult
\* before PublishReplay, whatever fails or stops in between).
THEOREM ReplaysAreCommitted == PipelineSpec => []PublishedCommitted
<1>1. PipelineInv => PublishedCommitted
  BY DEF PipelineInv
<1> QED
  BY <1>1, PipelineInvariant, PTL

\* A result keeps its replay whatever lapses, fails or stops, unless the reply
\* to its own commit was lost (executor.go, DiscardReplay on the error paths).
THEOREM ResultsKeepReplays == PipelineSpec => []ResultsHaveReplay
<1>1. PipelineInv => ResultsHaveReplay
  BY DEF PipelineInv
<1> QED
  BY <1>1, PipelineInvariant, PTL

\* The unfenced writes of stale workers never make a match name a run and a
\* replay that were not committed together (matches.go, UpdateMatch).
THEOREM MatchesNameCommits == PipelineSpec => []MatchNamesOneCommit
<1>1. PipelineInv => MatchNamesOneCommit
  BY DEF PipelineInv
<1> QED
  BY <1>1, PipelineInvariant, PTL

\* A match is never finished without a result (match_runs.go CommitMatchResult,
\* matches.go UpdateMatch and UpdateMatchStatusCAS).
THEOREM FinishedMatchesHaveResults == PipelineSpec => []FinishedHasResult
<1>1. PipelineInv => FinishedHasResult
  BY DEF PipelineInv
<1> QED
  BY <1>1, PipelineInvariant, PTL

\* Requests that count the same runs do not enqueue a run that does not exist
\* (matches.go, CreateMatchRun before Enqueue).
THEOREM EnqueuedRunsExist == PipelineSpec => []JobsHaveRuns
<1>1. PipelineInv => JobsHaveRuns
  BY DEF PipelineInv
<1> QED
  BY <1>1, PipelineInvariant, PTL

\* No two requests enqueue the same run, and none enqueues it again, whichever
\* statuses they read and runs they counted (matches.go, RunMatch;
\* match_runs.go, CreateMatchRun).
THEOREM RunsAreEnqueuedOnce == PipelineSpec => []RunsEnqueuedOnce
<1>1. PipelineInv => RunsEnqueuedOnce
  BY DEF PipelineInv
<1> QED
  BY <1>1, PipelineInvariant, PTL

\* With one request for each match, a finished match keeps its status, run and
\* replay until a lease lapses, a process stops, a call is lost or a statement
\* fails, however many workers there are (executor.go, UpdateMatch under no
\* fencing; matches.go, UpdateMatchStatusCAS).
THEOREM CalmMatchesStayFinished ==
    ASSUME OneRequestEach
    PROVE  PipelineSpec => CalmFinishedIsFinal
<1>1. PipelineInit => CalmInv
  BY InitCalmInv
<1>2. CalmInv /\ [PipelineNext]_pipelineVars => CalmInv'
  BY StepPipelineInv, StepAccepted, StepCalmHolds, StepCalmFinished DEF CalmInv
<1>3. CalmInv /\ [PipelineNext]_pipelineVars => [CalmKeeps]_matches
  BY StepCalmKeeps
<1>4. PipelineSpec => [][CalmKeeps]_matches
  BY <1>1, <1>2, <1>3, PTL DEF PipelineSpec
<1> QED
  BY <1>4 DEF CalmFinishedIsFinal, CalmKeeps

\* Until a lease lapses, a process stops or a call is lost, a match keeps the
\* result it names and its run stays committed, however many requests start
\* further runs of it (matches.go, RunMatch; executor.go, UpdateMatch under no
\* fencing; the index idx_match_runs_committed).
THEOREM CalmResultsKept == PipelineSpec => CalmResultKept
<1> DEFINE Kept ==
        \A m \in Matches :
            Untroubled' /\ matches[m].run # 0 =>
                /\ matches'[m].run = matches[m].run
                /\ matches'[m].replay = matches[m].replay
                /\ runs'[m][matches[m].run].status = "committed"
<1>1. PipelineInit => ResultInv
  BY InitCalmInv
<1>2. ResultInv /\ [PipelineNext]_pipelineVars => ResultInv'
  BY StepPipelineInv, StepCalmHolds, StepCalmResults DEF ResultInv
<1>3. ResultInv /\ [PipelineNext]_pipelineVars => [Kept]_<<matches, runs>>
  BY ResultStays
<1>4. PipelineSpec => [][Kept]_<<matches, runs>>
  BY <1>1, <1>2, <1>3, PTL DEF PipelineSpec
<1> QED
  BY <1>4 DEF CalmResultKept

-----------------------------------------------------------------------------

(***************************************************************************)
(* Down to the abstract specification, and back                            *)
(***************************************************************************)

LEMMA QueueSpec == PipelineSpec => Spec
<1>1. PipelineInit => Init
  BY DEF PipelineInit
<1>2. PipelineInv /\ [PipelineNext]_pipelineVars => [Next]_vars
  BY QueueStep
<1> QED
  BY <1>1, <1>2, PipelineInvariant, PTL DEF PipelineSpec, Spec

\* FencedOwnershipProofs under MatchQueue's refinement mapping.
OwnershipProofs == INSTANCE FencedOwnershipProofs WITH
    Rounds <- 1..MaxRuns,
    MaxGrants <- MaxAttempts,
    used <- issued,
    round <- [m \in Matches |-> jobs[m].run],
    open <- {m \in Matches : Unresolved(m)},
    grants <- [m \in Matches |-> jobs[m].attempt],
    epoch <- [m \in Matches |-> jobs[m].token],
    verdicts <- commits

LEMMA SameOwnership ==
    /\ Ownership!Init => OwnershipProofs!Init
    /\ [Ownership!Next]_(Ownership!vars) => [OwnershipProofs!Next]_(OwnershipProofs!vars)
<1>1. Ownership!Init => OwnershipProofs!Init
  BY DEF Ownership!Init, OwnershipProofs!Init
<1>2. [Ownership!Next]_(Ownership!vars) => [OwnershipProofs!Next]_(OwnershipProofs!vars)
  BY DEF Ownership!Next, Ownership!vars, Ownership!Request, Ownership!Open,
         Ownership!Drop, Ownership!Grant, Ownership!Decide, Ownership!GiveUp,
         OwnershipProofs!Next, OwnershipProofs!vars, OwnershipProofs!Request,
         OwnershipProofs!Open, OwnershipProofs!Drop, OwnershipProofs!Grant,
         OwnershipProofs!Decide, OwnershipProofs!GiveUp
<1> QED
  BY <1>1, <1>2

\* Requests, executions with their unfenced writes, and replay files together
\* implement the abstract fenced ownership (matches.go, executor.go, queue.go).
THEOREM PipelineImplementsOwnership == PipelineSpec => ImplementsOwnership
  BY QueueSpec, ImplementsFencedOwnership

\* No fencing token commits twice, in whichever round of the match: what is
\* proved of epochs in FencedOwnership holds of the rows' tokens (match_runs.go,
\* CommitMatchResult).
THEOREM TokensCommitOnce ==
    PipelineSpec =>
        [](\A c, d \in commits : c.match = d.match /\ c.token = d.token => c = d)
<1>1. OwnershipProofs!Spec => []OwnershipProofs!OneVerdictPerEpoch
  BY OwnershipProofs!OneVerdictEach
<1>2. OwnershipProofs!OneVerdictPerEpoch =>
          \A c, d \in commits : c.match = d.match /\ c.token = d.token => c = d
  BY DEF OwnershipProofs!OneVerdictPerEpoch
<1>3. PipelineSpec => Ownership!Spec
  BY PipelineImplementsOwnership DEF ImplementsOwnership
<1> QED
  BY <1>1, <1>2, <1>3, SameOwnership, PTL DEF Ownership!Spec, OwnershipProofs!Spec
=============================================================================
