--------------------------- MODULE MatchQueueProofs ---------------------------
(***************************************************************************)
(* Proofs about MatchQueue, for any number of matches, processes, workers, *)
(* attempts and enqueues, and any budget of faults.                        *)
(*                                                                         *)
(* The safety invariants are not inductive by themselves: a worker that    *)
(* lost its lease may still be executing with an old token, and what keeps *)
(* it from committing is that its token is below the row's.  IInv adds the *)
(* three facts the argument needs: handed-out tokens are positive, never   *)
(* exceed the row's and are pairwise distinct; the executing worker that   *)
(* has the row's own token still owns the reservation; and a run that has  *)
(* a commit is closed or belongs to the past.                              *)
(***************************************************************************)
EXTENDS MatchQueue, TLAPS

-----------------------------------------------------------------------------

(***************************************************************************)
(* Rows                                                                    *)
(***************************************************************************)

\* Each statement leaves a well-formed row behind.
LEMMA RowsTyped ==
    ASSUME jobs \in [Matches -> Row], NEW m \in Matches
    PROVE  /\ \A run \in Nat : EnqueuedRow(m, run) \in Row
           /\ \A p \in Processes : ReservedRow(m, p) \in Row
           /\ RenewedRow(m) \in Row
           /\ CompletedRow(m) \in Row
           /\ RetriedRow(m) \in Row
<1>1. jobs[m] \in Row
  OBVIOUS
<1>2. ASSUME NEW run \in Nat
      PROVE  EnqueuedRow(m, run) \in Row
  BY <1>1 DEF EnqueuedRow, Row, JobStatus
<1>3. ASSUME NEW p \in Processes
      PROVE  ReservedRow(m, p) \in Row
  <2> DEFINE t == jobs[m].token + 1
             a == jobs[m].attempt + 1
  <2>1. t \in Nat /\ a \in Nat
    BY <1>1 DEF Row
  <2>2. ReservedRow(m, p) = [jobs[m] EXCEPT !.status = "reserved", !.by = p,
                                !.expired = FALSE, !.token = t, !.attempt = a]
    BY DEF ReservedRow
  <2> HIDE DEF t, a
  <2> QED
    BY <1>1, <2>1, <2>2 DEF Row, JobStatus
<1>4. RenewedRow(m) \in Row
  BY <1>1 DEF RenewedRow, Row
<1>5. CompletedRow(m) \in Row
  BY <1>1 DEF CompletedRow, Row, JobStatus
<1>6. RetriedRow(m) \in Row
  BY <1>1 DEF RetriedRow, Row, JobStatus
<1> QED
  BY <1>2, <1>3, <1>4, <1>5, <1>6

\* What each statement writes into the columns the invariant speaks of.
LEMMA RowsWritten ==
    ASSUME jobs \in [Matches -> Row], NEW m \in Matches
    PROVE  /\ \A run \in Nat :
                /\ EnqueuedRow(m, run).status = "pending"
                /\ EnqueuedRow(m, run).run = run
                /\ EnqueuedRow(m, run).attempt = 0
                /\ EnqueuedRow(m, run).token = jobs[m].token
           /\ \A p \in Processes :
                /\ ReservedRow(m, p).status = "reserved"
                /\ ReservedRow(m, p).by = p
                /\ ReservedRow(m, p).run = jobs[m].run
                /\ ReservedRow(m, p).attempt = jobs[m].attempt + 1
                /\ ReservedRow(m, p).token = jobs[m].token + 1
           /\ RenewedRow(m) = [jobs[m] EXCEPT !.expired = FALSE]
           /\ CompletedRow(m).status = "completed"
           /\ CompletedRow(m).run = jobs[m].run
           /\ CompletedRow(m).attempt = jobs[m].attempt
           /\ CompletedRow(m).token = jobs[m].token
           /\ RetriedRow(m).status \in {"failed", "pending"}
           /\ RetriedRow(m).run = jobs[m].run
           /\ RetriedRow(m).attempt = jobs[m].attempt
           /\ RetriedRow(m).token = jobs[m].token
<1> USE DEF Row, JobStatus
<1> DEFINE r == jobs[m]
<1>1. r \in Row
  OBVIOUS
<1>2. ASSUME NEW run \in Nat
      PROVE  /\ EnqueuedRow(m, run).status = "pending"
             /\ EnqueuedRow(m, run).run = run
             /\ EnqueuedRow(m, run).attempt = 0
             /\ EnqueuedRow(m, run).token = jobs[m].token
  BY <1>1 DEF EnqueuedRow
<1>3. ASSUME NEW p \in Processes
      PROVE  /\ ReservedRow(m, p).status = "reserved"
             /\ ReservedRow(m, p).by = p
             /\ ReservedRow(m, p).run = jobs[m].run
             /\ ReservedRow(m, p).attempt = jobs[m].attempt + 1
             /\ ReservedRow(m, p).token = jobs[m].token + 1
  BY <1>1 DEF ReservedRow
<1>4. /\ CompletedRow(m).status = "completed"
      /\ CompletedRow(m).run = jobs[m].run
      /\ CompletedRow(m).attempt = jobs[m].attempt
      /\ CompletedRow(m).token = jobs[m].token
  BY <1>1 DEF CompletedRow
<1>5. /\ RetriedRow(m).status \in {"failed", "pending"}
      /\ RetriedRow(m).run = jobs[m].run
      /\ RetriedRow(m).attempt = jobs[m].attempt
      /\ RetriedRow(m).token = jobs[m].token
  BY <1>1 DEF RetriedRow
<1>6. RenewedRow(m) = [jobs[m] EXCEPT !.expired = FALSE]
  BY DEF RenewedRow
<1> QED
  BY <1>2, <1>3, <1>4, <1>5, <1>6

-----------------------------------------------------------------------------

(***************************************************************************)
(* Type correctness                                                        *)
(***************************************************************************)

LEMMA InitTypeOK == Init => TypeOK
  BY MaxAttemptsAssumption
     DEF Init, InitJobs, TypeOK, AbsentRow, Row, JobStatus, Phases

LEMMA GoIdleTypeOK ==
    ASSUME TypeOK, NEW w \in Workers, GoIdle(w)
    PROVE  /\ phase' \in [Workers -> Phases]
           /\ handle' \in [Workers -> Handle \union {NoHandle}]
           /\ alive' \in [Workers -> BOOLEAN]
           /\ \A v \in Workers : phase'[v] # "idle" => handle'[v] \in Handle
  BY DEF TypeOK, GoIdle, Phases

LEMMA CrashTypeOK ==
    ASSUME TypeOK, NEW p \in Processes, Crash(p)
    PROVE  TypeOK'
<1>1. phase' \in [Workers -> Phases]
  BY DEF TypeOK, Crash, Phases
<1>2. handle' \in [Workers -> Handle \union {NoHandle}]
  BY DEF TypeOK, Crash
<1>3. alive' \in [Workers -> BOOLEAN]
  BY DEF TypeOK, Crash
<1>4. \A v \in Workers : phase'[v] # "idle" => handle'[v] \in Handle
  BY DEF TypeOK, Crash
<1>5. faults' \in Nat
  BY DEF TypeOK, Crash, Fault
<1> QED
  BY <1>1, <1>2, <1>3, <1>4, <1>5 DEF TypeOK, Crash

LEMMA StepTypeOK == TypeOK /\ [Next]_vars => TypeOK'
<1> SUFFICES ASSUME TypeOK, [Next]_vars
             PROVE  TypeOK'
  OBVIOUS
<1>a. jobs \in [Matches -> Row] /\ faults \in Nat /\ faults + 1 \in Nat
  BY DEF TypeOK
<1>b. \A w \in Workers : phase[w] # "idle" => handle[w].match \in Matches
  BY DEF TypeOK, Handle
<1>1. ASSUME NEW m \in Matches, NEW run \in 1..MaxRuns, Enqueue(m, run)
      PROVE  TypeOK'
  <2>1. run \in Nat
    BY BoundAssumption
  <2>2. jobs' \in [Matches -> Row]
    BY <1>1, <1>a, <2>1, RowsTyped DEF Enqueue, EnqueueJob
  <2> QED
    BY <1>1, <2>1, <2>2 DEF TypeOK, Enqueue
<1>2. ASSUME NEW m \in Matches, LeaseExpires(m)
      PROVE  TypeOK'
  <2>1. jobs' \in [Matches -> Row]
    BY <1>2, <1>a DEF LeaseExpires, LeaseRunsOut, Row
  <2> QED
    BY <1>2, <2>1 DEF TypeOK, LeaseExpires
<1>3. ASSUME NEW m \in Matches, BackoffElapses(m)
      PROVE  TypeOK'
  <2>1. jobs' \in [Matches -> Row]
    BY <1>3, <1>a DEF BackoffElapses, BackoffEnds, Row
  <2> QED
    BY <1>3, <2>1 DEF TypeOK, BackoffElapses
<1>4. ASSUME NEW w \in Workers, NEW m \in Matches, Dequeue(w, m)
      PROVE  TypeOK'
  <2>1. Host[w] \in Processes
    BY HostAssumption
  <2>2. jobs' \in [Matches -> Row]
    BY <1>4, <1>a, <2>1, RowsTyped DEF Dequeue, ReserveJob
  <2>3. [match |-> m, run |-> jobs[m].run, token |-> jobs[m].token + 1]
            \in Handle
    BY <1>a DEF Row, Handle
  <2> QED
    BY <1>4, <2>2, <2>3 DEF TypeOK, Dequeue, Phases
<1>5. ASSUME NEW w \in Workers, Heartbeat(w)
      PROVE  TypeOK'
  <2>1. handle[w].match \in Matches
    BY <1>5, <1>b DEF Heartbeat, Busy
  <2>2. jobs' \in [Matches -> Row]
    BY <1>5, <1>a, <2>1, RowsTyped DEF Heartbeat, RenewJob
  <2> QED
    BY <1>5, <2>2 DEF TypeOK, Heartbeat
<1>6. ASSUME NEW w \in Workers, HeartbeatLost(w)
      PROVE  TypeOK'
  BY <1>6, <1>a DEF TypeOK, HeartbeatLost, Fault
<1>c. ASSUME NEW w \in Workers, CommitRow(w)
      PROVE  jobs' \in [Matches -> Row] /\ commits' \subseteq Handle
  <2>1. handle[w] \in Handle /\ handle[w].match \in Matches
    BY <1>c, <1>b DEF CommitRow, TypeOK
  <2> QED
    BY <1>c, <1>a, <2>1, RowsTyped DEF CommitRow, CompleteJob, TypeOK
<1>7. ASSUME NEW w \in Workers, Commit(w)
      PROVE  TypeOK'
  <2>1. CommitRow(w) /\ phase[w] # "idle"
    BY <1>7 DEF Commit, CommitRow
  <2> QED
    BY <1>7, <1>c, <2>1 DEF TypeOK, Commit, Phases
<1>8. ASSUME NEW w \in Workers, CommitReplyLost(w)
      PROVE  TypeOK'
  <2>1. CommitRow(w) /\ phase[w] # "idle"
    BY <1>8 DEF CommitReplyLost, CommitRow
  <2> QED
    BY <1>8, <1>c, <1>a, <2>1 DEF TypeOK, CommitReplyLost, Fault, Phases
<1>9. ASSUME NEW w \in Workers, ExecuteFails(w)
      PROVE  TypeOK'
  BY <1>9 DEF TypeOK, ExecuteFails, Phases
<1>10. ASSUME NEW w \in Workers, Complete(w)
       PROVE  TypeOK'
  <2>1. handle[w].match \in Matches
    BY <1>10, <1>b DEF Complete
  <2>2. jobs' \in [Matches -> Row]
    BY <1>10, <1>a, <2>1, RowsTyped DEF Complete, CompleteJob
  <2> QED
    BY <1>10, <2>2, GoIdleTypeOK DEF TypeOK, Complete
<1>11. ASSUME NEW w \in Workers, Retry(w)
       PROVE  TypeOK'
  <2>1. handle[w].match \in Matches
    BY <1>11, <1>b DEF Retry
  <2>2. jobs' \in [Matches -> Row]
    BY <1>11, <1>a, <2>1, RowsTyped DEF Retry, RetryJob
  <2> QED
    BY <1>11, <2>2, GoIdleTypeOK DEF TypeOK, Retry
<1>12. ASSUME NEW w \in Workers, RetryLost(w)
       PROVE  TypeOK'
  BY <1>12, <1>a, GoIdleTypeOK DEF TypeOK, RetryLost, Fault
<1>13. ASSUME NEW p \in Processes, Crash(p)
       PROVE  TypeOK'
  BY <1>13, CrashTypeOK
<1>14. ASSUME NEW p \in Processes, NEW m \in Matches, DequeueReplyLost(p, m)
       PROVE  TypeOK'
  <2>1. jobs' \in [Matches -> Row]
    BY <1>14, <1>a, RowsTyped DEF DequeueReplyLost, ReserveJob
  <2> QED
    BY <1>14, <1>a, <2>1 DEF TypeOK, DequeueReplyLost, Fault
<1>15. CASE UNCHANGED vars
  BY <1>15 DEF TypeOK, vars
<1> QED
  BY <1>1, <1>2, <1>3, <1>4, <1>5, <1>6, <1>7, <1>8, <1>9, <1>10, <1>11,
     <1>12, <1>13, <1>14, <1>15 DEF Next, WorkerStep

\* Rows, handles and counters keep their shape in every reachable state.
THEOREM TypeCorrect == Spec => []TypeOK
<1>1. Init => TypeOK
  BY InitTypeOK
<1>2. TypeOK /\ [Next]_vars => TypeOK'
  BY StepTypeOK
<1> QED
  BY <1>1, <1>2, PTL DEF Spec

-----------------------------------------------------------------------------

(***************************************************************************)
(* The inductive invariant                                                 *)
(***************************************************************************)

LEMMA InitIInv == Init => IInv
<1> SUFFICES ASSUME Init
             PROVE  IInv
  OBVIOUS
<1>1. TypeOK
  BY InitTypeOK
<1>2. \A w \in Workers : phase[w] = "idle"
  BY DEF Init
<1>3. commits = {}
  BY DEF Init
<1>4. RowsBounded
  <2>1. \A m \in Matches :
            /\ jobs[m].attempt = 0
            /\ jobs[m].status = "absent"
    BY DEF Init, InitJobs, AbsentRow
  <2>2. 0 <= MaxAttempts
    BY MaxAttemptsAssumption
  <2>3. ASSUME NEW m \in Matches
        PROVE  /\ jobs[m].status = "absent"
               /\ jobs[m].attempt <= MaxAttempts
    BY <2>1, <2>2
  <2> QED
    BY <2>3 DEF RowsBounded
<1> QED
  BY <1>1, <1>2, <1>3, <1>4
     DEF IInv, Busy, TokensHandedOut, TokensDistinct, LatestOwnsRow,
         CommittedRunClosed, OneCommitPerRun, SucceededCommitted

\* A step that rewrites no column the invariant speaks of, commits nothing,
\* and at most sends workers to "errored" or back to idle preserves it.
LEMMA QuietStep ==
    ASSUME IInv, TypeOK',
           \A m \in Matches :
               /\ jobs'[m].status = jobs[m].status
               /\ jobs'[m].run = jobs[m].run
               /\ jobs'[m].attempt = jobs[m].attempt
               /\ jobs'[m].token = jobs[m].token
               /\ jobs'[m].by = jobs[m].by,
           \A w \in Workers : phase'[w] # "idle" =>
               /\ handle'[w] = handle[w]
               /\ phase[w] # "idle"
               /\ phase'[w] \in {phase[w], "errored"},
           commits' = commits,
           issued' = issued
    PROVE  IInv'
<1>1. \A w \in Workers : phase'[w] # "idle" => handle[w].match \in Matches
  BY DEF IInv, TypeOK, Handle
<1>2. \A c \in commits : c.match \in Matches
  BY DEF IInv, TypeOK, Handle
<1>3. TokensHandedOut'
  BY <1>1 DEF IInv, TokensHandedOut, Busy
<1>4. TokensDistinct'
  BY DEF IInv, TokensDistinct, Busy
<1>5. LatestOwnsRow'
  BY <1>1 DEF IInv, LatestOwnsRow, HoldsJob, Holds
<1>6. CommittedRunClosed'
  <2> SUFFICES ASSUME NEW c \in commits
               PROVE  /\ c.run \in issued[c.match]
                      /\ c.run = jobs'[c.match].run
                         => jobs'[c.match].status = "completed"
    BY DEF CommittedRunClosed
  <2> QED
    BY <1>2 DEF IInv, CommittedRunClosed
<1>7. OneCommitPerRun'
  BY DEF IInv, OneCommitPerRun
<1>8. SucceededCommitted'
  BY DEF IInv, SucceededCommitted
<1>9. RowsBounded'
  BY DEF IInv, RowsBounded
<1> QED
  BY <1>3, <1>4, <1>5, <1>6, <1>7, <1>8, <1>9 DEF IInv

LEMMA EnqueueIInv ==
    ASSUME IInv, TypeOK', NEW m \in Matches, NEW n \in 1..MaxRuns,
           Enqueue(m, n)
    PROVE  IInv'
<1>a. /\ n \notin issued[m]
      /\ issued'[m] = issued[m] \union {n}
      /\ \A k \in Matches : k # m => issued'[k] = issued[k]
      /\ UNCHANGED <<phase, handle, commits>>
  BY DEF Enqueue, IInv, TypeOK
<1>b. \A w \in Workers : phase[w] # "idle" => handle[w].match \in Matches
  BY DEF IInv, TypeOK, Handle
<1>c. \A c \in commits : c.match \in Matches
  BY DEF IInv, TypeOK, Handle
<1>1. CASE ~Enqueueable(m)
  <2>1. jobs' = jobs
    BY <1>1 DEF Enqueue, EnqueueJob
  <2>2. TokensHandedOut' /\ TokensDistinct'
    BY <2>1, <1>a DEF IInv, TokensHandedOut, TokensDistinct, Busy
  <2>3. LatestOwnsRow'
    BY <2>1, <1>a DEF IInv, LatestOwnsRow, HoldsJob, Holds
  <2>4. CommittedRunClosed' /\ OneCommitPerRun' /\ SucceededCommitted'
    BY <2>1, <1>a, <1>c DEF IInv, CommittedRunClosed, OneCommitPerRun,
       SucceededCommitted
  <2>5. RowsBounded'
    BY <2>1, <1>a DEF IInv, RowsBounded
  <2> QED
    BY <2>2, <2>3, <2>4, <2>5 DEF IInv
<1>2. CASE Enqueueable(m)
  <2>a. n \in Nat
    BY BoundAssumption
  <2>b. /\ jobs \in [Matches -> Row]
        /\ jobs' = [jobs EXCEPT ![m] = EnqueuedRow(m, n)]
    BY <1>2 DEF Enqueue, EnqueueJob, IInv, TypeOK
  <2>c. /\ jobs'[m].status = "pending"
        /\ jobs'[m].run = n
        /\ jobs'[m].attempt = 0
        /\ jobs'[m].token = jobs[m].token
        /\ \A k \in Matches : k # m => jobs'[k] = jobs[k]
    BY <2>a, <2>b, RowsWritten
  <2>1. TokensHandedOut'
    <3> SUFFICES ASSUME NEW w \in Workers, phase[w] # "idle"
                 PROVE  /\ handle[w].token > 0
                        /\ handle[w].token <= jobs'[handle[w].match].token
      BY <1>a DEF TokensHandedOut, Busy
    <3> QED
      BY <2>c, <1>b DEF IInv, TokensHandedOut, Busy
  <2>2. TokensDistinct'
    BY <1>a DEF IInv, TokensDistinct, Busy
  <2>3. LatestOwnsRow'
    <3> SUFFICES ASSUME NEW w \in Workers, phase[w] = "executing",
                        handle[w].token = jobs'[handle[w].match].token
                 PROVE  HoldsJob(w)'
      BY <1>a DEF LatestOwnsRow
    <3>1. HoldsJob(w)
      BY <2>c, <1>b DEF IInv, LatestOwnsRow
    <3>2. handle[w].match # m
      BY <1>2, <3>1 DEF HoldsJob, Holds, Enqueueable
    <3> QED
      BY <1>a, <2>c, <1>b, <3>1, <3>2 DEF HoldsJob, Holds
  <2>4. CommittedRunClosed'
    <3> SUFFICES ASSUME NEW c \in commits
                 PROVE  /\ c.run \in issued'[c.match]
                        /\ c.run = jobs'[c.match].run
                           => jobs'[c.match].status = "completed"
      BY <1>a DEF CommittedRunClosed
    <3>1. /\ c.run \in issued[c.match]
          /\ c.run = jobs[c.match].run => jobs[c.match].status = "completed"
      BY DEF IInv, CommittedRunClosed
    <3>2. CASE c.match = m
      BY <1>a, <2>c, <3>1, <3>2
    <3>3. CASE c.match # m
      BY <1>a, <1>c, <2>c, <3>1, <3>3
    <3> QED
      BY <3>2, <3>3
  <2>5. OneCommitPerRun' /\ SucceededCommitted'
    BY <1>a DEF IInv, OneCommitPerRun, SucceededCommitted
  <2>6. RowsBounded'
    <3>1. 0 <= MaxAttempts
      BY MaxAttemptsAssumption
    <3> QED
      BY <1>a, <2>c, <3>1 DEF IInv, RowsBounded
  <2> QED
    BY <2>1, <2>2, <2>3, <2>4, <2>5, <2>6 DEF IInv
<1> QED
  BY <1>1, <1>2

\* A reservation, whether or not its reply arrives: the row's token grows past
\* every token handed out, and the row had no commit for its run.
LEMMA ReserveRow ==
    ASSUME IInv, NEW m \in Matches, NEW p \in Processes, ReserveJob(m, p)
    PROVE  /\ jobs'[m].status = "reserved"
           /\ jobs'[m].by = p
           /\ jobs'[m].run = jobs[m].run
           /\ jobs'[m].attempt = jobs[m].attempt + 1
           /\ jobs'[m].token = jobs[m].token + 1
           /\ \A k \in Matches : k # m => jobs'[k] = jobs[k]
           /\ jobs[m].status \in {"pending", "reserved"}
           /\ jobs[m].attempt < MaxAttempts
           /\ jobs[m].attempt \in Nat /\ jobs[m].token \in Nat
<1>1. jobs \in [Matches -> Row]
  BY DEF IInv, TypeOK
<1>2. jobs' = [jobs EXCEPT ![m] = ReservedRow(m, p)]
  BY DEF ReserveJob
<1>3. jobs'[m] = ReservedRow(m, p)
  BY <1>1, <1>2
<1>4. \A k \in Matches : k # m => jobs'[k] = jobs[k]
  BY <1>1, <1>2
<1>5. jobs[m].attempt \in Nat /\ jobs[m].token \in Nat
  BY <1>1 DEF Row
<1> QED
  BY <1>1, <1>3, <1>4, <1>5, RowsWritten DEF ReserveJob, Reservable

\* After a reservation, what the invariant says of the workers that held
\* handles before and of the commits.
LEMMA ReserveIInv ==
    ASSUME IInv, NEW m \in Matches, NEW p \in Processes, ReserveJob(m, p)
    PROVE  /\ \A w \in Workers : Busy(w) =>
                /\ handle[w].token > 0
                /\ handle[w].token <= jobs'[handle[w].match].token
                /\ handle[w].match = m => handle[w].token < jobs'[m].token
           /\ \A w \in Workers :
                /\ phase[w] = "executing"
                /\ handle[w].token = jobs'[handle[w].match].token
                => /\ HoldsJob(w)
                   /\ jobs'[handle[w].match] = jobs[handle[w].match]
           /\ \A c \in commits :
                /\ c.run \in issued[c.match]
                /\ c.run = jobs'[c.match].run
                   => jobs'[c.match].status = "completed"
           /\ \A k \in Matches :
                /\ jobs'[k].status # "absent" => jobs'[k].run \in issued[k]
                /\ jobs'[k].attempt <= MaxAttempts
                /\ jobs'[k].status = "reserved" => jobs'[k].attempt > 0
<1>1. /\ jobs'[m].status = "reserved"
      /\ jobs'[m].run = jobs[m].run
      /\ jobs'[m].attempt = jobs[m].attempt + 1
      /\ jobs'[m].token = jobs[m].token + 1
      /\ \A k \in Matches : k # m => jobs'[k] = jobs[k]
      /\ jobs[m].status \in {"pending", "reserved"}
      /\ jobs[m].attempt < MaxAttempts
      /\ jobs[m].attempt \in Nat /\ jobs[m].token \in Nat
  BY ReserveRow
<1>2. MaxAttempts \in Nat
  BY MaxAttemptsAssumption
<1>3. ASSUME NEW w \in Workers, Busy(w)
      PROVE  /\ handle[w].token > 0
             /\ handle[w].token <= jobs'[handle[w].match].token
             /\ handle[w].match = m => handle[w].token < jobs'[m].token
  <2>1. handle[w].match \in Matches /\ handle[w].token \in Nat
    BY <1>3 DEF IInv, TypeOK, Busy, Handle
  <2>2. /\ handle[w].token > 0
        /\ handle[w].token <= jobs[handle[w].match].token
    BY <1>3 DEF IInv, TokensHandedOut
  <2> QED
    BY <1>1, <2>1, <2>2
<1>4. ASSUME NEW w \in Workers, phase[w] = "executing",
             handle[w].token = jobs'[handle[w].match].token
      PROVE  HoldsJob(w) /\ jobs'[handle[w].match] = jobs[handle[w].match]
  <2>1. handle[w].match \in Matches /\ handle[w].token \in Nat
    BY <1>4 DEF IInv, TypeOK, Handle
  <2>2. handle[w].match # m
    <3>1. Busy(w)
      BY <1>4 DEF Busy
    <3>2. handle[w].match = m => handle[w].token < jobs'[m].token
      BY <1>3, <3>1
    <3> QED
      BY <1>4, <2>1, <3>2
  <2>3. jobs'[handle[w].match] = jobs[handle[w].match]
    BY <1>1, <2>1, <2>2
  <2>4. HoldsJob(w)
    BY <1>4, <2>3 DEF IInv, LatestOwnsRow
  <2> QED
    BY <2>3, <2>4
<1>5. ASSUME NEW c \in commits
      PROVE  /\ c.run \in issued[c.match]
             /\ c.run = jobs'[c.match].run
                => jobs'[c.match].status = "completed"
  <2>1. c.match \in Matches
    BY DEF IInv, TypeOK, Handle
  <2>2. /\ c.run \in issued[c.match]
        /\ c.run = jobs[c.match].run => jobs[c.match].status = "completed"
    BY DEF IInv, CommittedRunClosed
  <2> QED
    BY <1>1, <2>1, <2>2
<1>6. ASSUME NEW k \in Matches
      PROVE  /\ jobs'[k].status # "absent" => jobs'[k].run \in issued[k]
             /\ jobs'[k].attempt <= MaxAttempts
             /\ jobs'[k].status = "reserved" => jobs'[k].attempt > 0
  <2>1. /\ jobs[k].status # "absent" => jobs[k].run \in issued[k]
        /\ jobs[k].attempt <= MaxAttempts
        /\ jobs[k].status = "reserved" => jobs[k].attempt > 0
    BY DEF IInv, RowsBounded
  <2> QED
    BY <1>1, <1>2, <2>1
<1> QED
  BY <1>3, <1>4, <1>5, <1>6

LEMMA DequeueIInv ==
    ASSUME IInv, TypeOK', NEW w \in Workers, NEW m \in Matches, Dequeue(w, m)
    PROVE  IInv'
<1>1. Host[w] \in Processes
  BY HostAssumption
<1>2. ReserveJob(m, Host[w]) /\ UNCHANGED <<issued, commits>>
  BY DEF Dequeue
<1>3. /\ phase[w] = "idle"
      /\ phase'[w] = "executing"
      /\ handle'[w].match = m
      /\ handle'[w].run = jobs[m].run
      /\ handle'[w].token = jobs[m].token + 1
      /\ \A v \in Workers : v # w =>
            phase'[v] = phase[v] /\ handle'[v] = handle[v]
  BY DEF Dequeue, IInv, TypeOK
<1>4. /\ jobs'[m].status = "reserved"
      /\ jobs'[m].by = Host[w]
      /\ jobs'[m].run = jobs[m].run
      /\ jobs'[m].token = jobs[m].token + 1
      /\ jobs[m].token \in Nat
  BY <1>1, <1>2, ReserveRow
<1>5. TokensHandedOut'
  <2> SUFFICES ASSUME NEW v \in Workers, phase'[v] # "idle"
               PROVE  /\ handle'[v].token > 0
                      /\ handle'[v].token <= jobs'[handle'[v].match].token
    BY DEF TokensHandedOut, Busy
  <2>1. CASE v = w
    BY <1>3, <1>4, <2>1
  <2>2. CASE v # w
    <3>1. Busy(v) /\ handle'[v] = handle[v]
      BY <1>3, <2>2 DEF Busy
    <3> QED
      BY <1>1, <1>2, <3>1, ReserveIInv
  <2> QED
    BY <2>1, <2>2
<1>6. TokensDistinct'
  <2>1. ASSUME NEW v \in Workers, v # w, phase'[v] # "idle",
               handle'[v].match = m
        PROVE  handle'[v].token # handle'[w].token
    <3>1. handle[v].token < jobs'[m].token
      BY <1>1, <1>2, <1>3, <2>1, ReserveIInv DEF Busy
    <3>2. handle[v].token \in Nat
      BY <1>3, <2>1 DEF IInv, TypeOK, Handle
    <3> QED
      BY <1>3, <1>4, <2>1, <3>1, <3>2
  <2> SUFFICES ASSUME NEW u \in Workers, NEW v \in Workers,
                      phase'[u] # "idle", phase'[v] # "idle",
                      handle'[u].match = handle'[v].match,
                      handle'[u].token = handle'[v].token
               PROVE  u = v
    BY DEF TokensDistinct, Busy
  <2>2. CASE u = w \/ v = w
    BY <1>3, <2>1, <2>2
  <2>3. CASE u # w /\ v # w
    BY <1>3, <2>3 DEF IInv, TokensDistinct, Busy
  <2> QED
    BY <2>2, <2>3
<1>7. LatestOwnsRow'
  <2> SUFFICES ASSUME NEW v \in Workers, phase'[v] = "executing",
                      handle'[v].token = jobs'[handle'[v].match].token
               PROVE  HoldsJob(v)'
    BY DEF LatestOwnsRow
  <2>1. CASE v = w
    BY <1>3, <1>4, <2>1 DEF HoldsJob, Holds
  <2>2. CASE v # w
    BY <1>1, <1>2, <1>3, <2>2, ReserveIInv DEF HoldsJob, Holds
  <2> QED
    BY <2>1, <2>2
<1>8. CommittedRunClosed'
  BY <1>1, <1>2, ReserveIInv DEF CommittedRunClosed
<1>9. OneCommitPerRun'
  BY <1>2 DEF IInv, OneCommitPerRun
<1>10. SucceededCommitted'
  BY <1>2, <1>3 DEF IInv, SucceededCommitted
<1>11. RowsBounded'
  BY <1>1, <1>2, ReserveIInv DEF RowsBounded
<1> QED
  BY <1>5, <1>6, <1>7, <1>8, <1>9, <1>10, <1>11 DEF IInv

LEMMA DequeueReplyLostIInv ==
    ASSUME IInv, TypeOK', NEW p \in Processes, NEW m \in Matches,
           DequeueReplyLost(p, m)
    PROVE  IInv'
<1>1. ReserveJob(m, p) /\ UNCHANGED <<phase, handle, issued, commits>>
  BY DEF DequeueReplyLost
<1>2. TokensHandedOut' /\ TokensDistinct'
  BY <1>1, ReserveIInv DEF IInv, TokensHandedOut, TokensDistinct, Busy
<1>3. LatestOwnsRow'
  BY <1>1, ReserveIInv DEF LatestOwnsRow, HoldsJob, Holds
<1>4. CommittedRunClosed' /\ RowsBounded'
  BY <1>1, ReserveIInv DEF CommittedRunClosed, RowsBounded
<1>5. OneCommitPerRun' /\ SucceededCommitted'
  BY <1>1 DEF IInv, OneCommitPerRun, SucceededCommitted
<1> QED
  BY <1>2, <1>3, <1>4, <1>5 DEF IInv

\* The worker whose commit is accepted holds the row.
LEMMA CommitterHolds ==
    ASSUME IInv, NEW w \in Workers, CanCommit(w)
    PROVE  /\ HoldsJob(w)
           /\ handle[w] \in Handle
           /\ handle[w].token = jobs[handle[w].match].token
<1>1. handle[w] \in Handle /\ phase[w] = "executing"
  BY DEF IInv, TypeOK, CanCommit
<1>2. handle[w].token > 0
  BY <1>1 DEF IInv, TokensHandedOut, Busy
<1>3. handle[w].token = jobs[handle[w].match].token
  BY <1>2 DEF CanCommit, CommitAccepted
<1> QED
  BY <1>1, <1>3 DEF IInv, LatestOwnsRow

\* A commit, whether or not its reply arrives.
LEMMA CommitIInv ==
    ASSUME IInv, TypeOK', NEW w \in Workers, CommitRow(w),
           phase'[w] \in {"succeeded", "errored"},
           \A v \in Workers : v # w => phase'[v] = phase[v],
           UNCHANGED <<handle, issued>>
    PROVE  IInv'
<1> DEFINE m == handle[w].match
<1>1. /\ HoldsJob(w)
      /\ handle[w] \in Handle
      /\ m \in Matches
      /\ handle[w].token = jobs[m].token
  BY CommitterHolds DEF CommitRow, CanCommit, Handle
<1>2. /\ jobs[m].status = "reserved"
      /\ jobs[m].run = handle[w].run
      /\ jobs[m].run \in issued[m]
  BY <1>1 DEF HoldsJob, Holds, IInv, RowsBounded
<1>3. /\ jobs'[m].status = "completed"
      /\ jobs'[m].run = jobs[m].run
      /\ jobs'[m].attempt = jobs[m].attempt
      /\ jobs'[m].token = jobs[m].token
      /\ \A k \in Matches : k # m => jobs'[k] = jobs[k]
  <2>1. jobs \in [Matches -> Row] /\ jobs' = [jobs EXCEPT ![m] = CompletedRow(m)]
    BY DEF IInv, TypeOK, CommitRow, CompleteJob
  <2> QED
    BY <1>1, <2>1, RowsWritten
<1>4. \A v \in Workers : phase'[v] # "idle" =>
          handle[v].match \in Matches /\ phase[v] # "idle"
  BY DEF IInv, TypeOK, Handle, CommitRow
<1>5. commits' = commits \union {handle[w]}
  BY DEF CommitRow
<1> HIDE DEF m
<1>6. TokensHandedOut'
  <2> SUFFICES ASSUME NEW v \in Workers, phase'[v] # "idle"
               PROVE  /\ handle[v].token > 0
                      /\ handle[v].token <= jobs'[handle[v].match].token
    BY DEF TokensHandedOut, Busy
  <2> QED
    BY <1>3, <1>4 DEF IInv, TokensHandedOut, Busy
<1>7. TokensDistinct'
  BY <1>4 DEF IInv, TokensDistinct, Busy
<1>8. LatestOwnsRow'
  <2> SUFFICES ASSUME NEW v \in Workers, phase'[v] = "executing",
                      handle[v].token = jobs'[handle[v].match].token
               PROVE  HoldsJob(v)'
    BY DEF LatestOwnsRow
  <2>1. v # w /\ phase[v] = "executing"
    OBVIOUS
  <2>2. handle[v].match # m
    <3>1. SUFFICES ASSUME handle[v].match = m
                   PROVE  v = w
      BY <2>1
    <3>2. handle[v].token = handle[w].token
      BY <1>1, <1>3, <3>1
    <3> QED
      BY <2>1, <3>1, <3>2 DEF IInv, TokensDistinct, Busy, CommitRow, m
  <2>3. jobs'[handle[v].match] = jobs[handle[v].match]
    BY <1>3, <1>4, <2>2
  <2>4. HoldsJob(v)
    BY <2>1, <2>3 DEF IInv, LatestOwnsRow
  <2> QED
    BY <2>3, <2>4 DEF HoldsJob, Holds
<1>9. \A d \in commits :
          /\ d.match \in Matches
          /\ d.run \in issued[d.match]
          /\ d.run = jobs[d.match].run => jobs[d.match].status = "completed"
  BY DEF IInv, TypeOK, Handle, CommittedRunClosed
<1>10. CommittedRunClosed'
  <2> SUFFICES ASSUME NEW d \in commits'
               PROVE  /\ d.run \in issued[d.match]
                      /\ d.run = jobs'[d.match].run
                         => jobs'[d.match].status = "completed"
    BY DEF CommittedRunClosed
  <2>1. CASE d = handle[w]
    <3>1. d.match = m /\ d.run = jobs'[m].run /\ d.run \in issued[m]
      BY <1>1, <1>2, <1>3, <2>1 DEF m, Handle
    <3> QED
      BY <1>3, <3>1
  <2>2. CASE d \in commits
    BY <1>3, <1>9, <2>2
  <2> QED
    BY <1>5, <2>1, <2>2
<1>11. OneCommitPerRun'
  <2>1. ASSUME NEW d \in commits, d.match = m, d.run = handle[w].run
        PROVE  FALSE
    BY <1>2, <1>9, <2>1
  <2> QED
    BY <1>5, <2>1 DEF IInv, OneCommitPerRun, m
<1>12. SucceededCommitted'
  BY <1>5 DEF IInv, SucceededCommitted
<1>13. RowsBounded'
  BY <1>1, <1>2, <1>3 DEF IInv, RowsBounded
<1> QED
  BY <1>6, <1>7, <1>8, <1>10, <1>11, <1>12, <1>13 DEF IInv

\* A worker that succeeded no longer holds a row: its run is closed.
LEMMA SucceededReleased ==
    ASSUME IInv, NEW w \in Workers, phase[w] = "succeeded"
    PROVE  ~HoldsJob(w)
  BY DEF IInv, SucceededCommitted, CommittedRunClosed, HoldsJob, Holds

LEMMA RetryIInv ==
    ASSUME IInv, TypeOK', NEW w \in Workers, Retry(w), HoldsJob(w)
    PROVE  IInv'
<1> DEFINE m == handle[w].match
<1>1. /\ handle[w] \in Handle
      /\ m \in Matches
      /\ phase[w] = "errored"
  BY DEF Retry, IInv, TypeOK, Handle
<1>2. /\ jobs[m].status = "reserved"
      /\ jobs[m].run = handle[w].run
      /\ jobs[m].token = handle[w].token
  BY <1>1 DEF HoldsJob, Holds, IInv, TokensHandedOut, Busy
<1>3. /\ jobs'[m].status \in {"failed", "pending"}
      /\ jobs'[m].run = jobs[m].run
      /\ jobs'[m].attempt = jobs[m].attempt
      /\ jobs'[m].token = jobs[m].token
      /\ \A k \in Matches : k # m => jobs'[k] = jobs[k]
  <2>1. jobs \in [Matches -> Row] /\ jobs' = [jobs EXCEPT ![m] = RetriedRow(m)]
    BY DEF IInv, TypeOK, Retry, RetryJob
  <2> QED
    BY <1>1, <2>1, RowsWritten
<1>4. /\ phase'[w] = "idle"
      /\ \A v \in Workers : v # w =>
            phase'[v] = phase[v] /\ handle'[v] = handle[v]
      /\ UNCHANGED <<issued, commits>>
  BY DEF Retry, GoIdle, IInv, TypeOK
<1>5. \A v \in Workers : phase'[v] # "idle" =>
          /\ v # w
          /\ phase'[v] = phase[v]
          /\ handle'[v] = handle[v]
          /\ handle[v].match \in Matches
  BY <1>4 DEF IInv, TypeOK, Handle
<1> HIDE DEF m
<1>6. TokensHandedOut'
  <2> SUFFICES ASSUME NEW v \in Workers, phase'[v] # "idle"
               PROVE  /\ handle'[v].token > 0
                      /\ handle'[v].token <= jobs'[handle'[v].match].token
    BY DEF TokensHandedOut, Busy
  <2> QED
    BY <1>3, <1>5 DEF IInv, TokensHandedOut, Busy
<1>7. TokensDistinct'
  BY <1>5 DEF IInv, TokensDistinct, Busy
<1>8. LatestOwnsRow'
  <2> SUFFICES ASSUME NEW v \in Workers, phase'[v] = "executing",
                      handle'[v].token = jobs'[handle'[v].match].token
               PROVE  HoldsJob(v)'
    BY DEF LatestOwnsRow
  <2>1. /\ v # w /\ phase[v] = "executing"
        /\ handle'[v] = handle[v] /\ handle[v].match \in Matches
    BY <1>5
  <2>2. handle[v].match # m
    <3>1. SUFFICES ASSUME handle[v].match = m
                   PROVE  v = w
      BY <2>1
    <3>2. handle[v].token = handle[w].token
      BY <1>2, <1>3, <2>1, <3>1
    <3> QED
      BY <1>1, <2>1, <3>1, <3>2 DEF IInv, TokensDistinct, Busy, m
  <2>3. jobs'[handle[v].match] = jobs[handle[v].match]
    BY <1>3, <2>1, <2>2
  <2>4. HoldsJob(v)
    BY <2>1, <2>3 DEF IInv, LatestOwnsRow
  <2> QED
    BY <2>1, <2>3, <2>4 DEF HoldsJob, Holds
<1>9. CommittedRunClosed'
  <2> SUFFICES ASSUME NEW d \in commits
               PROVE  /\ d.run \in issued[d.match]
                      /\ d.run = jobs'[d.match].run
                         => jobs'[d.match].status = "completed"
    BY <1>4 DEF CommittedRunClosed
  <2>1. /\ d.match \in Matches
        /\ d.run \in issued[d.match]
        /\ d.run = jobs[d.match].run => jobs[d.match].status = "completed"
    BY DEF IInv, TypeOK, Handle, CommittedRunClosed
  <2> QED
    BY <1>2, <1>3, <2>1
<1>10. OneCommitPerRun' /\ SucceededCommitted'
  BY <1>4, <1>5 DEF IInv, OneCommitPerRun, SucceededCommitted
<1>11. RowsBounded'
  BY <1>2, <1>3, <1>4 DEF IInv, RowsBounded
<1> QED
  BY <1>6, <1>7, <1>8, <1>9, <1>10, <1>11 DEF IInv

\* Completing a job after its commit finds the row completed already.
LEMMA CompleteKeepsJobs ==
    ASSUME IInv, NEW w \in Workers, Complete(w)
    PROVE  jobs' = jobs
  BY SucceededReleased DEF Complete

LEMMA StepIInv == IInv /\ [Next]_vars => IInv'
<1> SUFFICES ASSUME IInv, [Next]_vars
             PROVE  IInv'
  OBVIOUS
<1>a. TypeOK'
  BY StepTypeOK DEF IInv
<1>b. jobs \in [Matches -> Row]
  BY DEF IInv, TypeOK
<1>1. ASSUME NEW m \in Matches, NEW run \in 1..MaxRuns, Enqueue(m, run)
      PROVE  IInv'
  BY <1>1, <1>a, EnqueueIInv
<1>2. ASSUME NEW m \in Matches, LeaseExpires(m) \/ BackoffElapses(m)
      PROVE  IInv'
  <2>1. \A k \in Matches :
            /\ jobs'[k].status = jobs[k].status
            /\ jobs'[k].run = jobs[k].run
            /\ jobs'[k].attempt = jobs[k].attempt
            /\ jobs'[k].token = jobs[k].token
            /\ jobs'[k].by = jobs[k].by
    BY <1>2, <1>b DEF LeaseExpires, LeaseRunsOut, BackoffElapses, BackoffEnds, Row
  <2>2. UNCHANGED <<phase, handle, issued, commits>>
    BY <1>2 DEF LeaseExpires, BackoffElapses
  <2> QED
    BY <1>a, <2>1, <2>2, QuietStep
<1>3. ASSUME NEW w \in Workers, NEW m \in Matches, Dequeue(w, m)
      PROVE  IInv'
  BY <1>3, <1>a, DequeueIInv
<1>4. ASSUME NEW w \in Workers, Heartbeat(w)
      PROVE  IInv'
  <2>1. \A k \in Matches :
            /\ jobs'[k].status = jobs[k].status
            /\ jobs'[k].run = jobs[k].run
            /\ jobs'[k].attempt = jobs[k].attempt
            /\ jobs'[k].token = jobs[k].token
            /\ jobs'[k].by = jobs[k].by
    BY <1>4, <1>b DEF Heartbeat, RenewJob, RenewedRow, Row
  <2>2. UNCHANGED <<phase, handle, issued, commits>>
    BY <1>4 DEF Heartbeat
  <2> QED
    BY <1>a, <2>1, <2>2, QuietStep
<1>5. ASSUME NEW w \in Workers, HeartbeatLost(w)
      PROVE  IInv'
  BY <1>5, <1>a, QuietStep DEF HeartbeatLost
<1>6. ASSUME NEW w \in Workers, Commit(w) \/ CommitReplyLost(w)
      PROVE  IInv'
  <2>1. /\ CommitRow(w)
        /\ phase'[w] \in {"succeeded", "errored"}
        /\ \A v \in Workers : v # w => phase'[v] = phase[v]
        /\ UNCHANGED <<handle, issued>>
    BY <1>6 DEF Commit, CommitReplyLost, IInv, TypeOK
  <2> QED
    BY <1>a, <2>1, CommitIInv
<1>7. ASSUME NEW w \in Workers, ExecuteFails(w)
      PROVE  IInv'
  BY <1>7, <1>a, QuietStep DEF ExecuteFails, IInv, TypeOK
<1>c. ASSUME NEW w \in Workers, GoIdle(w)
      PROVE  \A v \in Workers : phase'[v] # "idle" =>
                /\ handle'[v] = handle[v]
                /\ phase[v] # "idle"
                /\ phase'[v] \in {phase[v], "errored"}
  BY <1>c DEF GoIdle, IInv, TypeOK
<1>8. ASSUME NEW w \in Workers, Complete(w)
      PROVE  IInv'
  <2>1. jobs' = jobs
    BY <1>8, CompleteKeepsJobs
  <2>2. GoIdle(w) /\ UNCHANGED <<issued, commits>>
    BY <1>8 DEF Complete
  <2> QED
    BY <1>a, <1>c, <2>1, <2>2, QuietStep
<1>9. ASSUME NEW w \in Workers, Retry(w)
      PROVE  IInv'
  <2>1. CASE HoldsJob(w)
    BY <1>9, <1>a, <2>1, RetryIInv
  <2>2. CASE ~HoldsJob(w)
    <3>1. jobs' = jobs /\ GoIdle(w) /\ UNCHANGED <<issued, commits>>
      BY <1>9, <2>2 DEF Retry
    <3> QED
      BY <1>a, <1>c, <3>1, QuietStep
  <2> QED
    BY <2>1, <2>2
<1>10. ASSUME NEW w \in Workers, RetryLost(w)
       PROVE  IInv'
  <2>1. jobs' = jobs /\ GoIdle(w) /\ UNCHANGED <<issued, commits>>
    BY <1>10 DEF RetryLost
  <2> QED
    BY <1>a, <1>c, <2>1, QuietStep
<1>11. ASSUME NEW p \in Processes, Crash(p)
       PROVE  IInv'
  <2>1. \A v \in Workers : phase'[v] # "idle" =>
            handle'[v] = handle[v] /\ phase'[v] = phase[v]
    BY <1>11 DEF Crash
  <2>2. UNCHANGED <<jobs, issued, commits>>
    BY <1>11 DEF Crash
  <2> QED
    BY <1>a, <2>1, <2>2, QuietStep
<1>12. ASSUME NEW p \in Processes, NEW m \in Matches, DequeueReplyLost(p, m)
       PROVE  IInv'
  BY <1>12, <1>a, DequeueReplyLostIInv
<1>13. CASE UNCHANGED vars
  BY <1>13, <1>a, QuietStep DEF vars
<1> QED
  BY <1>1, <1>2, <1>3, <1>4, <1>5, <1>6, <1>7, <1>8, <1>9, <1>10, <1>11,
     <1>12, <1>13 DEF Next, WorkerStep

\* The inductive invariant holds in every reachable state.
THEOREM InductiveInvariant == Spec => []IInv
<1>1. Init => IInv
  BY InitIInv
<1>2. IInv /\ [Next]_vars => IInv'
  BY StepIInv
<1> QED
  BY <1>1, <1>2, PTL DEF Spec

-----------------------------------------------------------------------------

(***************************************************************************)
(* Safety                                                                  *)
(***************************************************************************)

\* However many workers still execute a match after losing their leases, the
\* database would accept the commit of at most one of them
\* (match_runs.go, CommitMatchResult's test of the fencing token).
THEOREM SingleCommitter == Spec => []AtMostOneCommitter
<1>1. IInv => AtMostOneCommitter
  <2> SUFFICES ASSUME IInv, NEW v \in Workers, NEW w \in Workers,
                      CanCommit(v), CanCommit(w),
                      handle[v].match = handle[w].match
               PROVE  v = w
    BY DEF AtMostOneCommitter
  <2>1. handle[v].token = handle[w].token
    BY CommitterHolds
  <2> QED
    BY <2>1 DEF IInv, TokensDistinct, Busy, CanCommit
<1> QED
  BY <1>1, InductiveInvariant, PTL

\* The worker whose commit would be accepted still owns the reservation, of
\* the run the row was enqueued for.
THEOREM CommitterIsOwner == Spec => []CommitterOwnsRow
<1>1. IInv => CommitterOwnsRow
  BY CommitterHolds DEF CommitterOwnsRow
<1> QED
  BY <1>1, InductiveInvariant, PTL

\* No run is committed twice, through any number of lost leases, lost replies,
\* crashes and re-enqueues.
THEOREM CommitOnce == Spec => []OneCommitPerRun
<1>1. IInv => OneCommitPerRun
  BY DEF IInv
<1> QED
  BY <1>1, InductiveInvariant, PTL

\* A token never falls, and each hand-out moves it on.
TokensMoveOn ==
    \A m \in Matches :
        /\ jobs'[m].token >= jobs[m].token
        /\ jobs'[m].by # NoProcess /\ jobs'[m].attempt # jobs[m].attempt
           => jobs'[m].token > jobs[m].token

LEMMA StepTokens == IInv /\ [Next]_vars => [TokensMoveOn]_jobs
<1> SUFFICES ASSUME IInv, [Next]_vars, jobs' # jobs, NEW m \in Matches
             PROVE  /\ jobs'[m].token >= jobs[m].token
                    /\ /\ jobs'[m].by # NoProcess
                       /\ jobs'[m].attempt # jobs[m].attempt
                       => jobs'[m].token > jobs[m].token
  BY DEF TokensMoveOn
<1>a. jobs \in [Matches -> Row] /\ jobs[m].token \in Nat
  BY DEF IInv, TypeOK, Row
<1>b. \A w \in Workers : phase[w] # "idle" => handle[w].match \in Matches
  BY DEF IInv, TypeOK, Handle
<1> DEFINE Same == /\ jobs'[m].token = jobs[m].token
                   /\ jobs'[m].attempt = jobs[m].attempt
<1>1. ASSUME NEW k \in Matches, NEW run \in 1..MaxRuns, Enqueue(k, run)
      PROVE  /\ jobs'[m].token = jobs[m].token
             /\ jobs'[m].by = NoProcess \/ jobs'[m] = jobs[m]
  <2>1. run \in Nat
    BY BoundAssumption
  <2>2. EnqueuedRow(k, run).by = NoProcess
    BY <1>a DEF EnqueuedRow, Row
  <2> QED
    BY <1>1, <1>a, <2>1, <2>2, RowsWritten DEF Enqueue, EnqueueJob
<1>2. ASSUME NEW k \in Matches, LeaseExpires(k) \/ BackoffElapses(k)
      PROVE  Same
  BY <1>2, <1>a
     DEF LeaseExpires, LeaseRunsOut, BackoffElapses, BackoffEnds, Row
<1>3. ASSUME NEW k \in Matches, NEW p \in Processes, ReserveJob(k, p)
      PROVE  jobs'[m].token = jobs[m].token + 1 \/ jobs'[m] = jobs[m]
  BY <1>3, <1>a, ReserveRow
<1>4. ASSUME NEW w \in Workers, Heartbeat(w)
      PROVE  Same
  BY <1>4, <1>a DEF Heartbeat, RenewJob, RenewedRow, Row
<1>5. ASSUME NEW w \in Workers, CommitRow(w)
      PROVE  Same
  <2>1. handle[w].match \in Matches
    BY <1>5, <1>b DEF CommitRow
  <2> QED
    BY <1>5, <1>a, <2>1, RowsWritten DEF CommitRow, CompleteJob
<1>6. ASSUME NEW w \in Workers, Complete(w) \/ Retry(w)
      PROVE  Same
  <2>1. handle[w].match \in Matches
    BY <1>6, <1>b DEF Complete, Retry
  <2> QED
    BY <1>6, <1>a, <2>1, RowsWritten
       DEF Complete, CompleteJob, Retry, RetryJob
<1>7. CASE UNCHANGED jobs
  BY <1>7
<1>8. \A w \in Workers : Host[w] \in Processes
  BY HostAssumption
<1>9. ASSUME NEW w \in Workers, WorkerStep(w)
      PROVE  \/ \E k \in Matches, p \in Processes : ReserveJob(k, p)
             \/ Heartbeat(w) \/ CommitRow(w) \/ Complete(w) \/ Retry(w)
             \/ UNCHANGED jobs
  BY <1>8, <1>9 DEF WorkerStep, Dequeue, HeartbeatLost, Commit,
     CommitReplyLost, ExecuteFails, RetryLost
<1>10. CASE \E k \in Matches, run \in 1..MaxRuns : Enqueue(k, run)
  BY <1>10, <1>1, <1>a
<1>11. CASE \E k \in Matches : LeaseExpires(k) \/ BackoffElapses(k)
  BY <1>11, <1>2, <1>a
<1>12. CASE \E k \in Matches, p \in Processes : ReserveJob(k, p)
  BY <1>12, <1>3, <1>a
<1>13. CASE \E w \in Workers : Heartbeat(w) \/ CommitRow(w)
                               \/ Complete(w) \/ Retry(w)
  BY <1>13, <1>4, <1>5, <1>6, <1>a
<1> QED
  BY <1>7, <1>9, <1>10, <1>11, <1>12, <1>13
     DEF Next, Crash, DequeueReplyLost, vars

\* Tokens of a match never fall, and a reservation always moves on to a new one
\* (queue.go, Dequeue's fencing_token + 1, which a re-enqueue leaves alone).
THEOREM TokensOnlyAdvance == Spec => TokensAdvance
<1>1. Spec => [][TokensMoveOn]_jobs
  BY StepTokens, InductiveInvariant, PTL DEF Spec
<1> QED
  BY <1>1 DEF TokensAdvance, TokensMoveOn

-----------------------------------------------------------------------------

(***************************************************************************)
(* The queue and its workers implement FencedOwnership                     *)
(***************************************************************************)

LEMMA InitImplements == Init => Ownership!Init
<1> SUFFICES ASSUME Init
             PROVE  Ownership!Init
  OBVIOUS
<1>1. \A m \in Matches :
          /\ jobs[m].status = "absent"
          /\ jobs[m].run = 0
          /\ jobs[m].attempt = 0
          /\ jobs[m].token = 0
  BY DEF Init, InitJobs, AbsentRow
<1>2. \A m \in Matches : ~(jobs[m].status \in {"pending", "reserved"})
  BY <1>1
<1>3. {m \in Matches : Unresolved(m)} = {}
  BY <1>2 DEF Unresolved
<1>4. /\ [m \in Matches |-> jobs[m].run] = [m \in Matches |-> 0]
      /\ [m \in Matches |-> jobs[m].attempt] = [m \in Matches |-> 0]
      /\ [m \in Matches |-> jobs[m].token] = [m \in Matches |-> 0]
  BY <1>1
<1>5. commits = {} /\ issued = [m \in Matches |-> {}]
  BY DEF Init
<1> QED
  BY <1>3, <1>4, <1>5 DEF Ownership!Init

\* A step that keeps the mapped columns is invisible.
LEMMA InvisibleStep ==
    ASSUME \A m \in Matches :
               /\ jobs'[m].run = jobs[m].run
               /\ jobs'[m].status = jobs[m].status
               /\ jobs'[m].attempt = jobs[m].attempt
               /\ jobs'[m].token = jobs[m].token,
           UNCHANGED <<commits, issued>>
    PROVE  UNCHANGED Ownership!vars
<1>1. UNCHANGED [m \in Matches |-> jobs[m].run]
  OBVIOUS
<1>2. UNCHANGED {m \in Matches : Unresolved(m)}
  BY DEF Unresolved
<1>3. UNCHANGED [m \in Matches |-> jobs[m].attempt]
  OBVIOUS
<1>4. UNCHANGED [m \in Matches |-> jobs[m].token]
  OBVIOUS
<1> QED
  BY <1>1, <1>2, <1>3, <1>4 DEF Ownership!vars

\* An enqueue that writes the row opens a round.
LEMMA EnqueueOpens ==
    ASSUME IInv, NEW m \in Matches, NEW n \in 1..MaxRuns, Enqueue(m, n),
           Enqueueable(m)
    PROVE  Ownership!Open(m, n)
<1>1. n \in Nat
  BY BoundAssumption
<1>2. jobs \in [Matches -> Row]
  BY DEF IInv, TypeOK
<1>3. /\ jobs'[m].status = "pending"
      /\ jobs'[m].run = n
      /\ jobs'[m].attempt = 0
      /\ jobs'[m].token = jobs[m].token
      /\ \A k \in Matches : k # m => jobs'[k] = jobs[k]
      /\ commits' = commits
  BY <1>1, <1>2, RowsWritten DEF Enqueue, EnqueueJob
<1>4. ~Unresolved(m)
  BY DEF Unresolved, Enqueueable
<1>5. [k \in Matches |-> jobs'[k].run] =
        [[k \in Matches |-> jobs[k].run] EXCEPT ![m] = n]
  BY <1>3
<1>6. {k \in Matches : Unresolved(k)}' = {k \in Matches : Unresolved(k)} \union {m}
  BY <1>3 DEF Unresolved
<1>7. [k \in Matches |-> jobs'[k].attempt] =
        [[k \in Matches |-> jobs[k].attempt] EXCEPT ![m] = 0]
  BY <1>3
<1>8. [k \in Matches |-> jobs'[k].token] = [k \in Matches |-> jobs[k].token]
  BY <1>3
<1>9. Ownership!Request(m, n)
  BY DEF Enqueue, Ownership!Request
<1> QED
  BY <1>3, <1>4, <1>5, <1>6, <1>7, <1>8, <1>9 DEF Ownership!Open

\* An enqueue that finds the row pending or reserved drops its round.
LEMMA EnqueueDrops ==
    ASSUME IInv, NEW m \in Matches, NEW n \in 1..MaxRuns, Enqueue(m, n),
           ~Enqueueable(m)
    PROVE  Ownership!Drop(m, n)
<1>1. jobs' = jobs /\ commits' = commits
  BY DEF Enqueue, EnqueueJob
<1>2. Unresolved(m)
  BY DEF IInv, TypeOK, Row, JobStatus, Enqueueable, Unresolved
<1>3. Ownership!Request(m, n)
  BY DEF Enqueue, Ownership!Request
<1> QED
  BY <1>1, <1>2, <1>3 DEF Ownership!Drop, Unresolved

\* A reservation, answered or not, grants the next epoch.
LEMMA ReserveGrants ==
    ASSUME IInv, NEW m \in Matches, NEW p \in Processes, ReserveJob(m, p),
           UNCHANGED <<commits, issued>>
    PROVE  Ownership!Grant(m)
<1>1. /\ jobs'[m].status = "reserved"
      /\ jobs'[m].run = jobs[m].run
      /\ jobs'[m].attempt = jobs[m].attempt + 1
      /\ jobs'[m].token = jobs[m].token + 1
      /\ \A k \in Matches : k # m => jobs'[k] = jobs[k]
      /\ jobs[m].status \in {"pending", "reserved"}
      /\ jobs[m].attempt < MaxAttempts
  BY ReserveRow
<1>2. Unresolved(m)
  BY <1>1 DEF Unresolved
<1>3. {k \in Matches : Unresolved(k)}' = {k \in Matches : Unresolved(k)}
  BY <1>1 DEF Unresolved
<1>4. [k \in Matches |-> jobs'[k].run] = [k \in Matches |-> jobs[k].run]
  BY <1>1
<1>5. [k \in Matches |-> jobs'[k].attempt] =
        [[k \in Matches |-> jobs[k].attempt] EXCEPT ![m] = @ + 1]
  BY <1>1
<1>6. [k \in Matches |-> jobs'[k].token] =
        [[k \in Matches |-> jobs[k].token] EXCEPT ![m] = @ + 1]
  BY <1>1
<1> QED
  BY <1>1, <1>2, <1>3, <1>4, <1>5, <1>6 DEF Ownership!Grant

\* An accepted commit is the verdict of the latest epoch.
LEMMA CommitDecides ==
    ASSUME IInv, NEW w \in Workers, CommitRow(w), issued' = issued
    PROVE  Ownership!Decide(handle[w].match)
<1> DEFINE m == handle[w].match
<1>1. /\ HoldsJob(w)
      /\ handle[w] \in Handle
      /\ m \in Matches
      /\ handle[w].token = jobs[m].token
  BY CommitterHolds DEF CommitRow, CanCommit, Handle
<1>2. /\ jobs[m].status = "reserved"
      /\ jobs[m].run = handle[w].run
      /\ jobs[m].attempt > 0
  BY <1>1 DEF HoldsJob, Holds, IInv, RowsBounded
<1>3. /\ jobs'[m].status = "completed"
      /\ jobs'[m].run = jobs[m].run
      /\ jobs'[m].attempt = jobs[m].attempt
      /\ jobs'[m].token = jobs[m].token
      /\ \A k \in Matches : k # m => jobs'[k] = jobs[k]
  <2>1. jobs \in [Matches -> Row] /\ jobs' = [jobs EXCEPT ![m] = CompletedRow(m)]
    BY DEF IInv, TypeOK, CommitRow, CompleteJob
  <2> QED
    BY <1>1, <2>1, RowsWritten
<1>4. commits' = commits \union
        {[match |-> m, run |-> jobs[m].run, token |-> jobs[m].token]}
  BY <1>1, <1>2 DEF CommitRow, Handle
<1> HIDE DEF m
<1>5. Unresolved(m)
  BY <1>2 DEF Unresolved
<1>6. {k \in Matches : Unresolved(k)}' = {k \in Matches : Unresolved(k)} \ {m}
  <2>1. ~(jobs'[m].status \in {"pending", "reserved"})
    BY <1>3
  <2> QED
    BY <1>3, <2>1 DEF Unresolved
<1>7. /\ [k \in Matches |-> jobs'[k].run] = [k \in Matches |-> jobs[k].run]
      /\ [k \in Matches |-> jobs'[k].attempt] =
            [k \in Matches |-> jobs[k].attempt]
      /\ [k \in Matches |-> jobs'[k].token] = [k \in Matches |-> jobs[k].token]
  BY <1>3
<1>8. Ownership!Decide(m)
  BY <1>1, <1>2, <1>4, <1>5, <1>6, <1>7 DEF Ownership!Decide
<1> QED
  BY <1>8 DEF m

\* Giving a job back after its last attempt gives the round up; before that it
\* is invisible.
LEMMA RetryImplements ==
    ASSUME IInv, NEW w \in Workers, Retry(w), HoldsJob(w)
    PROVE  Ownership!GiveUp(handle[w].match) \/ UNCHANGED Ownership!vars
<1> DEFINE m == handle[w].match
<1>1. m \in Matches /\ jobs[m].status = "reserved"
  BY DEF Retry, IInv, TypeOK, Handle, HoldsJob, Holds
<1>2. /\ jobs \in [Matches -> Row]
      /\ jobs' = [jobs EXCEPT ![m] = RetriedRow(m)]
      /\ UNCHANGED <<commits, issued>>
  BY DEF IInv, TypeOK, Retry, RetryJob
<1>3. /\ jobs'[m].status = IF jobs[m].attempt >= MaxAttempts
                            THEN "failed" ELSE "pending"
      /\ jobs'[m].run = jobs[m].run
      /\ jobs'[m].attempt = jobs[m].attempt
      /\ jobs'[m].token = jobs[m].token
      /\ \A k \in Matches : k # m => jobs'[k] = jobs[k]
  BY <1>1, <1>2, RowsWritten DEF RetriedRow, Row
<1>4. jobs[m].attempt \in Nat /\ jobs[m].attempt <= MaxAttempts
  BY <1>1, <1>2 DEF IInv, RowsBounded, Row
<1>5. Unresolved(m)
  BY <1>1 DEF Unresolved
<1> HIDE DEF m
<1>6. /\ [k \in Matches |-> jobs'[k].run] = [k \in Matches |-> jobs[k].run]
      /\ [k \in Matches |-> jobs'[k].attempt] =
            [k \in Matches |-> jobs[k].attempt]
      /\ [k \in Matches |-> jobs'[k].token] = [k \in Matches |-> jobs[k].token]
  BY <1>3
<1>7. CASE jobs[m].attempt >= MaxAttempts
  <2>1. {k \in Matches : Unresolved(k)}' = {k \in Matches : Unresolved(k)} \ {m}
    <3>1. ~(jobs'[m].status \in {"pending", "reserved"})
      BY <1>3, <1>7
    <3> QED
      BY <1>3, <3>1 DEF Unresolved
  <2>2. jobs[m].attempt = MaxAttempts
    BY <1>4, <1>7, MaxAttemptsAssumption
  <2>3. Ownership!GiveUp(m)
    BY <1>1, <1>2, <1>5, <1>6, <2>1, <2>2 DEF Ownership!GiveUp
  <2> QED
    BY <2>3 DEF m
<1>8. CASE ~(jobs[m].attempt >= MaxAttempts)
  <2>1. {k \in Matches : Unresolved(k)}' = {k \in Matches : Unresolved(k)}
    BY <1>1, <1>3, <1>8 DEF Unresolved
  <2> QED
    BY <1>2, <1>6, <2>1 DEF Ownership!vars
<1> QED
  BY <1>7, <1>8

LEMMA StepImplements ==
    IInv /\ [Next]_vars => [Ownership!Next]_(Ownership!vars)
<1> SUFFICES ASSUME IInv, [Next]_vars
             PROVE  \/ \E m \in Matches :
                        \/ \E r \in 1..MaxRuns :
                              Ownership!Open(m, r) \/ Ownership!Drop(m, r)
                        \/ Ownership!Grant(m)
                        \/ Ownership!Decide(m)
                        \/ Ownership!GiveUp(m)
                    \/ UNCHANGED Ownership!vars
  BY DEF Ownership!Next
<1>a. jobs \in [Matches -> Row]
  BY DEF IInv, TypeOK
<1>b. \A w \in Workers : phase[w] # "idle" => handle[w].match \in Matches
  BY DEF IInv, TypeOK, Handle
<1>1. ASSUME NEW m \in Matches, NEW run \in 1..MaxRuns, Enqueue(m, run)
      PROVE  Ownership!Open(m, run) \/ Ownership!Drop(m, run)
  BY <1>1, EnqueueOpens, EnqueueDrops
<1>2. ASSUME NEW m \in Matches, LeaseExpires(m) \/ BackoffElapses(m)
      PROVE  UNCHANGED Ownership!vars
  <2>1. \A k \in Matches :
            /\ jobs'[k].run = jobs[k].run
            /\ jobs'[k].status = jobs[k].status
            /\ jobs'[k].attempt = jobs[k].attempt
            /\ jobs'[k].token = jobs[k].token
    BY <1>2, <1>a DEF LeaseExpires, LeaseRunsOut, BackoffElapses, BackoffEnds, Row
  <2>2. UNCHANGED <<commits, issued>>
    BY <1>2 DEF LeaseExpires, BackoffElapses
  <2> QED
    BY <2>1, <2>2, InvisibleStep
<1>3. ASSUME NEW w \in Workers, NEW m \in Matches, Dequeue(w, m)
      PROVE  Ownership!Grant(m)
  <2>1. Host[w] \in Processes
    BY HostAssumption
  <2> QED
    BY <1>3, <2>1, ReserveGrants DEF Dequeue
<1>4. ASSUME NEW w \in Workers, Heartbeat(w)
      PROVE  UNCHANGED Ownership!vars
  <2>1. \A k \in Matches :
            /\ jobs'[k].run = jobs[k].run
            /\ jobs'[k].status = jobs[k].status
            /\ jobs'[k].attempt = jobs[k].attempt
            /\ jobs'[k].token = jobs[k].token
    BY <1>4, <1>a DEF Heartbeat, RenewJob, RenewedRow, Row
  <2> QED
    BY <1>4, <2>1, InvisibleStep DEF Heartbeat
<1>5. ASSUME NEW w \in Workers, CommitRow(w), issued' = issued
      PROVE  \E m \in Matches : Ownership!Decide(m)
  <2>1. handle[w].match \in Matches
    BY <1>5, <1>b DEF CommitRow
  <2> QED
    BY <1>5, <2>1, CommitDecides
<1>6. ASSUME NEW w \in Workers, Complete(w)
      PROVE  UNCHANGED Ownership!vars
  <2>1. UNCHANGED <<jobs, commits, issued>>
    BY <1>6, CompleteKeepsJobs DEF Complete
  <2> QED
    BY <2>1, InvisibleStep
<1>7. ASSUME NEW w \in Workers, Retry(w)
      PROVE  \/ \E m \in Matches : Ownership!GiveUp(m)
             \/ UNCHANGED Ownership!vars
  <2>1. handle[w].match \in Matches
    BY <1>7, <1>b DEF Retry
  <2>2. CASE HoldsJob(w)
    BY <1>7, <2>1, <2>2, RetryImplements
  <2>3. CASE ~HoldsJob(w)
    BY <1>7, <2>3, InvisibleStep DEF Retry
  <2> QED
    BY <2>2, <2>3
<1>8. ASSUME NEW p \in Processes, NEW m \in Matches, DequeueReplyLost(p, m)
      PROVE  Ownership!Grant(m)
  BY <1>8, ReserveGrants DEF DequeueReplyLost
<1>9. CASE UNCHANGED <<jobs, commits, issued>>
  BY <1>9, InvisibleStep
<1>10. ASSUME NEW w \in Workers, WorkerStep(w)
       PROVE  \/ \E m \in Matches : Dequeue(w, m)
              \/ Heartbeat(w) \/ Complete(w) \/ Retry(w)
              \/ CommitRow(w) /\ issued' = issued
              \/ UNCHANGED <<jobs, commits, issued>>
  BY <1>10 DEF WorkerStep, HeartbeatLost, Commit, CommitReplyLost,
     ExecuteFails, RetryLost
<1> QED
  BY <1>1, <1>2, <1>3, <1>4, <1>5, <1>6, <1>7, <1>8, <1>9, <1>10
     DEF Next, Crash, vars

\* Queue and workers implement the abstract fenced ownership: every step of
\* theirs opens a round, grants an epoch, decides, gives up or is invisible.
THEOREM ImplementsFencedOwnership == Spec => ImplementsOwnership
<1>1. Init => Ownership!Init
  BY InitImplements
<1>2. IInv /\ [Next]_vars => [Ownership!Next]_(Ownership!vars)
  BY StepImplements
<1> QED
  BY <1>1, <1>2, InductiveInvariant, PTL
     DEF Spec, ImplementsOwnership, Ownership!Spec
=============================================================================
