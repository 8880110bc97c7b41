-------------------------- MODULE MemoryQueueProofs --------------------------
(***************************************************************************)
(* Proofs about MemoryQueue, for any jobs, workers and buffer.             *)
(***************************************************************************)
EXTENDS MemoryQueue, FiniteSetTheorems, SequenceTheorems, TLAPS

\* SolePlace without counting: no two places hold one job.
OnePlace == \A j \in MemJobs :
    /\ \A w, v \in Holders(j) : w = v
    /\ \A i, k \in Queued(j) : i = k
    /\ Holders(j) = {} \/ Queued(j) = {}

\* A job is with its request until it is sent, and nowhere once it is completed.
NowhereElse == \A j \in MemJobs :
    j \in completed \/ producer[j] # "sent" =>
        Holders(j) = {} /\ Queued(j) = {} /\ activeJobs[j] = 0

CompletedWereSent == \A j \in completed : producer[j] = "sent"

\* The entry of a running job is its worker's.
RunningOwn == \A w \in Consumers : IsAt(w, "running") => ~LeaseLost(w)

MemInv ==
    /\ MemTypeOK
    /\ OnePlace
    /\ NowhereElse
    /\ CompletedWereSent
    /\ RunningOwn
    /\ AcceptedJobsKept

LEMMA InitMemInv == MemInit => MemInv
<1> SUFFICES ASSUME MemInit
             PROVE  MemInv
  OBVIOUS
<1> USE CapacityAssumption, NoJobAssumption
<1>1. MemTypeOK
  <2>1. channel \in Seq(MemJobs) /\ Len(channel) = 0
    BY DEF MemInit
  <2>2. consumer \in [Consumers -> Doing]
    BY DEF MemInit, Doing, ConsumerSteps
  <2>3. producer \in [MemJobs -> ProducerSteps]
    BY DEF MemInit, ProducerSteps
  <2>4. \A w \in Consumers : consumer[w].job = NoJob /\ consumer[w].step = "idle"
    BY DEF MemInit
  <2>5. jobsByMatch \in [{JobMatch[j] : j \in MemJobs} -> MemJobs \union {NoJob}]
    BY DEF MemInit
  <2>6. attempt \in [MemJobs -> 0..MaxTries]
    BY DEF MemInit
  <2>7. /\ memClosed \in BOOLEAN /\ stopping \in BOOLEAN /\ tokenCounter \in Nat
        /\ activeJobs \in [MemJobs -> Nat] /\ token \in [MemJobs -> Nat]
        /\ completed \subseteq MemJobs
    BY DEF MemInit
  <2> QED
    BY <2>1, <2>2, <2>3, <2>4, <2>5, <2>6, <2>7 DEF MemTypeOK
<1>2. \A j \in MemJobs : Holders(j) = {} /\ Queued(j) = {}
  BY DEF MemInit, Holders, JobOf, Queued
<1>3. OnePlace /\ NowhereElse /\ CompletedWereSent
  BY <1>2 DEF MemInit, OnePlace, NowhereElse, CompletedWereSent
<1>4. RunningOwn /\ AcceptedJobsKept
  BY DEF MemInit, RunningOwn, IsAt, AcceptedJobsKept
<1> QED
  BY <1>1, <1>3, <1>4 DEF MemInv

-----------------------------------------------------------------------------
(* The channel.                                                            *)

LEMMA Sent ==
    ASSUME channel \in Seq(MemJobs), Len(channel) < Capacity, NEW j \in MemJobs,
           channel' = Append(channel, j)
    PROVE  /\ channel' \in Seq(MemJobs) /\ Len(channel') <= Capacity
           /\ \A k \in MemJobs : k # j => Queued(k)' = Queued(k)
           /\ Queued(j)' = Queued(j) \union {Len(channel) + 1}
<1>1. /\ channel' \in Seq(MemJobs) /\ Len(channel') = Len(channel) + 1
      /\ DOMAIN channel = 1..Len(channel) /\ DOMAIN channel' = 1..Len(channel) + 1
      /\ \A i \in 1..Len(channel) : channel'[i] = channel[i]
      /\ channel'[Len(channel) + 1] = j /\ Len(channel) \in Nat
  OBVIOUS
<1>2. \A i : i \in 1..Len(channel) + 1 <=> i \in 1..Len(channel) \/ i = Len(channel) + 1
  BY <1>1
<1> QED
  BY <1>1, <1>2, CapacityAssumption DEF Queued

LEMMA Received ==
    ASSUME channel \in Seq(MemJobs), Len(channel) <= Capacity, channel # <<>>,
           NEW j, j = Head(channel), channel' = Tail(channel),
           \A i, k \in Queued(j) : i = k
    PROVE  /\ channel' \in Seq(MemJobs) /\ Len(channel') <= Capacity
           /\ j \in MemJobs /\ Queued(j) # {} /\ Queued(j)' = {}
           /\ \A k : \A i \in Queued(k)' : i \in Nat /\ i + 1 \in Queued(k)
           /\ \A k : k # j => (Queued(k)' = {} <=> Queued(k) = {})
<1>1. /\ Len(channel) \in Nat \ {0} /\ DOMAIN channel = 1..Len(channel)
      /\ channel' \in Seq(MemJobs) /\ Len(channel') = Len(channel) - 1
      /\ DOMAIN channel' = 1..(Len(channel) - 1)
      /\ \A i \in 1..(Len(channel) - 1) : channel'[i] = channel[i + 1]
      /\ j = channel[1] /\ j \in MemJobs
  OBVIOUS
<1>2. \A k : \A i \in Queued(k)' : i \in Nat \ {0} /\ i + 1 \in Queued(k)
  BY <1>1 DEF Queued
<1>3. 1 \in Queued(j)
  BY <1>1 DEF Queued
<1>4. Queued(j)' = {}
  <2> SUFFICES ASSUME NEW i \in Queued(j)'
               PROVE  FALSE
    OBVIOUS
  <2>1. i \in Nat \ {0} /\ i + 1 \in Queued(j)
    BY <1>2
  <2>2. i + 1 = 1
    BY <1>3, <2>1
  <2> QED
    BY <2>1, <2>2
<1>5. ASSUME NEW k, k # j
      PROVE  Queued(k)' = {} <=> Queued(k) = {}
  <2>1. ASSUME NEW i \in Queued(k)
        PROVE  i - 1 \in Queued(k)'
    <3>1. i \in 1..Len(channel) /\ channel[i] = k /\ i # 1
      BY <1>1, <1>5 DEF Queued
    <3>2. i - 1 \in DOMAIN channel' /\ channel'[i - 1] = k
      BY <1>1, <3>1
    <3> QED
      BY <3>2 DEF Queued
  <2> QED
    BY <1>2, <2>1
<1> QED
  BY <1>1, <1>2, <1>3, <1>4, <1>5, CapacityAssumption

-----------------------------------------------------------------------------
(* The requests.                                                           *)

LEMMA RequestsKeep ==
    ASSUME MemInv, NEW j \in MemJobs, EnqueueJobStarts(j) \/ EnqueueSends(j) \/ EnqueueEnds(j)
    PROVE  MemInv'
<1> USE DEF MemInv
<1>1. /\ UNCHANGED <<memClosed, activeJobs, tokenCounter, attempt, token, consumer,
                     stopping, completed>>
      /\ producer' \in [MemJobs -> ProducerSteps]
      /\ \A k \in MemJobs : k # j => producer'[k] = producer[k]
      /\ producer[j] # "sent"
      /\ jobsByMatch' \in [{JobMatch[k] : k \in MemJobs} -> MemJobs \union {NoJob}]
  BY DEF EnqueueJobStarts, EnqueueSends, EnqueueEnds, MemTypeOK, ProducerSteps
<1>2. \A k \in MemJobs : Holders(k)' = Holders(k)
  BY <1>1 DEF Holders, JobOf
<1>3. Holders(j) = {} /\ Queued(j) = {} /\ activeJobs[j] = 0 /\ j \notin completed
  BY <1>1 DEF NowhereElse, CompletedWereSent
<1>4. RunningOwn'
  BY <1>1 DEF RunningOwn, IsAt, LeaseLost, JobOf
<1>5. CASE EnqueueSends(j)
  <2>1. producer'[j] = "sent" /\ channel \in Seq(MemJobs) /\ Len(channel) < Capacity
        /\ channel' = Append(channel, j)
    BY <1>5 DEF EnqueueSends, HasRoom, MemTypeOK
  <2>2. /\ channel' \in Seq(MemJobs) /\ Len(channel') <= Capacity
        /\ \A k \in MemJobs : k # j => Queued(k)' = Queued(k)
        /\ Queued(j)' = {Len(channel) + 1}
    BY <1>3, <2>1, Sent
  <2>3. MemTypeOK'
    BY <1>1, <2>2 DEF MemTypeOK
  <2>4. OnePlace'
    BY <1>2, <1>3, <2>2 DEF OnePlace
  <2>5. NowhereElse' /\ CompletedWereSent'
    BY <1>1, <1>2, <1>3, <2>1, <2>2 DEF NowhereElse, CompletedWereSent, MemTypeOK
  <2>6. AcceptedJobsKept'
    BY <1>1, <1>2, <1>3, <2>1, <2>2 DEF AcceptedJobsKept
  <2> QED
    BY <1>4, <2>3, <2>4, <2>5, <2>6
<1>6. CASE ~EnqueueSends(j)
  <2>1. channel' = channel /\ producer'[j] # "sent"
    BY <1>6 DEF EnqueueJobStarts, EnqueueEnds, MemTypeOK
  <2>2. \A k \in MemJobs : Queued(k)' = Queued(k)
    BY <2>1 DEF Queued
  <2>3. MemTypeOK'
    BY <1>1, <2>1 DEF MemTypeOK
  <2>4. OnePlace'
    BY <1>2, <1>3, <2>2 DEF OnePlace
  <2>5. NowhereElse' /\ CompletedWereSent'
    BY <1>1, <1>2, <1>3, <2>1, <2>2 DEF NowhereElse, CompletedWereSent, MemTypeOK
  <2>6. AcceptedJobsKept'
    BY <1>1, <1>2, <1>3, <2>1, <2>2 DEF AcceptedJobsKept
  <2> QED
    BY <1>4, <2>3, <2>4, <2>5, <2>6
<1> QED
  BY <1>5, <1>6

-----------------------------------------------------------------------------
(* The workers.                                                            *)

\* A worker keeps its job, or takes or leaves one.
LEMMA WorkerGoesTo ==
    ASSUME MemTypeOK, NEW w \in Consumers, NEW d \in Doing,
           d.job = NoJob <=> d.step \in {"idle", "gone"},
           consumer' = [consumer EXCEPT ![w] = d]
    PROVE  /\ consumer' \in [Consumers -> Doing]
           /\ \A v \in Consumers : consumer'[v].job = NoJob <=> consumer'[v].step \in {"idle", "gone"}
           /\ consumer'[w] = d /\ \A v \in Consumers : v # w => consumer'[v] = consumer[v]
           /\ \A k : Holders(k)' =
                  (Holders(k) \ {w}) \union (IF k = d.job THEN {w} ELSE {})
BY DEF MemTypeOK, Holders, JobOf

LEMMA TakeJobKeeps ==
    ASSUME MemInv, NEW w \in Consumers, TakeJob(w)
    PROVE  MemInv'
<1> USE CapacityAssumption, NoJobAssumption DEF MemInv
<1> DEFINE d == [step |-> "took", job |-> Head(channel)]
<1>1. PICK j : j = Head(channel)
  OBVIOUS
<1>2. /\ UNCHANGED <<memClosed, jobsByMatch, activeJobs, tokenCounter, token, producer,
                     stopping, completed>>
      /\ channel \in Seq(MemJobs) /\ Len(channel) <= Capacity /\ channel # <<>>
      /\ channel' = Tail(channel) /\ j \in MemJobs
      /\ consumer' = [consumer EXCEPT ![w] = [step |-> "took", job |-> j]]
      /\ JobOf(w) = NoJob
  BY <1>1 DEF TakeJob, MemTypeOK, IsAt, JobOf
<1>3. /\ channel' \in Seq(MemJobs) /\ Len(channel') <= Capacity
      /\ Queued(j) # {} /\ Queued(j)' = {}
      /\ \A k : \A i \in Queued(k)' : i \in Nat /\ i + 1 \in Queued(k)
      /\ \A k : k # j => (Queued(k)' = {} <=> Queued(k) = {})
  BY <1>1, <1>2, Received DEF OnePlace
<1>4. /\ consumer' \in [Consumers -> Doing]
      /\ \A v \in Consumers : consumer'[v].job = NoJob <=> consumer'[v].step \in {"idle", "gone"}
      /\ consumer'[w] = [step |-> "took", job |-> j]
      /\ \A v \in Consumers : v # w => consumer'[v] = consumer[v]
      /\ Holders(j)' = {w}
      /\ \A k \in MemJobs : k # j => Holders(k)' = Holders(k)
  <2> DEFINE e == [step |-> "took", job |-> j]
  <2>1. e \in Doing /\ (e.job = NoJob <=> e.step \in {"idle", "gone"}) /\ e.job = j
    BY <1>2 DEF Doing, ConsumerSteps
  <2>2. Holders(j) = {}
    BY <1>2, <1>3 DEF OnePlace
  <2>3. \A k \in MemJobs : w \notin Holders(k)
    BY <1>2 DEF Holders
  <2> HIDE DEF e
  <2>4. consumer' = [consumer EXCEPT ![w] = e]
    BY <1>2 DEF e
  <2>5. /\ consumer' \in [Consumers -> Doing]
        /\ \A v \in Consumers : consumer'[v].job = NoJob <=> consumer'[v].step \in {"idle", "gone"}
        /\ consumer'[w] = e /\ \A v \in Consumers : v # w => consumer'[v] = consumer[v]
        /\ \A k : Holders(k)' =
               (Holders(k) \ {w}) \union (IF k = e.job THEN {w} ELSE {})
    BY <2>1, <2>4, WorkerGoesTo
  <2> QED
    BY <1>2, <2>1, <2>2, <2>3, <2>5 DEF e
<1>5. MemTypeOK'
  <2>1. attempt' \in [MemJobs -> 0..MaxTries]
    <3>1. attempt' = [attempt EXCEPT ![j] = attempt[j] + 1] /\ attempt[j] < MaxTries
      BY <1>1 DEF TakeJob
    <3> QED
      BY <1>2, <3>1 DEF MemTypeOK
  <2> QED
    BY <1>2, <1>3, <1>4, <2>1 DEF MemTypeOK
<1>6. OnePlace'
  <2> SUFFICES ASSUME NEW k \in MemJobs
               PROVE  OnePlace!(k)'
    BY DEF OnePlace
  <2>1. CASE k = j
    BY <1>3, <1>4, <2>1
  <2>2. CASE k # j
    <3>1. \A i, l \in Queued(k)' : i = l
      BY <1>3 DEF OnePlace
    <3> QED
      BY <1>3, <1>4, <2>2, <3>1 DEF OnePlace
  <2> QED
    BY <2>1, <2>2
<1>7. NowhereElse' /\ CompletedWereSent'
  <2>1. producer[j] = "sent" /\ j \notin completed
    BY <1>2, <1>3 DEF NowhereElse
  <2> QED
    BY <1>2, <1>3, <1>4, <2>1 DEF NowhereElse, CompletedWereSent
<1>8. RunningOwn'
  BY <1>2, <1>4 DEF RunningOwn, IsAt, LeaseLost, JobOf
<1>9. AcceptedJobsKept'
  BY <1>2, <1>3, <1>4 DEF AcceptedJobsKept
<1> QED
  BY <1>5, <1>6, <1>7, <1>8, <1>9

\* Steps of a worker with its job that leave the channel alone.
LEMMA JobStepKeeps ==
    ASSUME MemInv, NEW w \in Consumers, Register(w) \/ JobFails(w)
    PROVE  MemInv'
<1> USE NoJobAssumption DEF MemInv
<1> DEFINE j == JobOf(w)
<1>1. /\ j \in MemJobs /\ w \in Holders(j) /\ consumer[w].step \in {"took", "running"}
      /\ \A v \in Holders(j) : v = w
      /\ Queued(j) = {} /\ producer[j] = "sent" /\ j \notin completed
  <2>1. consumer[w].step \in {"took", "running"}
    BY DEF Register, JobFails, Failing, IsAt
  <2>2. j \in MemJobs
    BY <2>1 DEF MemTypeOK, Doing, JobOf
  <2>3. w \in Holders(j)
    BY DEF Holders
  <2> HIDE DEF j
  <2> QED
    BY <2>1, <2>2, <2>3 DEF OnePlace, NowhereElse
<1>2. consumer[w].step = "running" => ~RetryRefused(w)
  BY DEF RunningOwn, IsAt, RetryRefused
<1>3. PICK s \in {"running", "resending"}, n \in Nat :
          /\ consumer' = [consumer EXCEPT ![w] = [step |-> s, job |-> j]]
          /\ activeJobs' = [activeJobs EXCEPT ![j] = n]
          /\ s = "running" => token' = [token EXCEPT ![j] = n]
          /\ s = "resending" => token' = token
  <2>1. CASE Register(w)
    <3>1. tokenCounter' \in Nat
      BY <2>1 DEF Register, MemTypeOK
    <3>2. consumer' = [consumer EXCEPT ![w] = [step |-> "running", job |-> j]]
      <4>1. Becomes(w, "running")
        BY <2>1 DEF Register
      <4>2. consumer[w] \in Doing /\ consumer \in [Consumers -> Doing]
        BY DEF MemTypeOK
      <4>3. [consumer[w] EXCEPT !.step = "running"] = [step |-> "running", job |-> j]
        BY <4>2 DEF Doing, JobOf
      <4> QED
        BY <4>1, <4>2, <4>3 DEF Becomes
    <3> QED
      BY <2>1, <3>1, <3>2 DEF Register
  <2>2. CASE JobFails(w)
    <3>1. consumer' = [consumer EXCEPT ![w] = [step |-> "resending", job |-> j]]
      BY <1>2, <2>2 DEF JobFails, Failing, IsAt, Becomes, MemTypeOK, Doing, JobOf
    <3> QED
      BY <1>2, <2>2, <3>1 DEF JobFails, Failing, IsAt
  <2> QED
    BY <2>1, <2>2
<1>4. /\ UNCHANGED <<channel, memClosed, attempt, producer, stopping, completed>>
      /\ tokenCounter' \in Nat
      /\ jobsByMatch' \in [{JobMatch[k] : k \in MemJobs} -> MemJobs \union {NoJob}]
  <2>1. jobsByMatch' = jobsByMatch \/ jobsByMatch' = [jobsByMatch EXCEPT ![JobMatch[j]] = j]
    BY DEF Register, JobFails
  <2>2. jobsByMatch' \in [{JobMatch[k] : k \in MemJobs} -> MemJobs \union {NoJob}]
    BY <1>1, <2>1 DEF MemTypeOK
  <2> QED
    BY <2>2 DEF Register, JobFails, MemTypeOK
<1> HIDE DEF j
<1>5. /\ consumer' \in [Consumers -> Doing]
      /\ \A v \in Consumers : consumer'[v].job = NoJob <=> consumer'[v].step \in {"idle", "gone"}
      /\ consumer'[w] = [step |-> s, job |-> j]
      /\ \A v \in Consumers : v # w => consumer'[v] = consumer[v]
      /\ \A k : Holders(k)' = Holders(k) /\ Queued(k)' = Queued(k)
  <2> DEFINE e == [step |-> s, job |-> j]
  <2>1. e \in Doing /\ (e.job = NoJob <=> e.step \in {"idle", "gone"}) /\ e.job = j
    BY <1>1 DEF Doing, ConsumerSteps
  <2> HIDE DEF e
  <2>2. consumer' = [consumer EXCEPT ![w] = e]
    BY <1>3 DEF e
  <2>3. /\ consumer' \in [Consumers -> Doing]
        /\ \A v \in Consumers : consumer'[v].job = NoJob <=> consumer'[v].step \in {"idle", "gone"}
        /\ consumer'[w] = e /\ \A v \in Consumers : v # w => consumer'[v] = consumer[v]
    BY <2>1, <2>2, WorkerGoesTo
  <2>4. \A v \in Consumers : consumer'[v].job = consumer[v].job
    BY <2>1, <2>3 DEF j, JobOf
  <2> QED
    BY <1>4, <2>3, <2>4 DEF e, Holders, JobOf, Queued
<1>6. MemTypeOK'
  <2>1. activeJobs' \in [MemJobs -> Nat] /\ token' \in [MemJobs -> Nat]
    BY <1>3 DEF MemTypeOK
  <2> QED
    BY <1>4, <1>5, <2>1 DEF MemTypeOK
<1>7. OnePlace' /\ CompletedWereSent' /\ AcceptedJobsKept'
  BY <1>4, <1>5 DEF OnePlace, CompletedWereSent, AcceptedJobsKept
<1>8. NowhereElse'
  <2>1. \A k \in MemJobs : k # j => activeJobs'[k] = activeJobs[k]
    BY <1>3 DEF MemTypeOK
  <2> QED
    BY <1>1, <1>4, <1>5, <2>1 DEF NowhereElse
<1>9. RunningOwn'
  <2> SUFFICES ASSUME NEW v \in Consumers, consumer'[v].step = "running"
               PROVE  activeJobs'[consumer'[v].job] = token'[consumer'[v].job]
    BY DEF RunningOwn, IsAt, LeaseLost, JobOf
  <2>1. CASE v = w
    BY <1>1, <1>3, <1>5, <2>1 DEF MemTypeOK
  <2>2. CASE v # w
    <3>1. consumer'[v] = consumer[v] /\ consumer[v].job \in MemJobs
          /\ v \in Holders(consumer[v].job)
      BY <1>5, <2>2 DEF MemTypeOK, Doing, Holders, JobOf
    <3>2. consumer[v].job # j
      BY <1>1, <2>2, <3>1
    <3>3. activeJobs[consumer[v].job] = token[consumer[v].job]
      BY <3>1 DEF RunningOwn, IsAt, LeaseLost, JobOf
    <3> QED
      BY <1>3, <3>1, <3>2, <3>3 DEF MemTypeOK
  <2> QED
    BY <2>1, <2>2
<1> QED
  BY <1>6, <1>7, <1>8, <1>9

\* Steps with which a worker leaves its job: done, handed back or given up.
LEMMA JobLeftKeeps ==
    ASSUME MemInv, NEW w \in Consumers, Succeeds(w) \/ Resends(w) \/ GivesUpResending(w)
    PROVE  MemInv'
<1> USE CapacityAssumption, NoJobAssumption DEF MemInv
<1> PICK j : j = JobOf(w)
  OBVIOUS
<1>1. /\ j \in MemJobs /\ w \in Holders(j)
      /\ \A v \in Holders(j) : v = w
      /\ Queued(j) = {} /\ producer[j] = "sent" /\ j \notin completed
  <2>1. consumer[w].step \in {"running", "resending"}
    BY DEF Succeeds, Resends, GivesUpResending, IsAt
  <2>2. j \in MemJobs
    BY <2>1 DEF MemTypeOK, Doing, JobOf
  <2>3. w \in Holders(j)
    BY DEF Holders
  <2> QED
    BY <2>1, <2>2, <2>3 DEF OnePlace, NowhereElse
<1>2. /\ UNCHANGED <<memClosed, jobsByMatch, tokenCounter, attempt, token, producer, stopping>>
      /\ consumer' = [consumer EXCEPT ![w] = Resting]
  BY DEF Succeeds, Resends, GivesUpResending
<1>3. /\ consumer' \in [Consumers -> Doing]
      /\ \A v \in Consumers : consumer'[v].job = NoJob <=> consumer'[v].step \in {"idle", "gone"}
      /\ consumer'[w] = Resting
      /\ \A v \in Consumers : v # w => consumer'[v] = consumer[v]
      /\ Holders(j)' = {}
      /\ \A k \in MemJobs : k # j => Holders(k)' = Holders(k)
  <2>1. Resting \in Doing /\ (Resting.job = NoJob <=> Resting.step \in {"idle", "gone"})
        /\ Resting.job = NoJob
    BY DEF Resting, Doing, ConsumerSteps
  <2>2. /\ consumer' \in [Consumers -> Doing]
        /\ \A v \in Consumers : consumer'[v].job = NoJob <=> consumer'[v].step \in {"idle", "gone"}
        /\ consumer'[w] = Resting /\ \A v \in Consumers : v # w => consumer'[v] = consumer[v]
    BY <1>2, <2>1, WorkerGoesTo
  <2>3. \A k \in MemJobs : Holders(k)' = Holders(k) \ {w}
    BY <2>1, <2>2 DEF Holders, JobOf
  <2>4. \A k \in MemJobs : k # j => w \notin Holders(k)
    BY DEF Holders
  <2>5. Holders(j)' = {}
    BY <1>1, <2>3
  <2> QED
    BY <2>2, <2>3, <2>4, <2>5
<1>4. RunningOwn'
  <2> SUFFICES ASSUME NEW v \in Consumers, consumer'[v].step = "running"
               PROVE  activeJobs'[consumer'[v].job] = token'[consumer'[v].job]
    BY DEF RunningOwn, IsAt, LeaseLost, JobOf
  <2>1. v # w
    BY <1>3 DEF Resting
  <2>2. consumer'[v] = consumer[v] /\ consumer[v].job \in MemJobs
        /\ v \in Holders(consumer[v].job)
    BY <1>3, <2>1 DEF MemTypeOK, Doing, Holders, JobOf
  <2>3. consumer[v].job # j
    BY <1>1, <2>1, <2>2
  <2>4. activeJobs[consumer[v].job] = token[consumer[v].job]
    BY <2>2 DEF RunningOwn, IsAt, LeaseLost, JobOf
  <2>5. activeJobs'[consumer[v].job] = activeJobs[consumer[v].job]
    BY <2>2, <2>3 DEF Succeeds, Resends, GivesUpResending, MemTypeOK
  <2> QED
    BY <1>2, <2>2, <2>4, <2>5
<1>5. CASE Succeeds(w)
  <2>1. /\ activeJobs' = [activeJobs EXCEPT ![j] = 0] /\ completed' = completed \union {j}
        /\ channel' = channel
    BY <1>5 DEF Succeeds, RunningOwn
  <2>2. \A k : Queued(k)' = Queued(k)
    BY <2>1 DEF Queued
  <2>3. MemTypeOK'
    BY <1>1, <1>2, <1>3, <2>1 DEF MemTypeOK
  <2>4. OnePlace'
    BY <1>1, <1>3, <2>2 DEF OnePlace
  <2>5. NowhereElse'
    <3>1. activeJobs'[j] = 0 /\ \A k \in MemJobs : k # j => activeJobs'[k] = activeJobs[k]
      BY <1>1, <2>1 DEF MemTypeOK
    <3> QED
      BY <1>1, <1>2, <1>3, <2>1, <2>2, <3>1 DEF NowhereElse
  <2>6. CompletedWereSent'
    BY <1>1, <1>2, <2>1 DEF CompletedWereSent
  <2>7. AcceptedJobsKept'
    BY <1>1, <1>2, <1>3, <2>1, <2>2 DEF AcceptedJobsKept
  <2> QED
    BY <1>4, <2>3, <2>4, <2>5, <2>6, <2>7
<1>6. CASE Resends(w)
  <2>1. /\ channel' = Append(channel, j) /\ channel \in Seq(MemJobs) /\ Len(channel) < Capacity
        /\ activeJobs' = activeJobs /\ completed' = completed
    BY <1>6 DEF Resends, HasRoom, MemTypeOK
  <2>2. /\ channel' \in Seq(MemJobs) /\ Len(channel') <= Capacity
        /\ \A k \in MemJobs : k # j => Queued(k)' = Queued(k)
        /\ Queued(j)' = {Len(channel) + 1}
    BY <1>1, <2>1, Sent
  <2>3. MemTypeOK'
    BY <1>2, <1>3, <2>1, <2>2 DEF MemTypeOK
  <2>4. OnePlace'
    BY <1>1, <1>3, <2>2 DEF OnePlace
  <2>5. NowhereElse' /\ CompletedWereSent'
    BY <1>1, <1>2, <1>3, <2>1, <2>2 DEF NowhereElse, CompletedWereSent
  <2>6. AcceptedJobsKept'
    BY <1>2, <1>3, <2>1, <2>2 DEF AcceptedJobsKept
  <2> QED
    BY <1>4, <2>3, <2>4, <2>5, <2>6
<1>7. CASE GivesUpResending(w)
  <2>1. channel' = channel /\ activeJobs' = activeJobs /\ completed' = completed /\ stopping'
    BY <1>7 DEF GivesUpResending
  <2>2. \A k : Queued(k)' = Queued(k)
    BY <2>1 DEF Queued
  <2>3. MemTypeOK'
    BY <1>2, <1>3, <2>1 DEF MemTypeOK
  <2>4. OnePlace'
    BY <1>1, <1>3, <2>2 DEF OnePlace
  <2>5. NowhereElse' /\ CompletedWereSent' /\ AcceptedJobsKept'
    BY <1>1, <1>2, <1>3, <2>1, <2>2 DEF NowhereElse, CompletedWereSent, AcceptedJobsKept
  <2> QED
    BY <1>4, <2>3, <2>4, <2>5
<1> QED
  BY <1>5, <1>6, <1>7

-----------------------------------------------------------------------------

LEMMA StopsKeep ==
    ASSUME MemInv,
           StopPool \/ CloseQueue \/ (\E w \in Consumers : Leaves(w)) \/ UNCHANGED memVars
    PROVE  MemInv'
<1> USE NoJobAssumption DEF MemInv
<1>1. /\ UNCHANGED <<channel, jobsByMatch, activeJobs, tokenCounter, attempt, token,
                     producer, completed>>
      /\ memClosed' \in BOOLEAN /\ stopping' \in BOOLEAN /\ (stopping => stopping')
  BY DEF StopPool, CloseQueue, Leaves, memVars, MemTypeOK
<1>2. /\ consumer' \in [Consumers -> Doing]
      /\ \A v \in Consumers : consumer'[v].job = consumer[v].job
      /\ \A v \in Consumers : consumer'[v].step = "running" => consumer[v].step = "running"
      /\ \A v \in Consumers :
             consumer'[v].job = NoJob <=> consumer'[v].step \in {"idle", "gone"}
  <2>1. CASE consumer' = consumer
    BY <2>1 DEF MemTypeOK
  <2>2. CASE \E w \in Consumers : Leaves(w)
    <3> PICK w \in Consumers : Leaves(w)
      BY <2>2
    <3>1. consumer' = [consumer EXCEPT ![w] = [consumer[w] EXCEPT !.step = "gone"]]
          /\ consumer[w].step = "idle" /\ consumer \in [Consumers -> Doing]
      BY DEF Leaves, IsAt, Becomes, MemTypeOK
    <3> QED
      BY <3>1 DEF MemTypeOK, Doing, ConsumerSteps
  <2> QED
    BY <2>1, <2>2 DEF StopPool, CloseQueue, memVars
<1>3. \A k : Holders(k)' = Holders(k) /\ Queued(k)' = Queued(k)
  BY <1>1, <1>2 DEF Holders, JobOf, Queued
<1>4. MemTypeOK'
  BY <1>1, <1>2 DEF MemTypeOK
<1>5. OnePlace' /\ NowhereElse' /\ CompletedWereSent' /\ AcceptedJobsKept'
  BY <1>1, <1>3 DEF OnePlace, NowhereElse, CompletedWereSent, AcceptedJobsKept
<1>6. RunningOwn'
  BY <1>1, <1>2 DEF RunningOwn, IsAt, LeaseLost, JobOf
<1> QED
  BY <1>4, <1>5, <1>6

LEMMA MemInvariant == MemSpec => []MemInv
<1>1. MemInv /\ [MemNext]_memVars => MemInv'
  BY RequestsKeep, TakeJobKeeps, JobStepKeeps, JobLeftKeeps, StopsKeep
     DEF MemNext, ConsumerStep
<1> QED
  BY InitMemInv, <1>1, PTL DEF MemSpec

\* The channel, the maps and the workers of the in-memory queue are well typed
\* (connection/queue.go inMemoryJobQueue); the channel never holds more than its
\* buffer.
THEOREM MemoryQueueTyped == MemSpec => []MemTypeOK
<1>1. MemInv => MemTypeOK
  BY DEF MemInv
<1> QED
  BY MemInvariant, <1>1, PTL

\* A pointer that travels through the channel is in one place at a time, and the
\* token registered for a running job is its worker's: the check of the lease in
\* RenewLease, Complete and Retry never refuses, for any number of workers.
THEOREM JobsInOnePlace == MemSpec => []SolePlace
<1>1. MemInv => SolePlace
  <2> SUFFICES ASSUME MemInv
               PROVE  SolePlace
    OBVIOUS
  <2>1. ASSUME NEW j \in MemJobs
        PROVE  Cardinality(Holders(j)) + Cardinality(Queued(j)) <= 1
    <3>1. \A S : (\A x, y \in S : x = y) => S = {} \/ \E x : S = {x}
      OBVIOUS
    <3>2. \A S : (\A x, y \in S : x = y) => Cardinality(S) = 0 \/ Cardinality(S) = 1
      BY <3>1, FS_EmptySet, FS_Singleton
    <3>3. Cardinality({}) = 0
      BY FS_EmptySet
    <3> QED
      BY <3>2, <3>3 DEF MemInv, OnePlace
  <2> QED
    BY <2>1 DEF MemInv, SolePlace, NowhereElse, RunningOwn
<1> QED
  BY MemInvariant, <1>1, PTL

\* A job whose Enqueue returned is queued, with a worker, or completed, until the
\* pool is stopped: whatever fails and however often it is handed back.
THEOREM AcceptedJobsStay == MemSpec => []AcceptedJobsKept
<1>1. MemInv => AcceptedJobsKept
  BY DEF MemInv
<1> QED
  BY MemInvariant, <1>1, PTL
=============================================================================
