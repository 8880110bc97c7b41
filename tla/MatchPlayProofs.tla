---------------------------- MODULE MatchPlayProofs ----------------------------
(***************************************************************************)
(* Proofs about MatchPlay, for any two players and length of the match.    *)
(***************************************************************************)
EXTENDS MatchPlay, FiniteSetTheorems, TLAPS

Looping == {"turns", "advance", "finish"}
Unsealed == {"engine", "replay", "seal"} \union Looping
Published == {"publish", "publish_zst", "done"}

\* Until the result is sealed, the replay has one snapshot more than ticks were
\* played, and there is no verdict before the engine has given its own.
PlayInStep ==
    /\ stage \in {"engine", "replay"} =>
           tick = 0 /\ frames = 0 /\ act = [p \in Players |-> "valid"]
    /\ stage \in Looping \union {"seal"} => frames = tick + 1
    /\ stage = "advance" => tick < MaxTicks
    /\ stage \in Looping \union {"engine", "replay"} => verdict = NoVerdict
    /\ stage = "seal" => verdict.tick = tick /\ engine.tick = tick

\* What the files hold at each stage.
FilesInStep ==
    /\ stage \in Unsealed => ~sealed /\ zst = "none"
    /\ stage \in {"compress", "commit"} \union Published => sealed
    /\ sealed => verdict.tick = engine.tick /\ frames = verdict.tick + 1
    /\ committed => sealed /\ plain # "none"
    /\ ~committed => plain # "final" /\ zst # "final"
    /\ stage \in Published => committed
    /\ stage \in Unsealed \union {"compress", "commit", "failed"} => ~committed
    /\ stage \in {"compress", "commit", "seal", "replay"} \union Looping => plain = "tmp"

\* Whoever is disqualified in the last tick played has not won, as far as the
\* executor can tell.
LosersKnown ==
    stage \in {"turns", "finish"} /\ Disqualified # {} => winner \notin Disqualified

PlayInv == PlayTypeOK /\ PlayInStep /\ FilesInStep /\ LosersKnown /\ OffendersLose

LEMMA InitPlayInv == PlayInit => PlayInv
<1> SUFFICES ASSUME PlayInit
             PROVE  PlayInv
  OBVIOUS
<1> USE PlayTicksAssumption DEF PlayInit
<1>1. PlayTypeOK
  <2>1. tick \in 0..MaxTicks /\ frames \in 0..MaxTicks + 1
    OBVIOUS
  <2>2. engine \in [tick: 0..MaxTicks, lead: Winners] /\ winner \in Winners
    BY DEF Winners
  <2>3. act \in [Players -> Acts] /\ plain \in Places /\ zst \in Places
    BY DEF Acts, Places
  <2> QED
    BY <2>1, <2>2, <2>3 DEF PlayTypeOK
<1>2. PlayInStep /\ FilesInStep /\ LosersKnown /\ OffendersLose
  BY DEF PlayInStep, FilesInStep, LosersKnown, OffendersLose, Looping, Unsealed, Published
<1> QED
  BY <1>1, <1>2 DEF PlayInv

LEMMA QuietOffenders ==
    ASSUME OffendersLose, UNCHANGED <<loopVars, verdict>>
    PROVE  OffendersLose'
BY DEF OffendersLose, Disqualified, loopVars

LEMMA PreparationKeeps ==
    ASSUME PlayInv, PrepareFails \/ OpenReplay \/ StartPlay
    PROVE  PlayInv'
<1> USE PlayTicksAssumption DEF PlayInv
<1>1. UNCHANGED <<loopVars, verdict>>
  BY DEF PrepareFails, OpenReplay, StartPlay, Fails
<1>2. PlayTypeOK'
  BY <1>1 DEF PrepareFails, OpenReplay, StartPlay, Fails, WriteSnapshot, PlayTypeOK,
     loopVars, fileVars, Places, PlayInStep
<1>3. PlayInStep'
  BY <1>1 DEF PrepareFails, OpenReplay, StartPlay, Fails, WriteSnapshot, PlayInStep,
     loopVars, fileVars, Looping
<1>4. FilesInStep'
  BY <1>1 DEF PrepareFails, OpenReplay, StartPlay, Fails, WriteSnapshot, FilesInStep,
     PlayInStep, loopVars, fileVars, Looping, Unsealed, Published, NoVerdict
<1>5. LosersKnown'
  <2>1. Disqualified' = {}
    BY <1>1 DEF PrepareFails, OpenReplay, StartPlay, PlayInStep, Disqualified, loopVars
  <2> QED
    BY <2>1 DEF LosersKnown
<1> QED
  BY <1>1, <1>2, <1>3, <1>4, <1>5, QuietOffenders

LEMMA TurnsKeep ==
    ASSUME PlayInv, Turns
    PROVE  PlayInv'
<1> USE PlayTicksAssumption DEF PlayInv
<1>1. PICK turn \in [Players -> UNION {TurnOutcomes(bot[p]) : p \in Players}] :
          /\ \A p \in Players : turn[p] \in TurnOutcomes(bot[p])
          /\ bot' = [p \in Players |-> turn[p][1]]
          /\ act' = [p \in Players |-> turn[p][2]]
  BY DEF Turns
<1>2. \A p \in Players : /\ turn[p][1] \in {"ok", "dead", "invalid", "timeout"}
                         /\ turn[p][2] \in Acts
  <2> TAKE p \in Players
  <2>1. bot[p] \in {"ok", "dead", "invalid", "timeout"} /\ turn[p] \in TurnOutcomes(bot[p])
    BY <1>1 DEF PlayTypeOK
  <2> QED
    BY <2>1 DEF TurnOutcomes, Acts
<1>3. PlayTypeOK'
  BY <1>1, <1>2 DEF Turns, PlayTypeOK, fileVars
<1>4. PlayInStep' /\ FilesInStep'
  BY DEF Turns, PlayInStep, FilesInStep, PlayTypeOK, fileVars, Looping, Unsealed, Published
<1>5. LosersKnown' /\ OffendersLose'
  BY DEF Turns, LosersKnown, OffendersLose, PlayInStep, Looping, fileVars
<1> QED
  BY <1>3, <1>4, <1>5

\* Of two players, the one who is not disqualified wins.
LEMMA DecidesFairly ==
    ASSUME NEW named \in Winners, Disqualified # {}
    PROVE  Decides(named) \notin Disqualified
<1>1. Disqualified \subseteq Players
  BY DEF Disqualified
<1>2. CASE Disqualified = Players
  BY <1>2, PlayersAssumption DEF Decides, NoOne
<1>3. CASE Disqualified # Players
  <2>1. /\ Cardinality(Disqualified) \in Nat
        /\ Cardinality(Disqualified) <= 2 /\ Cardinality(Disqualified) # 2
        /\ Cardinality(Disqualified) # 0
    <3>1. IsFiniteSet(Disqualified) /\ Cardinality(Disqualified) \in Nat
      BY <1>1, PlayersAssumption, FS_Subset, FS_CardinalityType
    <3>2. Cardinality(Disqualified) <= 2 /\ Cardinality(Disqualified) # 2
      BY <1>1, <1>3, PlayersAssumption, FS_Subset
    <3>3. Cardinality(Disqualified) # 0
      BY <3>1, FS_EmptySet
    <3> QED
      BY <3>1, <3>2, <3>3
  <2>2. Cardinality(Disqualified) = 1
    BY <2>1
  <2>3. Decides(named) = CHOOSE p \in Players : p \notin Disqualified
    BY <1>3, <2>2, PlayersAssumption DEF Decides
  <2>4. \E p \in Players : p \notin Disqualified
    BY <1>1, <1>3
  <2> QED
    BY <2>3, <2>4
<1> QED
  BY <1>2, <1>3

LEMMA AdvanceKeeps ==
    ASSUME PlayInv, Advance
    PROVE  PlayInv'
<1> USE PlayTicksAssumption DEF PlayInv
<1>1. PICK over \in BOOLEAN, lead \in Winners :
          /\ engine' = [tick |-> tick + 1, lead |-> lead]
          /\ isOver' = (over \/ Disqualified # {})
          /\ winner' = Decides(IF lead # NoOne THEN lead ELSE winner)
  BY DEF Advance
<1>2. stage = "advance" /\ tick \in 0..MaxTicks /\ tick < MaxTicks /\ frames = tick + 1
      /\ tick' = tick + 1 /\ frames' = frames + 1 /\ stage' = "turns"
      /\ UNCHANGED <<bot, act, timedOut, verdict, sealed, plain, zst, committed, served>>
  BY DEF Advance, WriteSnapshot, PlayTypeOK, PlayInStep, Looping
<1> DEFINE named == IF lead # NoOne THEN lead ELSE winner
<1>3. named \in Winners
  BY DEF PlayTypeOK
<1>4. winner' \in Winners
  <2>1. CASE Disqualified # Players
    <3>1. \E p \in Players : p \notin Disqualified
      BY <2>1 DEF Disqualified
    <3>2. (CHOOSE p \in Players : p \notin Disqualified) \in Players
      BY <3>1
    <3> QED
      BY <1>1, <1>3, <2>1, <3>2 DEF Decides, Winners
  <2>2. CASE Disqualified = Players
    BY <1>1, <2>2 DEF Decides, Winners
  <2> QED
    BY <2>1, <2>2
<1>5. PlayTypeOK'
  BY <1>1, <1>2, <1>4 DEF PlayTypeOK
<1>6. PlayInStep' /\ FilesInStep'
  BY <1>1, <1>2 DEF PlayInStep, FilesInStep, PlayTypeOK, Looping, Unsealed, Published
<1>7. LosersKnown'
  <2>1. Disqualified' = Disqualified
    BY <1>2 DEF Disqualified
  <2>2. winner' = Decides(named)
    BY <1>1
  <2> QED
    BY <1>3, <2>1, <2>2, DecidesFairly DEF LosersKnown
<1>8. OffendersLose'
  BY <1>2 DEF OffendersLose, PlayInStep, Looping
<1> QED
  BY <1>5, <1>6, <1>7, <1>8

LEMMA AdvanceFailsKeeps ==
    ASSUME PlayInv, AdvanceFails
    PROVE  PlayInv'
<1> USE PlayTicksAssumption DEF PlayInv
<1>1. engine' \in [tick: 0..MaxTicks, lead: Winners]
  BY DEF AdvanceFails, PlayTypeOK, PlayInStep
<1>2. PlayTypeOK'
  BY <1>1 DEF AdvanceFails, DiscardReplay, PlayTypeOK, Places
<1>3. PlayInStep' /\ FilesInStep'
  BY DEF AdvanceFails, DiscardReplay, PlayInStep, FilesInStep, Looping, Unsealed, Published
<1>4. LosersKnown' /\ OffendersLose'
  BY DEF AdvanceFails, LosersKnown, OffendersLose, PlayInStep, Looping
<1> QED
  BY <1>2, <1>3, <1>4

LEMMA FinishKeeps ==
    ASSUME PlayInv, LoopEnds \/ Finish \/ FinishFails
    PROVE  PlayInv'
<1> USE PlayTicksAssumption DEF PlayInv
<1>1. CASE LoopEnds
  <2>1. PlayTypeOK' /\ PlayInStep' /\ FilesInStep'
    BY <1>1 DEF LoopEnds, PlayTypeOK, PlayInStep, FilesInStep, loopVars, fileVars, Looping,
       Unsealed, Published
  <2>2. LosersKnown' /\ OffendersLose'
    BY <1>1, QuietOffenders DEF LoopEnds, LosersKnown, Disqualified, loopVars
  <2> QED
    BY <2>1, <2>2
<1>2. CASE FinishFails
  <2>1. PlayTypeOK' /\ PlayInStep' /\ FilesInStep'
    BY <1>2 DEF FinishFails, Fails, PlayTypeOK, PlayInStep, FilesInStep, loopVars, fileVars,
       Looping, Unsealed, Published
  <2>2. LosersKnown' /\ OffendersLose'
    BY <1>2, QuietOffenders DEF FinishFails, Fails, LosersKnown, Disqualified, loopVars
  <2> QED
    BY <2>1, <2>2
<1>3. CASE Finish
  <2>1. PICK named \in Winners :
            /\ engine' = [tick |-> tick, lead |-> named]
            /\ verdict' = [reason |-> FinishReason, tick |-> tick,
                           winner |-> IF named # NoOne THEN named ELSE winner]
    BY <1>3 DEF Finish
  <2>2. /\ stage = "finish" /\ stage' = "seal"
        /\ UNCHANGED <<tick, bot, act, isOver, winner, timedOut, fileVars, committed, served>>
    BY <1>3 DEF Finish
  <2>3. FinishReason \in Reasons
    BY DEF FinishReason, Reasons
  <2>4. PlayTypeOK'
    BY <2>1, <2>2, <2>3 DEF PlayTypeOK, fileVars
  <2>5. PlayInStep' /\ FilesInStep'
    BY <2>1, <2>2 DEF PlayInStep, FilesInStep, fileVars, Looping, Unsealed, Published
  <2>6. LosersKnown'
    BY <2>2 DEF LosersKnown
  <2>7. OffendersLose'
    BY <2>1, <2>2 DEF OffendersLose, LosersKnown, Disqualified
  <2> QED
    BY <2>4, <2>5, <2>6, <2>7
<1> QED
  BY <1>1, <1>2, <1>3

\* From the seal on, nothing but the files and the commit change.
LEMMA SealedStepsKeep ==
    ASSUME PlayInv,
           \/ Seal \/ CompressZstd \/ CommitMatchResult \/ CommitFails \/ PublishPlain
           \/ PublishZst \/ WorkerCrashes \/ StreamReplay
    PROVE  PlayInv'
<1> USE PlayTicksAssumption DEF PlayInv
<1>1. UNCHANGED <<loopVars, verdict>>
  BY DEF Seal, Fails, CompressZstd, CommitMatchResult, CommitFails, PublishPlain, PublishZst,
     WorkerCrashes, StreamReplay
<1>2. OffendersLose'
  BY <1>1, QuietOffenders
<1>3. LosersKnown'
  <2>1. stage' \in {"turns", "finish"} => stage' = stage
    BY DEF Seal, Fails, CompressZstd, CommitMatchResult, CommitFails, PublishPlain,
       PublishZst, WorkerCrashes, StreamReplay
  <2> QED
    BY <1>1, <2>1 DEF LosersKnown, Disqualified, loopVars
<1>4. CASE Seal
  <2>1. CASE Fails /\ UNCHANGED fileVars
    BY <1>1, <1>2, <1>3, <1>4, <2>1 DEF Seal, Fails, PlayTypeOK, PlayInStep, FilesInStep,
       loopVars, fileVars, Looping, Unsealed, Published
  <2>2. CASE /\ Complete(tick) /\ sealed' = TRUE /\ stage' = "compress"
             /\ UNCHANGED <<loopVars, verdict, frames, plain, zst, committed, served>>
    <3>1. PlayTypeOK' /\ PlayInStep'
      BY <1>1, <1>4, <2>2 DEF Seal, PlayTypeOK, PlayInStep, loopVars, Looping
    <3>2. FilesInStep'
      BY <1>1, <1>4, <2>2 DEF Seal, PlayInStep, FilesInStep, loopVars, Looping, Unsealed,
         Published
    <3> QED
      BY <1>2, <1>3, <3>1, <3>2
  <2> QED
    BY <1>4, <2>1, <2>2 DEF Seal
<1>5. CASE CompressZstd \/ CommitMatchResult
  <2>1. PlayTypeOK' /\ PlayInStep'
    <3>1. /\ stage' \in {"commit", "publish"} /\ zst' \in Places /\ committed' \in BOOLEAN
          /\ UNCHANGED <<frames, sealed, plain, served>>
      BY <1>5 DEF CompressZstd, CommitMatchResult, fileVars, PlayTypeOK, Places
    <3>2. PlayTypeOK'
      BY <1>1, <3>1 DEF PlayTypeOK, loopVars
    <3> QED
      BY <3>1, <3>2 DEF PlayInStep, Looping
  <2>2. FilesInStep'
    BY <1>1, <1>5 DEF CompressZstd, CommitMatchResult, FilesInStep, loopVars, fileVars,
       Looping, Unsealed, Published, Places
  <2> QED
    BY <1>2, <1>3, <2>1, <2>2
<1>6. CASE CommitFails
  BY <1>1, <1>2, <1>3, <1>6 DEF CommitFails, DiscardReplay, PlayTypeOK, PlayInStep,
     FilesInStep, loopVars, Looping, Unsealed, Published, Places
<1>7. CASE PublishPlain \/ PublishZst
  BY <1>1, <1>2, <1>3, <1>7 DEF PublishPlain, PublishZst, PlayTypeOK, PlayInStep,
     FilesInStep, loopVars, Looping, Unsealed, Published, Places
<1>8. CASE WorkerCrashes
  BY <1>1, <1>2, <1>3, <1>8 DEF WorkerCrashes, PlayTypeOK, PlayInStep, FilesInStep, loopVars,
     fileVars, Looping, Unsealed, Published
<1>9. CASE StreamReplay
  BY <1>1, <1>2, <1>3, <1>9 DEF StreamReplay, PlayTypeOK, PlayInStep, FilesInStep, loopVars,
     fileVars
<1> QED
  BY <1>4, <1>5, <1>6, <1>7, <1>8, <1>9

LEMMA PlayStepKeeps == PlayInv /\ [PlayNext]_playVars => PlayInv'
<1> SUFFICES ASSUME PlayInv, [PlayNext]_playVars
             PROVE  PlayInv'
  OBVIOUS
<1>1. CASE UNCHANGED playVars
  BY <1>1 DEF playVars, PlayInv, PlayTypeOK, PlayInStep, FilesInStep, LosersKnown,
     OffendersLose, Disqualified, loopVars, fileVars
<1>2. CASE PlayNext
  BY <1>2, PreparationKeeps, TurnsKeep, AdvanceKeeps, AdvanceFailsKeeps, FinishKeeps,
     SealedStepsKeep DEF PlayNext, PlayStep
<1> QED
  BY <1>1, <1>2

LEMMA PlayInvariant == PlaySpec => []PlayInv
BY InitPlayInv, PlayStepKeeps, PTL DEF PlaySpec

\* The execution of a match is well typed; in particular the replay never has
\* more snapshots than the match may have ticks (executor.go, ndjson.go).
THEOREM PlayTyped == PlaySpec => []PlayTypeOK
<1>1. PlayInv => PlayTypeOK
  BY DEF PlayInv
<1> QED
  BY <1>1, PlayInvariant, PTL

\* A committed result names the tick the engine ended in, and the replay is sealed
\* with the snapshot of that tick (executor.go, Execute; ndjson.go, Complete).
THEOREM ResultsAreTheEngines == PlaySpec => []ResultIsEngines
<1>1. PlayInv => ResultIsEngines
  BY DEF PlayInv, FilesInStep, ResultIsEngines
<1> QED
  BY <1>1, PlayInvariant, PTL

\* A committed result has a readable replay wherever publishing stopped, and no
\* canonical file is without its commit (executor.go, replays.go).
THEOREM ReplaysBackResults == PlaySpec => []ReplayBacksResult
<1>1. PlayInv => ReplayBacksResult
  BY PlayTicksAssumption DEF PlayInv, FilesInStep, PlayTypeOK, ReplayBacksResult,
     GetReplaySucceeds, DecodeNDJSON, NoVerdict
<1> QED
  BY <1>1, PlayInvariant, PTL

\* Who is disqualified does not win, whatever the engine said in earlier ticks
\* (executor.go, the verdict after AdvanceTick and after FinishMatch).
THEOREM DisqualifiedLose == PlaySpec => []OffendersLose
<1>1. PlayInv => OffendersLose
  BY DEF PlayInv
<1> QED
  BY <1>1, PlayInvariant, PTL
=============================================================================
