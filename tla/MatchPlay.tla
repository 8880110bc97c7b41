------------------------------ MODULE MatchPlay ------------------------------
(***************************************************************************)
(* One execution of a match, from the engine's first answer to the         *)
(* published replay: the tick loop and the verdict                         *)
(* (src/src/executor/executor.go), the replay stream it writes             *)
(* (src/src/replay/ndjson.go) and the files of that replay                 *)
(* (src/src/service/replays.go), which a reader may ask for at any time.   *)
(*                                                                         *)
(* The engine advances one tick at a time and, when it is told to finish,  *)
(* reports a final tick, hash, reason and winner the executor compares     *)
(* with its own; each may disagree.  What a turn of a bot comes to is what *)
(* BotSession.tla says; the database is MatchPipeline.tla's.               *)
(***************************************************************************)
EXTENDS Integers, FiniteSets

CONSTANTS
    Players,
    MaxTicks     \* max_ticks of the manifest

\* The replay stream takes no other number of participants.
ASSUME PlayersAssumption ==
    IsFiniteSet(Players) /\ Cardinality(Players) = 2 /\ "" \notin Players
ASSUME PlayTicksAssumption == MaxTicks \in Nat \ {0}

VARIABLES
    stage,       \* how far Execute is
    tick,        \* currentTick
    bot,         \* bot[p]: what has become of the bot of p
    act,         \* act[p]: status of the input of p in this tick
    isOver,
    winner,      \* who has won, as the executor sees it
    timedOut,    \* terminationReason is "timeout"
    engine,      \* the engine's own state: its tick and who leads
    verdict,     \* reason, winner and tick of the sealed result
    frames,      \* snapshots in the replay
    sealed,      \* the result line is written
    plain,       \* where the .ndjson file is
    zst,         \* where the .ndjson.zst file is
    committed,   \* the result is committed
    served       \* what a reader was served last

loopVars == <<tick, bot, act, isOver, winner, timedOut, engine>>
fileVars == <<frames, sealed, plain, zst>>
playVars == <<stage, loopVars, verdict, fileVars, committed, served>>

NoOne == ""
Winners == Players \union {NoOne}
Acts == {"valid", "invalid_output", "crashed", "timeout", "disqualified"}
Reasons == {"timeout", "eliminated", "score_limit"}
NoVerdict == [reason |-> "none", winner |-> NoOne, tick |-> 0]
Places == {"none", "tmp", "final"}

PlayTypeOK ==
    /\ stage \in {"engine", "replay", "turns", "advance", "finish", "seal", "compress",
                  "commit", "publish", "publish_zst", "done", "failed", "crashed"}
    /\ tick \in 0..MaxTicks
    /\ bot \in [Players -> {"ok", "dead", "invalid", "timeout"}]
    /\ act \in [Players -> Acts]
    /\ isOver \in BOOLEAN /\ timedOut \in BOOLEAN
    /\ winner \in Winners
    /\ engine \in [tick: 0..MaxTicks, lead: Winners]
    /\ \/ verdict = NoVerdict
       \/ verdict \in [reason: Reasons, winner: Winners, tick: 0..MaxTicks]
    /\ frames \in 0..MaxTicks + 1
    /\ sealed \in BOOLEAN /\ committed \in BOOLEAN
    /\ plain \in Places /\ zst \in Places
    /\ served \in {"nothing", "partial", "sealed"}

PlayInit ==
    /\ stage = "engine"
    /\ tick = 0
    /\ bot = [p \in Players |-> "ok"]
    /\ act = [p \in Players |-> "valid"]
    /\ isOver = FALSE /\ winner = NoOne /\ timedOut = FALSE
    /\ engine = [tick |-> 0, lead |-> NoOne]
    /\ verdict = NoVerdict
    /\ frames = 0 /\ sealed = FALSE
    /\ plain = "none" /\ zst = "none"
    /\ committed = FALSE
    /\ served = "nothing"

-----------------------------------------------------------------------------
(* The replay stream.                                                      *)

\* Snapshots start at tick 0 and are sequential.
WriteSnapshot(t) ==
    /\ ~sealed /\ t = frames
    /\ frames' = frames + 1

\* The result seals the last snapshot.
Complete(t) == ~sealed /\ frames > 0 /\ t = frames - 1

\* DiscardReplay: a file that has been moved is out of its reach.
DiscardReplay ==
    /\ plain' = IF plain = "tmp" THEN "none" ELSE plain
    /\ zst' = IF zst = "tmp" THEN "none" ELSE zst
    /\ UNCHANGED <<frames, sealed>>

-----------------------------------------------------------------------------
(* The execution.                                                          *)

Fails == stage' = "failed" /\ UNCHANGED <<loopVars, verdict, committed, served>>

\* The engine does not initialize, or not at tick 0 with a perception each; or
\* the replay cannot be opened, when an empty file may be left.
PrepareFails ==
    /\ stage = "engine"
    /\ Fails
    /\ plain' \in {"none", "tmp"}
    /\ UNCHANGED <<frames, sealed, zst>>

OpenReplay ==
    /\ stage = "engine"
    /\ stage' = "replay"
    /\ plain' = "tmp"
    /\ UNCHANGED <<loopVars, verdict, frames, sealed, zst, committed, served>>

\* The first snapshot, and one process per bot.
StartPlay ==
    /\ stage = "replay"
    /\ \/ /\ WriteSnapshot(0)
          /\ stage' = "turns"
          /\ UNCHANGED <<loopVars, verdict, sealed, plain, zst, committed, served>>
       \/ Fails /\ UNCHANGED fileVars

\* ExecuteTurn of one bot: how it fares, and what its input reads as.
TurnOutcomes(state) ==
    CASE state = "ok" -> {<<"ok", "valid">>, <<"invalid", "invalid_output">>,
                          <<"timeout", "timeout">>, <<"dead", "crashed">>}
      [] state = "dead" -> {<<"dead", "crashed">>}
      [] state = "invalid" -> {<<"invalid", "disqualified">>}
      [] state = "timeout" -> {<<"timeout", "timeout">>}

Turns ==
    /\ stage = "turns"
    /\ ~isOver /\ tick < MaxTicks
    /\ \E turn \in [Players -> UNION {TurnOutcomes(bot[p]) : p \in Players}] :
        /\ \A p \in Players : turn[p] \in TurnOutcomes(bot[p])
        /\ bot' = [p \in Players |-> turn[p][1]]
        /\ act' = [p \in Players |-> turn[p][2]]
    /\ timedOut' = (timedOut \/ \E p \in Players : act'[p] = "timeout")
    /\ stage' = "advance"
    /\ UNCHANGED <<tick, isOver, winner, engine, verdict, fileVars, committed, served>>

\* Both reasons for a disqualified input; "timeout" is one with that detail.
Disqualified == {p \in Players : act[p] \in {"timeout", "disqualified"}}

\* Mutant: any player who is not disqualified has won, and one is found even
\* when nobody is left.
DecidesAnyone(named) ==
    IF Disqualified = {} THEN named
    ELSE CHOOSE p \in Players : p \notin Disqualified \/ Disqualified = Players

\* Whom the executor takes for the winner after a tick the engine completed.
Decides(named) ==
    IF Disqualified = Players THEN NoOne
    ELSE IF Cardinality(Players) = 2 /\ Cardinality(Disqualified) = 1
         THEN CHOOSE p \in Players : p \notin Disqualified
         ELSE named

\* The engine answers with the next tick, and the snapshot is written.
Advance ==
    /\ stage = "advance"
    /\ \E over \in BOOLEAN, lead \in Winners :
        /\ engine' = [tick |-> tick + 1, lead |-> lead]
        /\ isOver' = (over \/ Disqualified # {})
        /\ winner' = Decides(IF lead # NoOne THEN lead ELSE winner)
    /\ WriteSnapshot(tick + 1)
    /\ tick' = tick + 1
    /\ stage' = "turns"
    /\ UNCHANGED <<bot, act, timedOut, verdict, sealed, plain, zst, committed, served>>

\* The engine fails, answers for another tick or without the perceptions, or
\* the snapshot cannot be written: the only errors that discard the replay
\* before the commit.  The engine may have advanced.
AdvanceFails ==
    /\ stage = "advance"
    /\ engine' \in {engine, [engine EXCEPT !.tick = tick + 1]}
    /\ stage' = "failed"
    /\ DiscardReplay
    /\ UNCHANGED <<tick, bot, act, isOver, winner, timedOut, verdict, committed, served>>

FinishReason ==
    IF timedOut THEN "timeout" ELSE IF winner # NoOne THEN "eliminated" ELSE "score_limit"

LoopEnds ==
    /\ stage = "turns"
    /\ isOver \/ tick = MaxTicks
    /\ stage' = "finish"
    /\ UNCHANGED <<loopVars, verdict, fileVars, committed, served>>

\* Mutant: the engine's final tick is not compared with the loop's.
FinishUnchecked ==
    /\ stage = "finish"
    /\ \E named \in Winners, t \in 0..MaxTicks :
        /\ engine' = [tick |-> t, lead |-> named]
        /\ verdict' = [reason |-> FinishReason, tick |-> tick,
                       winner |-> IF named # NoOne THEN named ELSE winner]
    /\ stage' = "seal"
    /\ UNCHANGED <<tick, bot, act, isOver, winner, timedOut, fileVars, committed, served>>

\* The engine's final report: its winner is taken, the rest must agree.
Finish ==
    /\ stage = "finish"
    /\ \E named \in Winners, t \in 0..MaxTicks :
        /\ engine' = [tick |-> t, lead |-> named]
        /\ t = tick
        /\ verdict' = [reason |-> FinishReason, tick |-> tick,
                       winner |-> IF named # NoOne THEN named ELSE winner]
    /\ stage' = "seal"
    /\ UNCHANGED <<tick, bot, act, isOver, winner, timedOut, fileVars, committed, served>>

\* No report, or one with another tick, reason, hash, or without scores.
FinishFails == stage = "finish" /\ Fails /\ UNCHANGED fileVars

Seal ==
    /\ stage = "seal"
    /\ \/ /\ Complete(tick)
          /\ sealed' = TRUE
          /\ stage' = "compress"
          /\ UNCHANGED <<loopVars, verdict, frames, plain, zst, committed, served>>
       \/ Fails /\ UNCHANGED fileVars

\* Without zstd, or when it fails, the plain file alone is the replay.
CompressZstd ==
    /\ stage = "compress"
    /\ zst' \in {"none", "tmp"}
    /\ stage' = "commit"
    /\ UNCHANGED <<loopVars, verdict, frames, sealed, plain, committed, served>>

CommitMatchResult ==
    /\ stage = "commit"
    /\ stage' = "publish"
    /\ committed' = TRUE
    /\ UNCHANGED <<loopVars, verdict, fileVars, served>>

CommitFails ==
    /\ stage = "commit"
    /\ stage' = "failed"
    /\ DiscardReplay
    /\ UNCHANGED <<loopVars, verdict, committed, served>>

\* PublishReplay moves one file after the other and gives up at a failure,
\* which Execute only logs.
PublishPlain ==
    /\ stage = "publish"
    /\ \/ plain' = "final" /\ stage' = "publish_zst"
       \/ plain' = plain /\ stage' = "done"
    /\ UNCHANGED <<loopVars, verdict, frames, sealed, zst, committed, served>>

\* Mutant: what could not be moved is discarded.
PublishZstOrDiscard ==
    /\ stage = "publish_zst"
    /\ stage' = "done"
    /\ \/ zst' = (IF zst = "tmp" THEN "final" ELSE zst) /\ UNCHANGED plain
       \/ zst' = "none" /\ plain' = "none"
    /\ UNCHANGED <<loopVars, verdict, frames, sealed, committed, served>>

PublishZst ==
    /\ stage = "publish_zst"
    /\ stage' = "done"
    /\ zst' \in {zst, IF zst = "tmp" THEN "final" ELSE zst}
    /\ UNCHANGED <<loopVars, verdict, frames, sealed, plain, committed, served>>

Over == stage \in {"done", "failed", "crashed"}

WorkerCrashes ==
    /\ ~Over
    /\ stage' = "crashed"
    /\ UNCHANGED <<loopVars, verdict, fileVars, committed, served>>

\* StreamReplay serves the first file there is, the canonical ones first.
StreamReplay ==
    /\ plain # "none" \/ zst # "none"
    /\ served' = IF sealed THEN "sealed" ELSE "partial"
    /\ UNCHANGED <<stage, loopVars, verdict, fileVars, committed>>

\* Only a sealed replay of at least one snapshot can be decoded.
DecodeNDJSON == sealed /\ frames > 0

GetReplaySucceeds == (plain # "none" \/ zst # "none") /\ DecodeNDJSON

-----------------------------------------------------------------------------

PlayStep ==
    \/ PrepareFails \/ OpenReplay \/ StartPlay
    \/ Turns \/ Advance \/ AdvanceFails \/ LoopEnds
    \/ Finish \/ FinishFails \/ Seal \/ CompressZstd
    \/ CommitMatchResult \/ CommitFails \/ PublishPlain \/ PublishZst

PlayNext == PlayStep \/ WorkerCrashes \/ StreamReplay

PlaySpec == PlayInit /\ [][PlayNext]_playVars

-----------------------------------------------------------------------------

\* What is committed is the state the engine ended in, and the last snapshot
\* and the result line of the replay say the same.
ResultIsEngines ==
    committed => /\ verdict.tick = engine.tick
                 /\ sealed /\ frames = verdict.tick + 1

\* A file in its canonical place belongs to a committed result, and a committed
\* result has a replay that can be read, also when the worker dies between the
\* moves or one of them fails.
ReplayBacksResult ==
    /\ plain = "final" \/ zst = "final" => committed
    /\ committed => GetReplaySucceeds

\* When disqualifications ended a match of two and the engine names nobody, the
\* winner is the player who was not disqualified, if there is one.
OffendersLose ==
    (verdict # NoVerdict /\ Disqualified # {} /\ engine.lead = NoOne)
    => verdict.winner \notin Disqualified

\* Nobody wins a match that a disqualification ended in a tick in which every
\* bot failed, unless the engine says so.
BothFailNobodyWins ==
    (verdict # NoVerdict /\ engine.lead = NoOne /\ Disqualified # {}
        /\ \A p \in Players : act[p] # "valid")
    => verdict.winner = NoOne

\* Only sealed replays are served.
ServedIsSealed == served # "partial"

\* A failed execution leaves no file behind.
FailedIsPurged == stage = "failed" => plain = "none" /\ zst = "none"
===============================================================================
