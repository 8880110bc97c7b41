----------------------------- MODULE EngineClient -----------------------------
(***************************************************************************)
(* The supervisor of one engine process (src/src/engine/subprocess.go) and *)
(* the engine at the other end of its pipes, in the shape of the           *)
(* repository's own one (src/cmd/fake-engine/main.go) with the failure     *)
(* modes that program offers; besides, the process may die or stop         *)
(* answering at any moment.                                                *)
(*                                                                         *)
(* Every read is made by a goroutine of its own.  A call that gives up     *)
(* leaves that goroutine behind, and it takes the next line of the output  *)
(* although nobody waits for it any more.  Every write is made by the      *)
(* caller and has no deadline: it blocks while the pipe is full, and no    *)
(* cancellation ends it.  Only the reads of the handshake and the shutdown *)
(* have deadlines; the others wait for the engine until the execution is   *)
(* cancelled.  The caller is the executor: it stops calling after the      *)
(* first error and then closes the client.                                 *)
(***************************************************************************)
EXTENDS Integers, Sequences

CONSTANTS
    Modes,      \* the modes the engine is started in
    MatchTicks    \* bound: ticks of the match

AllModes == {"normal", "crash_on_start", "timeout_on_start", "invalid_json_on_start",
             "incompatible_version", "engine_error", "invalid_sequence",
             "crash_during_match", "mismatch_match_id", "timeout_on_tick",
             "large_message"}

ASSUME ModesAssumption == Modes \subseteq AllModes
ASSUME MaxTicksAssumption == MatchTicks \in Nat \ {0}

VARIABLES
    life,        \* lifecycle of the client
    call,        \* the method under way and where it is
    failed,      \* a method has returned an error
    ctxDone,     \* the context of the execution is cancelled
    sendSeq,     \* number of the next command
    expectSeq,   \* number the next message must have
    lastTick,    \* tick of the last result returned
    strays,      \* read goroutines whose caller has left
    waiting,     \* a goroutine of Close is in cmd.Wait
    stdinOpen,
    engineProc,  \* the operating system's view of the process
    mode,
    stdin,       \* commands the engine has not read
    stdout,      \* messages nobody has read
    engineSeq,   \* number of the engine's next message
    engineTick

clientSide == <<life, call, failed, ctxDone, sendSeq, expectSeq, lastTick, strays,
                waiting, stdinOpen>>
engineSide == <<mode, engineSeq, engineTick>>
engineVars == <<clientSide, engineProc, stdin, stdout, engineSide>>

NoCall == [op |-> "none", stage |-> "none"]
At(op, stage) == call = [op |-> op, stage |-> stage]
Ops == {"start", "initialize_match", "advance_tick", "finish_match", "close"}
Commands == {"initialize_match", "advance_tick", "finish_match", "shutdown"}
Messages == {"engine_ready", "match_initialized", "tick_completed", "match_completed",
             "shutdown_ack", "engine_error", "noise"}
\* The sequence number the invalid_sequence mode jumps to (9999 in the code).
BadSeq == 50

EngineTypeOK ==
    /\ life \in {"created", "started", "initialized", "running", "finished", "closed"}
    /\ \/ call = NoCall
       \/ call \in [op: Ops, stage: {"writing", "reading", "waiting"}]
    /\ failed \in BOOLEAN /\ ctxDone \in BOOLEAN
    /\ waiting \in BOOLEAN /\ stdinOpen \in BOOLEAN
    /\ sendSeq \in Nat \ {0} /\ expectSeq \in Nat \ {0}
    /\ engineSeq \in Nat \ {0}
    /\ lastTick \in 0..MatchTicks /\ engineTick \in 0..MatchTicks
    /\ strays \in 0..2
    /\ engineProc \in {"none", "running", "exited", "killed", "reaped"}
    /\ mode \in Modes
    /\ stdin \in Seq([type: Commands, tick: 0..MatchTicks])
    /\ stdout \in Seq([type: Messages, seq: Nat, tick: 0..MatchTicks, intact: BOOLEAN,
                       ours: BOOLEAN])

EngineInit ==
    /\ life = "created" /\ call = NoCall /\ failed = FALSE /\ ctxDone = FALSE
    /\ sendSeq = 1 /\ expectSeq = 1 /\ lastTick = 0 /\ strays = 0
    /\ waiting = FALSE /\ stdinOpen = FALSE
    /\ engineProc = "none" /\ mode \in Modes
    /\ stdin = <<>> /\ stdout = <<>>
    /\ engineSeq = 1 /\ engineTick = 0

-----------------------------------------------------------------------------
(* The calls of the client.                                                *)

Killed == IF engineProc = "running" THEN "killed" ELSE engineProc
Gone == engineProc \in {"exited", "killed", "reaped"}

\* A method that has had an error returns it; Start kills the process first.
GivesUp(op) ==
    /\ call' = NoCall
    /\ failed' = TRUE
    /\ engineProc' = IF op = "start" THEN Killed ELSE engineProc
    /\ UNCHANGED <<life, ctxDone, sendSeq, lastTick, waiting, stdinOpen, stdin, engineSide>>

Idle(states) == call = NoCall /\ ~failed /\ life \in states

\* The binary is missing, has another digest than the pinned one, or starts.
StartCall ==
    /\ Idle({"created"})
    /\ \/ GivesUp("none") /\ UNCHANGED <<expectSeq, strays, stdout>>
       \/ /\ engineProc' = "running"
          /\ stdinOpen' = TRUE
          /\ call' = [op |-> "start", stage |-> "reading"]
          /\ UNCHANGED <<life, failed, ctxDone, sendSeq, expectSeq, lastTick, strays,
                         waiting, stdin, stdout, engineSide>>

\* A method numbers its command, whatever becomes of it, and writes it.
Command(op) ==
    /\ sendSeq' = sendSeq + 1
    /\ call' = [op |-> op, stage |-> "writing"]
    /\ UNCHANGED <<life, failed, ctxDone, expectSeq, lastTick, strays, waiting, stdinOpen,
                   engineProc, stdin, stdout, engineSide>>

InitializeMatch == Idle({"started"}) /\ Command("initialize_match")

AdvanceTick ==
    /\ Idle({"initialized", "running"})
    /\ lastTick < MatchTicks
    /\ Command("advance_tick")

FinishMatch == Idle({"initialized", "running"}) /\ Command("finish_match")

Written(op) == [type |-> IF op = "close" THEN "shutdown" ELSE op, tick |-> lastTick]

\* The write returns: the engine has made room for the whole command, or it is
\* gone, which is an error and none of Close's concern.
Write(op) ==
    /\ At(op, "writing")
    /\ stdin' = IF Gone THEN stdin ELSE Append(stdin, Written(op))
    /\ IF Gone /\ op # "close"
       THEN failed' = TRUE /\ call' = NoCall
       ELSE call' = [op |-> op, stage |-> "reading"] /\ UNCHANGED failed
    /\ UNCHANGED <<life, ctxDone, sendSeq, expectSeq, lastTick, strays, waiting, stdinOpen,
                   engineProc, stdout, engineSide>>

\* Mutant: the number of a message is not compared with the expected one.
TakesNoSeq(l) == l.intact

\* A line that is too long, is not JSON, has another version or another
\* number is an error and is not counted.
Takes(l) == l.intact /\ l.seq = expectSeq

\* The line at the head of the output, read by the goroutine of this call.
Reads(op, l) ==
    /\ At(op, "reading")
    /\ stdout # <<>>
    /\ l = Head(stdout)
    /\ stdout' = Tail(stdout)
    /\ expectSeq' = IF Takes(l) THEN expectSeq + 1 ELSE expectSeq
    /\ UNCHANGED strays

Rejects(op, wanted) ==
    /\ \E l \in {Head(stdout)} : Reads(op, l) /\ ~(Takes(l) /\ l.ours /\ l.type \in wanted)
    /\ GivesUp(op)

Returns(state, tick) ==
    /\ life' = state
    /\ lastTick' = tick
    /\ call' = NoCall
    /\ UNCHANGED <<failed, ctxDone, sendSeq, waiting, stdinOpen, engineProc, stdin, engineSide>>

Accepts(op, wanted, state) ==
    \E l \in {Head(stdout)} :
        /\ Reads(op, l) /\ Takes(l) /\ l.ours /\ l.type \in wanted
        /\ Returns(state, IF op = "finish_match" THEN lastTick ELSE l.tick)

\* What each method does with the message it has been waiting for.
Answered(op, wanted, state) ==
    stdout # <<>> /\ (Accepts(op, wanted, state) \/ Rejects(op, wanted))

StartAnswered == Answered("start", {"engine_ready"}, "started")
InitializeAnswered == Answered("initialize_match", {"match_initialized"}, "initialized")
AdvanceAnswered == Answered("advance_tick", {"tick_completed", "match_completed"}, "running")
FinishAnswered == Answered("finish_match", {"match_completed"}, "finished")

Calls == Ops \ {"close"}

\* End of file: the process is gone and everything it wrote has been read.
OutputClosed(op) ==
    /\ At(op, "reading")
    /\ stdout = <<>> /\ Gone
    /\ GivesUp(op)
    /\ UNCHANGED <<expectSeq, strays, stdout>>

\* The deadline of the handshake, or the cancellation, while the read goes on.
ReadGivenUp(op) ==
    /\ At(op, "reading")
    /\ op = "start" \/ ctxDone
    /\ strays' = strays + 1
    /\ GivesUp(op)
    /\ UNCHANGED <<expectSeq, stdout>>

-----------------------------------------------------------------------------
(* Close.                                                                  *)

\* The executor defers it: after the match, and after any error.
CloseCall ==
    /\ call = NoCall
    /\ life \notin {"created", "closed"}
    /\ life' = "closed"
    /\ sendSeq' = sendSeq + 1
    /\ call' = [op |-> "close", stage |-> "writing"]
    /\ UNCHANGED <<failed, ctxDone, expectSeq, lastTick, strays, waiting, stdinOpen,
                   engineProc, stdin, stdout, engineSide>>

\* The input is closed and the process waited for, for a second at most.
WaitsForExit ==
    /\ call' = [op |-> "close", stage |-> "waiting"]
    /\ stdinOpen' = FALSE
    /\ waiting' = TRUE
    /\ UNCHANGED <<life, failed, ctxDone, sendSeq, lastTick, engineProc, stdin, engineSide>>

\* Messages other than the acknowledgement are skipped, errors end the loop.
CloseReads ==
    /\ stdout # <<>>
    /\ \E l \in {Head(stdout)} :
        /\ Reads("close", l)
        /\ IF Takes(l) /\ l.ours /\ l.type \notin {"shutdown_ack", "engine_error"}
           THEN UNCHANGED <<life, call, failed, ctxDone, sendSeq, lastTick, waiting,
                            stdinOpen, engineProc, stdin, engineSide>>
           ELSE WaitsForExit

\* A read of an earlier call is still in the same buffered reader, without a
\* lock: the two may also spoil the line for each other.
CloseReadsGarbled ==
    /\ At("close", "reading")
    /\ strays > 0 /\ stdout # <<>>
    /\ stdout' = Tail(stdout)
    /\ strays' = strays - 1
    /\ WaitsForExit
    /\ UNCHANGED expectSeq

CloseSeesEnd ==
    /\ At("close", "reading")
    /\ stdout = <<>> /\ Gone
    /\ WaitsForExit
    /\ UNCHANGED <<expectSeq, strays, stdout>>

CloseEnds(kill) ==
    /\ call' = NoCall
    /\ engineProc' = IF kill THEN Killed ELSE engineProc
    /\ UNCHANGED <<life, failed, ctxDone, sendSeq, expectSeq, lastTick, waiting,
                   stdinOpen, stdin, stdout, engineSide>>

\* Mutant: the acknowledgement is awaited without a deadline.
CloseNeverTimesOut == FALSE

\* The deadline passes.  The reading loop sees that too, and select may take
\* its error for an answer.
CloseTimesOut ==
    /\ At("close", "reading")
    /\ strays' = strays + 1
    /\ \/ CloseEnds(TRUE)
       \/ WaitsForExit /\ UNCHANGED <<expectSeq, stdout>>

CloseWaited ==
    /\ At("close", "waiting")
    /\ engineProc = "reaped"
    /\ CloseEnds(FALSE)
    /\ UNCHANGED strays

\* Mutant: when the second is over, Close just returns.
CloseWaitsNoMore ==
    /\ At("close", "waiting")
    /\ CloseEnds(FALSE)
    /\ UNCHANGED strays

CloseKills ==
    /\ At("close", "waiting")
    /\ CloseEnds(TRUE)
    /\ UNCHANGED strays

\* cmd.Wait closes the output under whoever still reads it.
WaitReaps ==
    /\ waiting
    /\ engineProc \in {"exited", "killed"}
    /\ engineProc' = "reaped"
    /\ waiting' = FALSE
    /\ stdout' = <<>>
    /\ UNCHANGED <<life, call, failed, ctxDone, sendSeq, expectSeq, lastTick, strays,
                   stdinOpen, stdin, engineSide>>

\* An abandoned read gets a line, or the end of the output, and is gone.
StrayReads ==
    /\ strays > 0
    /\ stdout # <<>> \/ Gone
    /\ stdout' = IF stdout = <<>> THEN stdout ELSE Tail(stdout)
    /\ strays' = strays - 1
    /\ UNCHANGED <<life, call, failed, ctxDone, sendSeq, expectSeq, lastTick, waiting,
                   stdinOpen, engineProc, stdin, engineSide>>

CancelCalls ==
    /\ ~ctxDone
    /\ ctxDone' = TRUE
    /\ UNCHANGED <<life, call, failed, sendSeq, expectSeq, lastTick, strays, waiting,
                   stdinOpen, engineProc, stdin, stdout, engineSide>>

-----------------------------------------------------------------------------
(* The engine.                                                             *)

Says(type, seq, tick) ==
    /\ stdout' = Append(stdout, [type |-> type, seq |-> seq, tick |-> tick,
                                 intact |-> TRUE, ours |-> mode # "mismatch_match_id"])
    /\ engineSeq' = seq + 1

Spoils(seq) ==
    /\ stdout' = Append(stdout, [type |-> "noise", seq |-> seq, tick |-> 0,
                                 intact |-> FALSE, ours |-> TRUE])
    /\ engineSeq' = seq + 1

Exits == engineProc' = "exited" /\ UNCHANGED <<engineSeq, stdout>>

EngineReady ==
    /\ engineProc = "running" /\ engineSeq = 1
    /\ CASE mode \in {"crash_on_start", "timeout_on_start"} -> Exits
         [] mode = "invalid_json_on_start" -> Spoils(1) /\ engineProc' = "exited"
         [] mode = "incompatible_version" -> Spoils(1) /\ UNCHANGED engineProc
         [] OTHER -> /\ stdout' = Append(stdout, [type |-> "engine_ready", seq |-> 1,
                                            tick |-> 0, intact |-> TRUE, ours |-> TRUE])
                     /\ engineSeq' = 2
                     /\ UNCHANGED engineProc
    /\ UNCHANGED <<clientSide, stdin, mode, engineTick>>

EngineGets(type) ==
    /\ engineProc = "running" /\ engineSeq > 1
    /\ stdin # <<>> /\ Head(stdin).type = type
    /\ stdin' = Tail(stdin)
    /\ UNCHANGED <<clientSide, mode>>

EngineInitializes ==
    /\ EngineGets("initialize_match")
    /\ CASE mode = "engine_error" ->
                Says("engine_error", engineSeq, 0) /\ UNCHANGED engineProc
         [] mode = "invalid_sequence" ->
                Says("match_initialized", BadSeq, 0) /\ UNCHANGED engineProc
         [] mode = "crash_during_match" -> Exits
         [] OTHER -> Says("match_initialized", engineSeq, 0) /\ UNCHANGED engineProc
    /\ UNCHANGED engineTick

EngineAdvances ==
    /\ EngineGets("advance_tick")
    /\ CASE mode = "timeout_on_tick" -> Exits /\ UNCHANGED engineTick
         [] mode = "large_message" -> Spoils(engineSeq) /\ UNCHANGED <<engineProc, engineTick>>
         [] OTHER -> /\ engineTick' = Head(stdin).tick + 1
                     /\ Says("tick_completed", engineSeq, engineTick')
                     /\ UNCHANGED engineProc

EngineFinishes ==
    /\ EngineGets("finish_match")
    /\ Says("match_completed", engineSeq, engineTick)
    /\ UNCHANGED <<engineProc, engineTick>>

EngineShutsDown ==
    /\ EngineGets("shutdown")
    /\ Says("shutdown_ack", engineSeq, 0)
    /\ engineProc' = "exited"
    /\ UNCHANGED engineTick

EngineInputEnds ==
    /\ engineProc = "running" /\ engineSeq > 1
    /\ stdin = <<>> /\ ~stdinOpen
    /\ engineProc' = "exited"
    /\ UNCHANGED <<clientSide, stdin, stdout, engineSide>>

EngineDies ==
    /\ engineProc = "running"
    /\ engineProc' = "exited"
    /\ UNCHANGED <<clientSide, stdin, stdout, engineSide>>

-----------------------------------------------------------------------------

Answers == StartAnswered \/ InitializeAnswered \/ AdvanceAnswered \/ FinishAnswered
WriteStep == \E op \in Ops : Write(op)
CallStep == \E op \in Calls : OutputClosed(op) \/ ReadGivenUp(op)
CloseStep == \/ CloseReads \/ CloseReadsGarbled \/ CloseSeesEnd \/ CloseTimesOut
             \/ CloseWaited \/ CloseKills

EngineNext ==
    \/ StartCall \/ InitializeMatch \/ AdvanceTick \/ FinishMatch
    \/ WriteStep \/ Answers \/ CallStep
    \/ CloseCall \/ CloseStep \/ WaitReaps \/ StrayReads
    \/ CancelCalls
    \/ EngineReady \/ EngineInitializes \/ EngineAdvances \/ EngineFinishes
    \/ EngineShutsDown \/ EngineInputEnds \/ EngineDies

\* The write finds its reader gone, or it is the shutdown's few bytes and the
\* pipe is empty.
WriteReturns == Gone \/ (At("close", "writing") /\ stdin = <<>>)

\* The goroutines of the client go on and its timers fire.  Nothing is asked
\* of the engine, so any other write may block for as long as the process runs;
\* and nobody has to cancel the execution.
EngineFairness ==
    /\ WF_engineVars(WriteReturns /\ WriteStep)
    /\ WF_engineVars(Answers \/ CallStep)
    /\ WF_engineVars(CloseStep)
    /\ WF_engineVars(WaitReaps)
    /\ WF_engineVars(StrayReads)

EngineSpec == EngineInit /\ [][EngineNext]_engineVars /\ EngineFairness

-----------------------------------------------------------------------------

\* As long as no call has failed, the client and the engine agree between two
\* calls: on the number of the next message, on the tick, and on nothing being
\* under way that a later call could take for its own answer.
InStep ==
    call = NoCall /\ ~failed /\ life \in {"started", "initialized", "running", "finished"}
    => /\ expectSeq = engineSeq
       /\ lastTick = engineTick
       /\ stdin = <<>> /\ stdout = <<>>
       /\ strays = 0

\* No engine runs on after Close has returned or Start has failed.
NoOrphan ==
    call = NoCall /\ (life = "closed" \/ (life = "created" /\ failed))
    => engineProc # "running"

\* What the deadlines of this client are worth.  Start returns whatever the
\* engine does; every method returns once the engine is gone; and Close returns
\* unless the engine lives and has left a command unread, when the shutdown's
\* write may block before any deadline is set.
DeadlinesHold ==
    \/ call.op = "start"
    \/ call # NoCall /\ Gone
    \/ call.op = "close" /\ (call.stage # "writing" \/ stdin = <<>>)
    ~> call = NoCall

\* Close cleans up the process: nothing is left of it in the process table.
CloseCleansUp ==
    (life = "closed" /\ call = NoCall) ~> (engineProc = "reaped")
===============================================================================
