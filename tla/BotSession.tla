------------------------------ MODULE BotSession ------------------------------
(***************************************************************************)
(* The bots of one match: the session that asks each of them for an action *)
(* once a tick (src/src/executor/bot_session.go), the process every bot    *)
(* runs in, and the goroutine that reads the lines of that process.        *)
(*                                                                         *)
(* Lines go through two pipes and one unbuffered channel: the session      *)
(* writes to the process, the process writes to its output, the reader     *)
(* takes a line from there and hands it over when the session receives.    *)
(* Nobody tells the reader whether a line is asked for, and nothing makes  *)
(* the process read what it is sent.                                       *)
(*                                                                         *)
(* Bots \ EagerBots answer every perception they read, when they like and  *)
(* with its tick, and write nothing else.  EagerBots write whatever they   *)
(* like whenever they like: answers in advance, wrong ticks, noise.        *)
(***************************************************************************)
EXTENDS Integers, Sequences

CONSTANTS
    Bots,
    EagerBots,
    LastTick,   \* bound: the last tick the bots are asked for
    PipeSize    \* how many messages the pipe to a process holds

ASSUME BotsAssumption == EagerBots \subseteq Bots
ASSUME BotTicksAssumption == LastTick \in Nat
ASSUME PipeAssumption == PipeSize \in Nat /\ PipeSize >= 3

VARIABLES
    session,    \* "new", "open", "closing", "closed"
    now,        \* the tick the bots are asked for
    todo,       \* the bots not asked yet in this tick
    turn,       \* the bot whose turn is under way, and how far it is
    cancelled,  \* the context of the execution is cancelled
    conn,       \* conn[b]: connected
    cause,      \* cause[b]: why b is disqualified, "" if it is not
    status,     \* status[b]: what the session answered to the last turn of b
    proc,       \* proc[b]: the operating system's view of the process
    pipe,       \* pipe[b]: messages the process has not read
    owes,       \* owes[b]: the ticks b has read and not answered
    out,        \* out[b]: lines written and not read by the reader
    reader,     \* reader[b]: the reader goroutine
    line        \* line[b]: the line it is handing over

sessionVars == <<session, now, todo, turn, cancelled>>
clientVars == <<conn, cause, status>>
botVars == <<sessionVars, clientVars, proc, pipe, owes, out, reader, line>>

NoTick == -1
Ticks == 0..LastTick
\* A message to a bot: a perception of a tick, or one that asks for nothing
\* (init, end).  A line from it: an action of a tick, or noise.
Lines == Ticks \union {NoTick}
NoTurn == [bot |-> "none", stage |-> "none"]
Causes == {"", "timeout", "invalid_output", "tick_mismatch"}
Statuses == {"none", "valid", "invalid_output", "crashed", "disqualified"}

BotTypeOK ==
    /\ session \in {"new", "open", "closing", "closed"}
    /\ now \in Ticks
    /\ todo \subseteq Bots
    /\ \/ turn = NoTurn
       \/ turn \in [bot: Bots, stage: {"sending", "receiving"}]
    /\ cancelled \in BOOLEAN
    /\ conn \in [Bots -> BOOLEAN]
    /\ cause \in [Bots -> Causes]
    /\ status \in [Bots -> Statuses]
    /\ proc \in [Bots -> {"none", "running", "exited", "reaped"}]
    /\ pipe \in [Bots -> Seq(Lines)]
    /\ owes \in [Bots -> Seq(Ticks)]
    /\ out \in [Bots -> Seq(Lines)]
    /\ reader \in [Bots -> {"none", "scanning", "handing", "ended"}]
    /\ line \in [Bots -> Lines]

BotInit ==
    /\ session = "new"
    /\ now = 0
    /\ todo = Bots
    /\ turn = NoTurn
    /\ cancelled = FALSE
    /\ conn = [b \in Bots |-> FALSE]
    /\ cause = [b \in Bots |-> ""]
    /\ status = [b \in Bots |-> "none"]
    /\ proc = [b \in Bots |-> "none"]
    /\ pipe = [b \in Bots |-> <<>>]
    /\ owes = [b \in Bots |-> <<>>]
    /\ out = [b \in Bots |-> <<>>]
    /\ reader = [b \in Bots |-> "none"]
    /\ line = [b \in Bots |-> NoTick]

-----------------------------------------------------------------------------
(* The session.                                                            *)

\* Mutant: the process is told to go but not killed.
DisconnectOnly(b) ==
    /\ conn' = [conn EXCEPT ![b] = FALSE]
    /\ UNCHANGED <<proc, pipe, owes>>

\* What a process has not read, or not answered yet, goes with it.
Forget(b) ==
    /\ pipe' = [pipe EXCEPT ![b] = <<>>]
    /\ owes' = [owes EXCEPT ![b] = <<>>]

\* Close the pipe, kill the process and wait for it, the first time only.
Disconnect(b) ==
    /\ conn' = [conn EXCEPT ![b] = FALSE]
    /\ proc' = [proc EXCEPT ![b] = IF @ = "none" THEN @ ELSE "reaped"]
    /\ Forget(b)

Disqualify(b, why) ==
    /\ cause' = [cause EXCEPT ![b] = why]
    /\ Disconnect(b)

Answer(b, s) ==
    /\ status' = [status EXCEPT ![b] = s]
    /\ todo' = todo \ {b}
    /\ turn' = NoTurn
    /\ UNCHANGED <<session, now, cancelled>>

\* Every bot is spawned and sent init.  One that cannot be, or that is gone
\* before init is written, is replaced by a process that never was connected.
StartSession(fails, gone) ==
    /\ session = "new"
    /\ session' = "open"
    /\ conn' = [b \in Bots |-> b \notin fails \union gone]
    /\ proc' = [b \in Bots |-> IF b \in fails THEN "none"
                               ELSE IF b \in gone THEN "reaped" ELSE "running"]
    /\ pipe' = [b \in Bots |-> IF conn'[b] THEN <<NoTick>> ELSE <<>>]
    /\ reader' = [b \in Bots |-> IF b \in fails THEN "none" ELSE "scanning"]
    /\ UNCHANGED <<now, todo, turn, cancelled, cause, status, owes, out, line>>

BeginTurn(b) ==
    /\ session = "open" /\ turn = NoTurn /\ b \in todo
    /\ \/ cause[b] # "" /\ Answer(b, "disqualified")
       \/ cause[b] = "" /\ ~conn[b] /\ Answer(b, "crashed")
       \/ /\ cause[b] = "" /\ conn[b]
          /\ turn' = [bot |-> b, stage |-> "sending"]
          /\ UNCHANGED <<session, now, todo, cancelled, status>>
    /\ UNCHANGED <<conn, cause, proc, pipe, owes, out, reader, line>>

\* The write of the perception has no deadline: it waits for room in the pipe.
SendPerception(b) ==
    /\ turn = [bot |-> b, stage |-> "sending"]
    /\ proc[b] = "running" /\ Len(pipe[b]) < PipeSize
    /\ pipe' = [pipe EXCEPT ![b] = Append(@, now)]
    /\ turn' = [turn EXCEPT !.stage = "receiving"]
    /\ UNCHANGED <<session, now, todo, cancelled, clientVars, proc, owes, out,
                   reader, line>>

SendFails(b) ==
    /\ turn = [bot |-> b, stage |-> "sending"]
    /\ proc[b] # "running"
    /\ Disconnect(b)
    /\ Answer(b, "crashed")
    /\ UNCHANGED <<cause, out, reader, line>>

Receiving(b) == turn = [bot |-> b, stage |-> "receiving"]

\* recv: whichever of its four cases select takes when several are ready.
TakeLine(b) ==
    /\ Receiving(b)
    /\ reader[b] = "handing"
    /\ reader' = [reader EXCEPT ![b] = "scanning"]
    /\ line' = [line EXCEPT ![b] = NoTick]
    /\ \/ /\ line[b] = NoTick
          /\ Disqualify(b, "invalid_output")
          /\ Answer(b, "invalid_output")
       \/ /\ line[b] \notin {NoTick, now}
          /\ Disqualify(b, "tick_mismatch")
          /\ Answer(b, "invalid_output")
       \/ /\ line[b] = now
          /\ Answer(b, "valid")
          /\ UNCHANGED <<conn, cause, proc, pipe, owes>>
    /\ UNCHANGED out

OutputEnds(b) ==
    /\ Receiving(b)
    /\ reader[b] = "ended"
    /\ Disconnect(b)
    /\ Answer(b, "crashed")
    /\ UNCHANGED <<cause, out, reader, line>>

\* Mutant: a bot that is late loses its turn but stays in the match.
TurnTimesOutLenient(b) ==
    /\ Receiving(b)
    /\ Answer(b, "disqualified")
    /\ UNCHANGED <<conn, cause, proc, pipe, owes, out, reader, line>>

\* Mutant: recv waits for a line, the end of the output or a cancellation.
NeverTimesOut(b) ==
    /\ Receiving(b)
    /\ cancelled
    /\ Disqualify(b, "timeout")
    /\ Answer(b, "disqualified")
    /\ UNCHANGED <<out, reader, line>>

TurnTimesOut(b) ==
    /\ Receiving(b)
    /\ Disqualify(b, "timeout")
    /\ Answer(b, "disqualified")
    /\ UNCHANGED <<out, reader, line>>

TurnCancelled(b) ==
    /\ Receiving(b)
    /\ cancelled
    /\ Disconnect(b)
    /\ Answer(b, "crashed")
    /\ UNCHANGED <<cause, out, reader, line>>

NextTick ==
    /\ session = "open" /\ turn = NoTurn /\ todo = {}
    /\ now < LastTick
    /\ now' = now + 1
    /\ todo' = Bots
    /\ UNCHANGED <<session, turn, cancelled, clientVars, proc, pipe, owes, out,
                   reader, line>>

\* The executor closes the session after any tick, also when it is cancelled.
CloseSession ==
    /\ session = "open" /\ turn = NoTurn
    /\ session' = "closing"
    /\ UNCHANGED <<now, todo, turn, cancelled, clientVars, proc, pipe, owes,
                   out, reader, line>>

\* Close, for one process: the farewell waits for room in the pipe as well.
CloseBot(b) ==
    /\ session = "closing"
    /\ conn[b]
    /\ proc[b] = "running" => Len(pipe[b]) < PipeSize
    /\ Disconnect(b)
    /\ UNCHANGED <<sessionVars, cause, status, out, reader, line>>

CloseReturns ==
    /\ session = "closing"
    /\ \A b \in Bots : ~conn[b]
    /\ session' = "closed"
    /\ UNCHANGED <<now, todo, turn, cancelled, clientVars, proc, pipe, owes,
                   out, reader, line>>

\* The heartbeat of the worker gives the job up.
CancelExecution ==
    /\ ~cancelled
    /\ cancelled' = TRUE
    /\ UNCHANGED <<session, now, todo, turn, clientVars, proc, pipe, owes, out,
                   reader, line>>

-----------------------------------------------------------------------------
(* The reader goroutine and the process.                                   *)

\* Lines the scanner has buffered are read even after the process is reaped.
ReadLine(b) ==
    /\ reader[b] = "scanning"
    /\ out[b] # <<>>
    /\ reader' = [reader EXCEPT ![b] = "handing"]
    /\ line' = [line EXCEPT ![b] = Head(out[b])]
    /\ out' = [out EXCEPT ![b] = Tail(@)]
    /\ UNCHANGED <<sessionVars, clientVars, proc, pipe, owes>>

\* Mutant: the reader does not notice that Wait has closed the pipe.
ReaderEndsAtEOF(b) ==
    /\ reader[b] = "scanning"
    /\ proc[b] = "exited" /\ out[b] = <<>>
    /\ reader' = [reader EXCEPT ![b] = "ended"]
    /\ UNCHANGED <<sessionVars, clientVars, proc, pipe, owes, out, line>>

\* End of file, or Wait has closed the pipe under the reader.
ReaderEnds(b) ==
    /\ reader[b] = "scanning"
    /\ proc[b] = "reaped" \/ (proc[b] = "exited" /\ out[b] = <<>>)
    /\ reader' = [reader EXCEPT ![b] = "ended"]
    /\ UNCHANGED <<sessionVars, clientVars, proc, pipe, owes, out, line>>

BotReads(b) ==
    /\ proc[b] = "running"
    /\ pipe[b] # <<>>
    /\ pipe' = [pipe EXCEPT ![b] = Tail(@)]
    /\ owes' = [owes EXCEPT ![b] = IF Head(pipe[b]) \in Ticks
                                   THEN Append(@, Head(pipe[b])) ELSE @]
    /\ UNCHANGED <<sessionVars, clientVars, proc, out, reader, line>>

BotAnswers(b) ==
    /\ proc[b] = "running"
    /\ b \notin EagerBots
    /\ owes[b] # <<>>
    /\ out' = [out EXCEPT ![b] = Append(@, Head(owes[b]))]
    /\ owes' = [owes EXCEPT ![b] = Tail(@)]
    /\ UNCHANGED <<sessionVars, clientVars, proc, pipe, reader, line>>

\* Bound: one line at a time on its way to the reader.
BotWrites(b, l) ==
    /\ proc[b] = "running"
    /\ b \in EagerBots
    /\ out[b] = <<>>
    /\ out' = [out EXCEPT ![b] = <<l>>]
    /\ UNCHANGED <<sessionVars, clientVars, proc, pipe, owes, reader, line>>

BotExits(b) ==
    /\ proc[b] = "running"
    /\ proc' = [proc EXCEPT ![b] = "exited"]
    /\ Forget(b)
    /\ UNCHANGED <<sessionVars, clientVars, out, reader, line>>

-----------------------------------------------------------------------------

Receive(b) == TakeLine(b) \/ OutputEnds(b) \/ TurnTimesOut(b) \/ TurnCancelled(b)
Send(b) == SendPerception(b) \/ SendFails(b)
Reader(b) == ReadLine(b) \/ ReaderEnds(b)
Closing == CloseReturns \/ \E b \in Bots : CloseBot(b)

SessionStep ==
    \/ \E fails, gone \in SUBSET Bots : fails \intersect gone = {} /\ StartSession(fails, gone)
    \/ \E b \in Bots : BeginTurn(b) \/ Send(b) \/ Receive(b)
    \/ NextTick \/ CloseSession \/ Closing \/ CancelExecution

ProcessStep ==
    \E b \in Bots :
        \/ Reader(b) \/ BotReads(b) \/ BotAnswers(b) \/ BotExits(b)
        \/ \E l \in Lines : BotWrites(b, l)

BotNext == SessionStep \/ ProcessStep

\* Writes with room in the pipe return, select does not wait past its timer,
\* Close goes on, and a reader with something to read is scheduled.  Nothing
\* is asked of the bots, nor that the executor asks for another turn.
BotFairness ==
    \A b \in Bots : /\ WF_botVars(Send(b))
                    /\ WF_botVars(Receive(b))
                    /\ WF_botVars(CloseBot(b))
                    /\ WF_botVars(Reader(b))

BotSpec == BotInit /\ [][BotNext]_botVars /\ BotFairness /\ WF_botVars(CloseReturns)

-----------------------------------------------------------------------------

\* A bot that answers what it is asked, late or not, is never blamed for a
\* wrong tick or for noise: a late answer is not taken for the next turn's.
HonestNotBlamed ==
    \A b \in Bots \ EagerBots : cause[b] \in {"", "timeout"}

\* No process of a bot outlives its session, however its last turn ended.
NoneOutlivesSession ==
    session = "closed" => \A b \in Bots : proc[b] \in {"none", "reaped"}

\* A turn of a bot that reads before it writes comes to an end, whether the
\* bot answers, hangs, exits or is slow.
TurnEnds ==
    \A b \in Bots \ EagerBots : (turn.bot = b) ~> (turn.bot # b)

\* A turn of any bot comes to an end.
EveryTurnEnds ==
    \A b \in Bots : (turn.bot = b) ~> (turn.bot # b)

\* A reader outlives the session only while it holds a line nobody will take.
ReadersSettle ==
    (session = "closed") ~> \A b \in Bots : reader[b] # "scanning"
===============================================================================
