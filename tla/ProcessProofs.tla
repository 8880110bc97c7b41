----------------------------- MODULE ProcessProofs -----------------------------
(***************************************************************************)
(* Proofs about the two kinds of process an execution talks to: BotSession,*)
(* for any bots, ticks and size of the pipe, and EngineClient, for any     *)
(* modes and any number of ticks.                                          *)
(***************************************************************************)
EXTENDS BotSession, EngineClient, SequenceTheorems, TLAPS

-----------------------------------------------------------------------------
(* BotSession.                                                             *)

\* The perception of this tick is in the pipe of b.
AskedNow(b) == pipe[b] \in {<<now>>, <<NoTick, now>>}

\* Of a connected bot that answers what it is asked, there is one message of the
\* tick on its way at most, as a perception, in the process, in its output or
\* with the reader, and none outside the turn of that bot.
HonestInStep(b) == conn[b] =>
    /\ pipe[b] \in {<<>>, <<NoTick>>, <<now>>, <<NoTick, now>>}
    /\ owes[b] \in {<<>>, <<now>>}
    /\ out[b] \in {<<>>, <<now>>}
    /\ reader[b] = "handing" => Receiving(b) /\ line[b] = now
    /\ out[b] # <<>> => Receiving(b) /\ reader[b] # "handing"
    /\ owes[b] # <<>> => Receiving(b) /\ out[b] = <<>> /\ reader[b] # "handing"
    /\ AskedNow(b) => Receiving(b) /\ owes[b] = <<>> /\ out[b] = <<>> /\ reader[b] # "handing"

HonestOnesInStep == \A b \in Bots \ EagerBots : HonestInStep(b)

\* Whoever is not connected has been waited for.
Reaped == \A b \in Bots : ~conn[b] => proc[b] \in {"none", "reaped"}

\* A turn is one of a connected bot in an open session.
TurnsSound == turn # NoTurn => session = "open" /\ conn[turn.bot] /\ cause[turn.bot] = ""

SessionSound ==
    /\ session = "new" => \A b \in Bots :
           /\ proc[b] = "none" /\ reader[b] = "none" /\ ~conn[b]
           /\ owes[b] = <<>> /\ out[b] = <<>> /\ turn = NoTurn
    /\ session = "closed" => \A b \in Bots : ~conn[b]

BotInv == /\ BotTypeOK /\ HonestOnesInStep /\ Reaped /\ TurnsSound /\ SessionSound
          /\ HonestNotBlamed

LEMMA ShortSequences ==
    ASSUME NEW x, NEW y
    PROVE  /\ Append(<<>>, x) = <<x>> /\ Append(<<x>>, y) = <<x, y>>
           /\ Head(<<x>>) = x /\ Tail(<<x>>) = <<>>
           /\ Head(<<x, y>>) = x /\ Tail(<<x, y>>) = <<y>>
           /\ <<x>> # <<>> /\ <<x, y>> # <<>> /\ <<x, y>> # <<x>> /\ <<x, y>> # <<y>>
           /\ <<x>> = <<y>> => x = y
<1>1. <<x>> \in Seq({x, y}) /\ <<x, y>> \in Seq({x, y})
  OBVIOUS
<1>2. /\ Append(<<x>>, y) \in Seq({x, y})
      /\ Len(Append(<<x>>, y)) = 2
      /\ Append(<<x>>, y)[1] = x /\ Append(<<x>>, y)[2] = y
  BY <1>1, AppendProperties
<1>3. \A i \in 1..Len(<<x, y>>) : Append(<<x>>, y)[i] = <<x, y>>[i]
  BY <1>2
<1>4. Append(<<x>>, y) = <<x, y>>
  BY <1>1, <1>2, <1>3, SeqEqual
<1> QED
  BY <1>4

\* A turn under way, as a record.
LEMMA TurnRecords ==
    ASSUME NEW b \in Bots, NEW s \in {"sending", "receiving"}
    PROVE  /\ [bot |-> b, stage |-> s] \in [bot: Bots, stage: {"sending", "receiving"}]
           /\ [bot |-> b, stage |-> s] # NoTurn
           /\ [bot |-> b, stage |-> s].bot = b /\ [bot |-> b, stage |-> s].stage = s
<1> DEFINE t == [bot |-> b, stage |-> s]
<1>1. t.bot = b /\ t.stage = s /\ t \in [bot: Bots, stage: {"sending", "receiving"}]
  OBVIOUS
<1>2. NoTurn.stage = "none" /\ s # "none"
  BY DEF NoTurn
<1> QED
  BY <1>1, <1>2

LEMMA FirstTick ==
    0 \in Ticks /\ NoTick \in Lines /\ <<>> \in Seq(Lines) /\ <<>> \in Seq(Ticks)
BY BotTicksAssumption DEF Ticks, Lines

LEMMA InitBotInv == BotInit => BotInv
<1> SUFFICES ASSUME BotInit
             PROVE  BotInv
  OBVIOUS
<1> USE BotTicksAssumption DEF BotInit
<1>1. BotTypeOK
  <2>1. "" \in Causes /\ "none" \in Statuses
    BY DEF Causes, Statuses
  <2> QED
    BY <2>1, FirstTick DEF BotTypeOK
<1>2. HonestOnesInStep /\ Reaped /\ TurnsSound /\ SessionSound /\ HonestNotBlamed
  BY DEF HonestOnesInStep, HonestInStep, Reaped, TurnsSound, SessionSound, HonestNotBlamed
<1> QED
  BY <1>1, <1>2 DEF BotInv

-----------------------------------------------------------------------------
(* The session.                                                            *)

LEMMA StartKeeps ==
    ASSUME BotInv, NEW fails \in SUBSET Bots, NEW gone \in SUBSET Bots,
           StartSession(fails, gone)
    PROVE  BotInv'
<1> USE DEF BotInv, StartSession
<1>1. \A b \in Bots : /\ pipe'[b] \in {<<>>, <<NoTick>>}
                      /\ reader'[b] \in {"none", "scanning"}
                      /\ owes'[b] = <<>> /\ out'[b] = <<>>
  BY DEF SessionSound, BotTypeOK
<1>2. BotTypeOK'
  <2>1. <<>> \in Seq(Lines) /\ <<NoTick>> \in Seq(Lines)
    BY DEF Lines
  <2>2. pipe' \in [Bots -> Seq(Lines)]
    BY <1>1, <2>1
  <2> QED
    BY <2>2 DEF BotTypeOK
<1>3. HonestOnesInStep'
  <2> SUFFICES ASSUME NEW b \in Bots \ EagerBots
               PROVE  HonestInStep(b)'
    BY DEF HonestOnesInStep
  <2>1. now' # NoTick
    BY BotTicksAssumption DEF BotTypeOK, Ticks, NoTick
  <2>2. <<NoTick>> # <<now'>> /\ <<NoTick>> # <<NoTick, now'>>
    BY <2>1, ShortSequences
  <2>3. ~AskedNow(b)'
    BY <1>1, <2>2, ShortSequences DEF AskedNow
  <2> QED
    BY <1>1, <2>3 DEF HonestInStep
<1>4. Reaped' /\ TurnsSound' /\ SessionSound' /\ HonestNotBlamed'
  BY DEF Reaped, TurnsSound, SessionSound, HonestNotBlamed
<1> QED
  BY <1>2, <1>3, <1>4

\* A turn of b ends with b disconnected, for whatever reason.
EndsWithout(b) ==
    /\ turn.bot = b /\ turn # NoTurn
    /\ Disconnect(b)
    /\ cause' = cause \/ cause' = [cause EXCEPT ![b] = "timeout"]
       \/ (b \in EagerBots /\ \E w \in Causes : cause' = [cause EXCEPT ![b] = w])
    /\ \E s \in Statuses : Answer(b, s)
    /\ out' = out
    /\ \/ UNCHANGED <<reader, line>>
       \/ /\ reader' = [reader EXCEPT ![b] = "scanning"]
          /\ line' = [line EXCEPT ![b] = NoTick]

LEMMA EndsWithoutKeeps ==
    ASSUME BotInv, NEW b \in Bots, EndsWithout(b)
    PROVE  BotInv'
<1> USE DEF BotInv
<1>1. /\ turn' = NoTurn /\ turn.bot = b /\ turn # NoTurn /\ now' = now
      /\ session = "open" /\ session' = session
      /\ conn' = [conn EXCEPT ![b] = FALSE]
  BY DEF EndsWithout, Answer, Disconnect, TurnsSound
<1>2. \A c \in Bots : c # b =>
          /\ conn'[c] = conn[c] /\ cause'[c] = cause[c] /\ proc'[c] = proc[c]
          /\ pipe'[c] = pipe[c] /\ owes'[c] = owes[c] /\ out'[c] = out[c]
          /\ reader'[c] = reader[c] /\ line'[c] = line[c]
  BY DEF EndsWithout, Disconnect, Forget, BotTypeOK
<1>3. /\ conn'[b] = FALSE /\ proc'[b] \in {"none", "reaped"}
      /\ b \notin EagerBots => cause'[b] \in {cause[b], "timeout"}
  BY DEF EndsWithout, Disconnect, BotTypeOK
<1>4. BotTypeOK'
  <2>1. /\ reader' \in [Bots -> {"none", "scanning", "handing", "ended"}]
        /\ line' \in [Bots -> Lines]
    BY DEF EndsWithout, BotTypeOK, Lines
  <2>2. status' \in [Bots -> Statuses] /\ todo' \subseteq Bots
    BY DEF EndsWithout, Answer, BotTypeOK
  <2>3. cause' \in [Bots -> Causes]
    BY DEF EndsWithout, BotTypeOK, Causes
  <2>4. /\ conn' \in [Bots -> BOOLEAN]
        /\ proc' \in [Bots -> {"none", "running", "exited", "reaped"}]
        /\ pipe' \in [Bots -> Seq(Lines)] /\ owes' \in [Bots -> Seq(Ticks)]
    BY DEF EndsWithout, Disconnect, Forget, BotTypeOK
  <2>5. UNCHANGED <<session, now, cancelled, out>>
    BY DEF EndsWithout, Answer
  <2> QED
    BY <1>1, <2>1, <2>2, <2>3, <2>4, <2>5 DEF BotTypeOK
<1>5. HonestOnesInStep'
  <2> SUFFICES ASSUME NEW c \in Bots \ EagerBots, c # b
               PROVE  HonestInStep(c)'
    BY <1>3 DEF HonestOnesInStep, HonestInStep
  <2>1. ~Receiving(c)
    BY <1>1 DEF Receiving
  <2>2. HonestInStep(c)
    BY DEF HonestOnesInStep
  <2> QED
    BY <1>1, <1>2, <2>1, <2>2 DEF HonestInStep, AskedNow
<1>6. Reaped' /\ TurnsSound' /\ SessionSound'
  BY <1>1, <1>2, <1>3 DEF Reaped, TurnsSound, SessionSound
<1>7. HonestNotBlamed'
  BY <1>2, <1>3 DEF HonestNotBlamed
<1> QED
  BY <1>4, <1>5, <1>6, <1>7

LEMMA ReceiveKeeps ==
    ASSUME BotInv, NEW b \in Bots, Receive(b) \/ SendFails(b)
    PROVE  BotInv'
<1>0. turn = [bot |-> b, stage |-> "receiving"] \/ turn = [bot |-> b, stage |-> "sending"]
  BY DEF Receive, TakeLine, OutputEnds, TurnTimesOut, TurnCancelled, SendFails, Receiving
<1>1. /\ turn.bot = b /\ turn # NoTurn
      /\ conn[b] /\ cause[b] = "" /\ session = "open"
  <2>1. turn.bot = b /\ turn # NoTurn
    BY <1>0, TurnRecords
  <2> QED
    BY <2>1 DEF BotInv, TurnsSound
<1>2. CASE OutputEnds(b) \/ TurnCancelled(b) \/ TurnTimesOut(b) \/ SendFails(b)
  <2>1. EndsWithout(b)
    BY <1>1, <1>2 DEF OutputEnds, TurnCancelled, TurnTimesOut, SendFails, Disqualify,
       EndsWithout, Statuses
  <2> QED
    BY <2>1, EndsWithoutKeeps
<1>3. CASE TakeLine(b) /\ line[b] # now
  <2>1. b \in EagerBots
    BY <1>1, <1>3 DEF TakeLine, BotInv, HonestOnesInStep, HonestInStep
  <2>2. now # NoTick
    BY BotTicksAssumption DEF BotInv, BotTypeOK, Ticks, NoTick
  <2>3. EndsWithout(b)
    BY <1>1, <1>3, <2>1, <2>2 DEF TakeLine, Disqualify, EndsWithout, Statuses, Causes
  <2> QED
    BY <2>3, EndsWithoutKeeps
<1>4. CASE TakeLine(b) /\ line[b] = now
  <2> USE DEF BotInv
  <2>1. now # NoTick
    BY BotTicksAssumption DEF BotTypeOK, Ticks, NoTick
  <2>2. /\ Answer(b, "valid") /\ reader[b] = "handing" /\ Receiving(b)
        /\ UNCHANGED <<conn, cause, proc, pipe, owes, out>>
        /\ reader' = [reader EXCEPT ![b] = "scanning"]
        /\ line' = [line EXCEPT ![b] = NoTick]
    BY <1>4, <2>1 DEF TakeLine
  <2>3. turn' = NoTurn /\ now' = now /\ session' = session
    BY <2>2 DEF Answer
  <2>4. BotTypeOK'
    BY <2>2 DEF Answer, BotTypeOK, Statuses, Lines
  <2>5. HonestOnesInStep'
    <3> SUFFICES ASSUME NEW c \in Bots \ EagerBots
                 PROVE  HonestInStep(c)'
      BY DEF HonestOnesInStep
    <3>1. HonestInStep(c) /\ (c # b => ~Receiving(c))
      <4>1. HonestInStep(c)
        BY DEF HonestOnesInStep
      <4>2. turn.bot = b
        BY <1>1
      <4> QED
        BY <4>1, <4>2 DEF Receiving
    <3>2. reader'[c] # "handing" \/ (c # b /\ reader'[c] = reader[c] /\ line'[c] = line[c])
      BY <2>2 DEF BotTypeOK
    <3> QED
      BY <2>2, <2>3, <3>1, <3>2 DEF HonestInStep, AskedNow
  <2>6. Reaped' /\ TurnsSound' /\ SessionSound' /\ HonestNotBlamed'
    BY <1>1, <2>2, <2>3 DEF Reaped, TurnsSound, SessionSound, HonestNotBlamed
  <2> QED
    BY <2>4, <2>5, <2>6
<1> QED
  BY <1>2, <1>3, <1>4 DEF Receive

LEMMA BeginKeeps ==
    ASSUME BotInv, NEW b \in Bots, BeginTurn(b)
    PROVE  BotInv'
<1> USE DEF BotInv
<1>1. /\ session = "open" /\ turn = NoTurn
      /\ UNCHANGED <<session, now, cancelled, conn, cause, proc, pipe, owes, out, reader, line>>
      /\ \/ turn' = NoTurn
         \/ turn' = [bot |-> b, stage |-> "sending"] /\ cause[b] = "" /\ conn[b]
  BY DEF BeginTurn, Answer
<1>2. BotTypeOK'
  <2>1. status' \in [Bots -> Statuses] /\ todo' \subseteq Bots
    BY DEF BeginTurn, Answer, BotTypeOK, Statuses
  <2>2. turn' = NoTurn \/ turn' \in [bot: Bots, stage: {"sending", "receiving"}]
    <3>1. [bot |-> b, stage |-> "sending"] \in [bot: Bots, stage: {"sending", "receiving"}]
      BY TurnRecords
    <3> QED
      BY <1>1, <3>1
  <2> QED
    BY <1>1, <2>1, <2>2 DEF BotTypeOK
<1>3. HonestOnesInStep'
  BY <1>1 DEF HonestOnesInStep, HonestInStep, AskedNow, Receiving, NoTurn
<1>4. TurnsSound'
  <2>1. turn' # NoTurn => turn'.bot = b /\ cause[b] = "" /\ conn[b]
    BY <1>1, TurnRecords
  <2> QED
    BY <1>1, <2>1 DEF TurnsSound
<1>5. Reaped' /\ SessionSound' /\ HonestNotBlamed'
  BY <1>1 DEF Reaped, SessionSound, HonestNotBlamed
<1> QED
  BY <1>2, <1>3, <1>4, <1>5

LEMMA SendKeeps ==
    ASSUME BotInv, NEW b \in Bots, SendPerception(b)
    PROVE  BotInv'
<1> USE DEF BotInv
<1>1. /\ turn = [bot |-> b, stage |-> "sending"] /\ turn' = [bot |-> b, stage |-> "receiving"]
      /\ pipe' = [pipe EXCEPT ![b] = Append(@, now)]
      /\ UNCHANGED <<session, now, todo, cancelled, clientVars, proc, owes, out, reader, line>>
  BY DEF SendPerception
<1>2. now \in Ticks /\ now # NoTick
  BY BotTicksAssumption DEF BotTypeOK, Ticks, NoTick
<1>3. BotTypeOK'
  BY <1>1, <1>2 DEF BotTypeOK, Lines, clientVars
<1>4. HonestOnesInStep'
  <2> SUFFICES ASSUME NEW c \in Bots \ EagerBots, conn[c]
               PROVE  HonestInStep(c)'
    BY <1>1 DEF HonestOnesInStep, HonestInStep, clientVars
  <2>1. HonestInStep(c) /\ ~Receiving(c)
    BY <1>1 DEF HonestOnesInStep, Receiving
  <2>2. /\ owes[c] = <<>> /\ out[c] = <<>> /\ reader[c] # "handing"
        /\ pipe[c] \in {<<>>, <<NoTick>>}
    BY <2>1 DEF HonestInStep, AskedNow
  <2>3. CASE c = b
    <3>1. pipe'[b] = Append(pipe[b], now)
      BY <1>1 DEF BotTypeOK
    <3>2. AskedNow(b)' /\ Receiving(b)'
      <4>1. pipe'[b] \in {<<now>>, <<NoTick, now>>}
        <5>1. CASE pipe[b] = <<>>
          BY <3>1, <5>1, ShortSequences
        <5>2. CASE pipe[b] = <<NoTick>>
          <6>1. Append(<<NoTick>>, now) = <<NoTick, now>>
            BY ShortSequences
          <6> QED
            BY <3>1, <5>2, <6>1
        <5> QED
          BY <2>2, <2>3, <5>1, <5>2
      <4> QED
        BY <1>1, <2>3, <4>1 DEF AskedNow, Receiving
    <3> QED
      BY <1>1, <2>2, <2>3, <3>2 DEF HonestInStep, AskedNow
  <2>4. CASE c # b
    <3>1. pipe'[c] = pipe[c]
      BY <1>1, <2>4 DEF BotTypeOK
    <3>2. ~AskedNow(c)
      BY <2>1 DEF HonestInStep
    <3> QED
      BY <1>1, <2>1, <2>2, <3>1, <3>2 DEF HonestInStep, AskedNow, clientVars
  <2> QED
    BY <2>3, <2>4
<1>5. Reaped' /\ TurnsSound' /\ SessionSound' /\ HonestNotBlamed'
  BY <1>1 DEF Reaped, TurnsSound, SessionSound, HonestNotBlamed, clientVars, NoTurn
<1> QED
  BY <1>3, <1>4, <1>5

LEMMA NextTickKeeps ==
    ASSUME BotInv, NextTick
    PROVE  BotInv'
<1> USE DEF BotInv
<1>1. /\ turn = NoTurn /\ session = "open" /\ now' = now + 1 /\ now < LastTick
      /\ UNCHANGED <<session, turn, cancelled, clientVars, proc, pipe, owes, out, reader, line>>
  BY DEF NextTick
<1>2. now' \in Ticks /\ now' # NoTick
  BY <1>1, BotTicksAssumption DEF BotTypeOK, Ticks, NoTick
<1>3. BotTypeOK'
  BY <1>1, <1>2 DEF NextTick, BotTypeOK, clientVars
<1>4. HonestOnesInStep'
  <2> SUFFICES ASSUME NEW c \in Bots \ EagerBots, conn[c]
               PROVE  HonestInStep(c)'
    BY <1>1 DEF HonestOnesInStep, HonestInStep, clientVars
  <2>1. HonestInStep(c) /\ ~Receiving(c)
    BY <1>1 DEF HonestOnesInStep, Receiving, NoTurn
  <2>2. /\ owes[c] = <<>> /\ out[c] = <<>> /\ reader[c] # "handing"
        /\ pipe[c] \in {<<>>, <<NoTick>>}
    BY <2>1 DEF HonestInStep, AskedNow
  <2>3. ~AskedNow(c)'
    <3>1. <<NoTick>> # <<now'>> /\ <<NoTick>> # <<NoTick, now'>>
      BY <1>2, ShortSequences
    <3>2. <<>> # <<now'>> /\ <<>> # <<NoTick, now'>>
      BY ShortSequences
    <3> QED
      BY <1>1, <2>2, <3>1, <3>2 DEF AskedNow
  <2> QED
    BY <1>1, <2>2, <2>3 DEF HonestInStep, clientVars
<1>5. Reaped' /\ TurnsSound' /\ SessionSound' /\ HonestNotBlamed'
  BY <1>1 DEF Reaped, TurnsSound, SessionSound, HonestNotBlamed, clientVars
<1> QED
  BY <1>3, <1>4, <1>5

\* The session closes, or the execution is cancelled.
LEMMA ClosingKeeps ==
    ASSUME BotInv, CloseSession \/ CloseReturns \/ CancelExecution
    PROVE  BotInv'
<1> USE DEF BotInv
<1>1. /\ UNCHANGED <<now, todo, turn, clientVars, proc, pipe, owes, out, reader, line>>
      /\ turn = NoTurn \/ session' = session
      /\ session' = "new" => session = "new"
  BY DEF CloseSession, CloseReturns, CancelExecution, TurnsSound
<1>2. BotTypeOK'
  BY <1>1 DEF CloseSession, CloseReturns, CancelExecution, BotTypeOK, clientVars
<1>3. HonestOnesInStep' /\ Reaped' /\ HonestNotBlamed' /\ TurnsSound'
  BY <1>1 DEF HonestOnesInStep, HonestInStep, AskedNow, Receiving, Reaped, HonestNotBlamed,
     TurnsSound, clientVars
<1>4. SessionSound'
  BY <1>1 DEF CloseSession, CloseReturns, CancelExecution, SessionSound, clientVars
<1> QED
  BY <1>2, <1>3, <1>4

LEMMA CloseBotKeeps ==
    ASSUME BotInv, NEW b \in Bots, CloseBot(b)
    PROVE  BotInv'
<1> USE DEF BotInv
<1>1. /\ session = "closing"
      /\ UNCHANGED <<sessionVars, cause, status, out, reader, line>>
      /\ Disconnect(b)
  BY DEF CloseBot
<1>2. /\ \A c \in Bots : c # b => /\ conn'[c] = conn[c] /\ proc'[c] = proc[c]
                                  /\ pipe'[c] = pipe[c] /\ owes'[c] = owes[c]
      /\ ~conn'[b] /\ proc'[b] \in {"none", "reaped"}
  BY <1>1 DEF Disconnect, Forget, BotTypeOK
<1>3. BotTypeOK'
  BY <1>1 DEF Disconnect, Forget, BotTypeOK, sessionVars
<1>4. HonestOnesInStep'
  BY <1>1, <1>2 DEF HonestOnesInStep, HonestInStep, AskedNow, Receiving, sessionVars
<1>5. Reaped' /\ TurnsSound' /\ SessionSound' /\ HonestNotBlamed'
  BY <1>1, <1>2 DEF Reaped, TurnsSound, SessionSound, HonestNotBlamed, sessionVars
<1> QED
  BY <1>3, <1>4, <1>5

-----------------------------------------------------------------------------
(* The reader and the process.                                             *)

\* What the reader and the process of b may do to the invariant: the session does
\* not see it.
LEMMA BehindThePipe ==
    ASSUME BotInv, NEW b \in Bots, session # "new", BotTypeOK',
           UNCHANGED <<sessionVars, clientVars>>,
           proc[b] \in {"none", "reaped"} => proc'[b] = proc[b],
           \A c \in Bots : c # b =>
               /\ proc'[c] = proc[c] /\ pipe'[c] = pipe[c] /\ owes'[c] = owes[c]
               /\ out'[c] = out[c] /\ reader'[c] = reader[c] /\ line'[c] = line[c],
           b \notin EagerBots /\ HonestInStep(b) => HonestInStep(b)'
    PROVE  BotInv'
<1> USE DEF BotInv
<1>1. HonestOnesInStep'
  <2> SUFFICES ASSUME NEW c \in Bots \ EagerBots
               PROVE  HonestInStep(c)'
    BY DEF HonestOnesInStep
  <2>1. HonestInStep(c)
    BY DEF HonestOnesInStep
  <2>2. CASE c # b
    BY <2>1, <2>2 DEF HonestInStep, AskedNow, Receiving, sessionVars, clientVars
  <2> QED
    BY <2>1, <2>2
<1>2. Reaped' /\ TurnsSound' /\ SessionSound' /\ HonestNotBlamed'
  BY DEF Reaped, TurnsSound, SessionSound, HonestNotBlamed, sessionVars, clientVars
<1> QED
  BY <1>1, <1>2

LEMMA ReaderKeeps ==
    ASSUME BotInv, NEW b \in Bots, Reader(b)
    PROVE  BotInv'
<1>1. /\ reader[b] = "scanning"
      /\ UNCHANGED <<sessionVars, clientVars, proc, pipe, owes>>
  BY DEF Reader, ReadLine, ReaderEnds
<1>2. session # "new"
  BY <1>1 DEF BotInv, SessionSound
<1>3. BotTypeOK'
  <2>1. CASE ReadLine(b)
    <3>1. Head(out[b]) \in Lines /\ Tail(out[b]) \in Seq(Lines)
      BY <2>1 DEF BotInv, ReadLine, BotTypeOK
    <3> QED
      BY <1>1, <2>1, <3>1 DEF BotInv, ReadLine, BotTypeOK, sessionVars, clientVars
  <2>2. CASE ReaderEnds(b)
    BY <1>1, <2>2 DEF BotInv, ReaderEnds, BotTypeOK, sessionVars, clientVars
  <2> QED
    BY <2>1, <2>2 DEF Reader
<1>4. \A c \in Bots : c # b =>
          out'[c] = out[c] /\ reader'[c] = reader[c] /\ line'[c] = line[c]
  BY DEF BotInv, Reader, ReadLine, ReaderEnds, BotTypeOK
<1>5. ASSUME HonestInStep(b), conn[b]
      PROVE  HonestInStep(b)'
  <2>1. CASE ReaderEnds(b)
    <3>1. reader'[b] # "handing" /\ out' = out
      BY <2>1 DEF BotInv, ReaderEnds, BotTypeOK
    <3> QED
      BY <1>1, <1>5, <3>1 DEF HonestInStep, AskedNow, Receiving, sessionVars, clientVars
  <2>2. CASE ReadLine(b)
    <3>1. out[b] = <<now>> /\ Receiving(b) /\ owes[b] = <<>> /\ ~AskedNow(b)
      BY <1>5, <2>2 DEF HonestInStep, ReadLine
    <3>2. line'[b] = now /\ out'[b] = <<>>
      BY <2>2, <3>1, ShortSequences DEF BotInv, ReadLine, BotTypeOK
    <3> QED
      BY <1>1, <1>5, <3>1, <3>2 DEF HonestInStep, AskedNow, Receiving, sessionVars, clientVars
  <2> QED
    BY <2>1, <2>2 DEF Reader
<1>6. HonestInStep(b) => HonestInStep(b)'
  BY <1>1, <1>5 DEF HonestInStep, clientVars
<1> QED
  BY <1>1, <1>2, <1>3, <1>4, <1>6, BehindThePipe

LEMMA ProcessKeeps ==
    ASSUME BotInv, NEW b \in Bots,
           \/ BotReads(b) \/ BotAnswers(b) \/ BotExits(b)
           \/ \E l \in Lines : BotWrites(b, l)
    PROVE  BotInv'
<1>1. /\ proc[b] = "running"
      /\ UNCHANGED <<sessionVars, clientVars, reader, line>>
  BY DEF BotReads, BotAnswers, BotExits, BotWrites
<1>2. session # "new"
  BY <1>1 DEF BotInv, SessionSound
<1>3. BotTypeOK'
  <2>1. \A c \in Bots : pipe[c] \in Seq(Lines) /\ owes[c] \in Seq(Ticks) /\ out[c] \in Seq(Lines)
    BY DEF BotInv, BotTypeOK
  <2>2. CASE BotReads(b)
    <3>1. Tail(pipe[b]) \in Seq(Lines)
      BY <2>1, <2>2 DEF BotReads
    <3>2. Head(pipe[b]) \in Ticks => Append(owes[b], Head(pipe[b])) \in Seq(Ticks)
      BY <2>1
    <3> QED
      BY <1>1, <2>2, <3>1, <3>2 DEF BotInv, BotReads, BotTypeOK, sessionVars, clientVars
  <2>3. CASE BotAnswers(b)
    <3>1. Head(owes[b]) \in Lines /\ Tail(owes[b]) \in Seq(Ticks)
      BY <2>1, <2>3 DEF BotAnswers, Lines
    <3>2. Append(out[b], Head(owes[b])) \in Seq(Lines)
      BY <2>1, <3>1
    <3> QED
      BY <1>1, <2>3, <3>1, <3>2 DEF BotInv, BotAnswers, BotTypeOK, sessionVars, clientVars
  <2>4. CASE BotExits(b)
    BY <1>1, <2>4 DEF BotInv, BotExits, Forget, BotTypeOK, sessionVars, clientVars
  <2>5. ASSUME NEW l \in Lines, BotWrites(b, l)
        PROVE  BotTypeOK'
    <3>1. <<l>> \in Seq(Lines)
      OBVIOUS
    <3> QED
      BY <1>1, <2>5, <3>1 DEF BotInv, BotWrites, BotTypeOK, sessionVars, clientVars
  <2> QED
    BY <2>2, <2>3, <2>4, <2>5
<1>4. \A c \in Bots : c # b =>
          proc'[c] = proc[c] /\ pipe'[c] = pipe[c] /\ owes'[c] = owes[c] /\ out'[c] = out[c]
  BY DEF BotInv, BotReads, BotAnswers, BotExits, BotWrites, Forget, BotTypeOK
<1>5. ASSUME HonestInStep(b), conn[b], b \notin EagerBots
      PROVE  HonestInStep(b)'
  <2> USE DEF BotInv
  <2>0. UNCHANGED <<now, turn, conn, reader, line>>
    BY <1>1 DEF sessionVars, clientVars
  <2>1. now \in Ticks /\ NoTick \notin Ticks /\ NoTick # now
    BY BotTicksAssumption DEF BotTypeOK, Ticks, NoTick
  <2>2. CASE BotExits(b)
    <3>1. pipe'[b] = <<>> /\ owes'[b] = <<>> /\ out' = out
      BY <2>2 DEF BotExits, Forget, BotTypeOK
    <3>2. ~AskedNow(b)'
      BY <3>1, ShortSequences DEF AskedNow
    <3> QED
      BY <1>5, <2>0, <3>1, <3>2 DEF HonestInStep, Receiving
  <2>3. CASE BotAnswers(b)
    <3>1. owes[b] = <<now>> /\ Receiving(b) /\ out[b] = <<>> /\ reader[b] # "handing" /\ ~AskedNow(b)
      BY <1>5, <2>3 DEF HonestInStep, BotAnswers
    <3>2. out'[b] = <<now>> /\ owes'[b] = <<>> /\ pipe' = pipe
      BY <2>3, <3>1, ShortSequences DEF BotAnswers, BotTypeOK
    <3> QED
      BY <1>5, <2>0, <3>1, <3>2 DEF HonestInStep, AskedNow, Receiving
  <2>4. CASE BotReads(b)
    <3>1. out' = out /\ pipe'[b] = Tail(pipe[b])
          /\ owes'[b] = IF Head(pipe[b]) \in Ticks THEN Append(owes[b], Head(pipe[b]))
                                                   ELSE owes[b]
      BY <2>4 DEF BotReads, BotTypeOK
    <3>2. CASE pipe[b] = <<NoTick>>
      <4>1. pipe'[b] = <<>> /\ owes'[b] = owes[b]
        BY <2>1, <3>1, <3>2, ShortSequences
      <4>2. ~AskedNow(b)'
        BY <4>1, ShortSequences DEF AskedNow
      <4> QED
        BY <1>5, <2>0, <3>1, <4>1, <4>2 DEF HonestInStep, Receiving
    <3>3. CASE pipe[b] = <<NoTick, now>>
      <4>1. pipe'[b] = <<now>> /\ owes'[b] = owes[b] /\ AskedNow(b)
        BY <2>1, <3>1, <3>3, ShortSequences DEF AskedNow
      <4> QED
        BY <1>5, <2>0, <3>1, <4>1 DEF HonestInStep, Receiving
    <3>4. CASE pipe[b] = <<now>>
      <4>1. AskedNow(b)
        BY <3>4 DEF AskedNow
      <4>2. owes[b] = <<>> /\ out[b] = <<>> /\ reader[b] # "handing" /\ Receiving(b)
        BY <1>5, <4>1 DEF HonestInStep
      <4>3. pipe'[b] = <<>> /\ owes'[b] = <<now>>
        BY <2>1, <3>1, <3>4, <4>2, ShortSequences
      <4>4. ~AskedNow(b)'
        BY <4>3, ShortSequences DEF AskedNow
      <4> QED
        BY <1>5, <2>0, <3>1, <4>2, <4>3, <4>4 DEF HonestInStep, Receiving
    <3> QED
      BY <1>5, <2>4, <3>2, <3>3, <3>4 DEF HonestInStep, BotReads
  <2> QED
    BY <1>5, <2>2, <2>3, <2>4 DEF BotWrites
<1>6. b \notin EagerBots /\ HonestInStep(b) => HonestInStep(b)'
  BY <1>1, <1>5 DEF HonestInStep, clientVars
<1> QED
  BY <1>1, <1>2, <1>3, <1>4, <1>6, BehindThePipe

-----------------------------------------------------------------------------

LEMMA BotStepKeeps == BotInv /\ [BotNext]_botVars => BotInv'
<1> SUFFICES ASSUME BotInv, [BotNext]_botVars
             PROVE  BotInv'
  OBVIOUS
<1>1. CASE UNCHANGED botVars
  BY <1>1 DEF botVars, sessionVars, clientVars, BotInv, BotTypeOK, HonestOnesInStep,
     HonestInStep, AskedNow, Receiving, Reaped, TurnsSound, SessionSound, HonestNotBlamed
<1>2. CASE SessionStep
  BY <1>2, StartKeeps, BeginKeeps, SendKeeps, ReceiveKeeps, NextTickKeeps, ClosingKeeps,
     CloseBotKeeps DEF SessionStep, Send, Closing
<1>3. CASE ProcessStep
  BY <1>3, ReaderKeeps, ProcessKeeps DEF ProcessStep
<1> QED
  BY <1>1, <1>2, <1>3 DEF BotNext

LEMMA BotInvariant == BotSpec => []BotInv
BY InitBotInv, BotStepKeeps, PTL DEF BotSpec

\* Sessions, processes and readers are well typed (bot_session.go).
THEOREM BotSessionTyped == BotSpec => []BotTypeOK
<1>1. BotInv => BotTypeOK
  BY DEF BotInv
<1> QED
  BY <1>1, BotInvariant, PTL

\* However late a bot answers, and whatever order pipes and goroutines run in, the
\* answer is not taken for another turn's (bot_session.go, recv).
THEOREM HonestAreNotBlamed == BotSpec => []HonestNotBlamed
<1>1. BotInv => HonestNotBlamed
  BY DEF BotInv
<1> QED
  BY <1>1, BotInvariant, PTL

\* Every process has been killed and waited for when the session is closed
\* (bot_session.go, Disconnect and Close).
THEOREM ProcessesAreGone == BotSpec => []NoneOutlivesSession
<1>1. BotInv => NoneOutlivesSession
  BY DEF BotInv, Reaped, SessionSound, NoneOutlivesSession
<1> QED
  BY <1>1, BotInvariant, PTL

-----------------------------------------------------------------------------
(* EngineClient.                                                           *)

InCall(op) == At(op, "writing") \/ At(op, "reading")

\* The state of the client in which a method may be under way.
CallersFit ==
    /\ \A op \in Calls : ~At(op, "waiting")
    /\ ~At("start", "writing")
    /\ \A op \in Calls : InCall(op) => ~failed /\ strays = 0
    /\ InCall("start") => life = "created"
    /\ InCall("initialize_match") => life = "started"
    /\ \A op \in {"advance_tick", "finish_match"} :
           InCall(op) => life \in {"initialized", "running"}
    /\ At("advance_tick", "writing") => lastTick < MatchTicks
    /\ InCall("close") \/ At("close", "waiting") => life = "closed"

\* How many reads Start, the cancelled methods and Close leave behind.
StraysCounted ==
    /\ life # "closed" => ~waiting
    /\ life # "closed" \/ InCall("close") => strays <= 1
    /\ ~failed /\ life # "closed" => strays = 0

\* Ticks are asked for while there are any left.
AsksWithinMatch == \A i \in DOMAIN stdin :
    stdin[i].type = "advance_tick" => stdin[i].tick < MatchTicks

\* Before Start there is no process; after its failure, or Close, none runs.
NotStarted ==
    call = NoCall /\ ~failed /\ life = "created" =>
        /\ engineProc = "none" /\ stdin = <<>> /\ stdout = <<>>
        /\ expectSeq = 1 /\ engineSeq = 1 /\ lastTick = 0 /\ engineTick = 0

\* Once the engine is started it numbers its messages from there on.
Numbered ==
    ~failed /\ life # "closed" =>
        /\ engineSeq = 1 => life = "created" /\ stdin = <<>> /\ stdout = <<>>
        /\ life \in {"created", "started"} => lastTick = 0 /\ engineTick = 0

\* Until a method has written its command nothing is under way; then the command
\* is, its answer is, or the engine has died over it.
Unsent ==
    /\ stdin = <<>> /\ stdout = <<>> /\ expectSeq = engineSeq /\ lastTick = engineTick
CommandUnderWay(op) ==
    /\ stdout = <<>> /\ expectSeq = engineSeq /\ lastTick = engineTick
    /\ IF op = "start" THEN stdin = <<>>
       ELSE \E t \in 0..MatchTicks : stdin = <<[type |-> op, tick |-> t]>>
AnswerUnderWay(op) ==
    /\ stdin = <<>> /\ Len(stdout) = 1
    /\ engineSeq = stdout[1].seq + 1
    /\ stdout[1].type \notin {"noise", "engine_error"} => stdout[1].tick = engineTick
    /\ op = "finish_match" => lastTick = engineTick
    /\ stdout[1].type = "noise" => ~stdout[1].intact
NoneComes == stdin = <<>> /\ stdout = <<>> /\ Gone

OneAtATime == \A op \in Calls :
    /\ At(op, "writing") => Unsent
    /\ At(op, "reading") => CommandUnderWay(op) \/ AnswerUnderWay(op) \/ NoneComes

EngInv ==
    /\ EngineTypeOK
    /\ CallersFit
    /\ StraysCounted
    /\ AsksWithinMatch
    /\ NotStarted
    /\ Numbered
    /\ OneAtATime
    /\ InStep
    /\ NoOrphan

Message == [type: Messages, seq: Nat, tick: 0..MatchTicks, intact: BOOLEAN, ours: BOOLEAN]
CommandSet == [type: Commands, tick: 0..MatchTicks]

LEMMA InitEngInv == EngineInit => EngInv
<1> SUFFICES ASSUME EngineInit
             PROVE  EngInv
  OBVIOUS
<1> USE MaxTicksAssumption DEF EngineInit
<1>1. EngineTypeOK
  <2>1. /\ stdin \in Seq([type: Commands, tick: 0..MatchTicks])
        /\ stdout \in Seq([type: Messages, seq: Nat, tick: 0..MatchTicks, intact: BOOLEAN,
                           ours: BOOLEAN])
    OBVIOUS
  <2>2. lastTick \in 0..MatchTicks /\ engineTick \in 0..MatchTicks /\ strays \in 0..2
    OBVIOUS
  <2>3. /\ life \in {"created", "started", "initialized", "running", "finished", "closed"}
        /\ engineProc \in {"none", "running", "exited", "killed", "reaped"}
        /\ call = NoCall /\ mode \in Modes
        /\ sendSeq \in Nat \ {0} /\ expectSeq \in Nat \ {0} /\ engineSeq \in Nat \ {0}
    OBVIOUS
  <2>4. /\ failed \in BOOLEAN /\ ctxDone \in BOOLEAN /\ waiting \in BOOLEAN
        /\ stdinOpen \in BOOLEAN
    BY Zenon
  <2> QED
    BY <2>1, <2>2, <2>3, <2>4 DEF EngineTypeOK
<1>2. \A op, stage : op # "none" => ~At(op, stage)
  BY DEF At, NoCall
<1>3. CallersFit /\ StraysCounted /\ OneAtATime
  BY <1>2 DEF CallersFit, StraysCounted, OneAtATime, InCall, Calls, Ops
<1>4. AsksWithinMatch /\ NotStarted /\ Numbered /\ InStep /\ NoOrphan
  BY DEF AsksWithinMatch, NotStarted, Numbered, InStep, NoOrphan
<1> QED
  BY <1>1, <1>3, <1>4 DEF EngInv

\* Once an error was returned or Close called, little has to be kept.
LEMMA OverKeeps ==
    ASSUME EngineTypeOK', CallersFit', StraysCounted', AsksWithinMatch', NoOrphan',
           failed' \/ life' = "closed",
           \A op \in Calls : ~InCall(op)'
    PROVE  EngInv'
BY DEF EngInv, NotStarted, Numbered, OneAtATime, InStep, InCall

\* A method returns an error.
LEMMA FailKeeps ==
    ASSUME EngInv, NEW op \in Calls \union {"none"}, GivesUp(op),
           \/ At(op, "reading")
           \/ op = "none" /\ call = NoCall /\ ~failed /\ life = "created",
           stdout' \in Seq(Message), expectSeq' \in Nat \ {0}, strays' \in {strays, strays + 1}
    PROVE  EngInv'
<1> USE DEF EngInv, GivesUp
<1>1. ~failed /\ life # "closed" /\ strays = 0
  <2>1. CASE op \in Calls /\ At(op, "reading")
    BY <2>1 DEF CallersFit, InCall, Calls, Ops
  <2>2. CASE op = "none" /\ ~failed /\ life = "created"
    BY <2>2 DEF StraysCounted
  <2>3. ~At("none", "reading")
    BY DEF At, NoCall, EngineTypeOK, Ops
  <2> QED
    BY <2>1, <2>2, <2>3
<1>2. /\ call' = NoCall /\ failed' = TRUE /\ life' = life /\ life # "closed"
      /\ engineProc' \in {"none", "running", "exited", "killed", "reaped"}
  BY <1>1 DEF Killed, EngineTypeOK
<1>3. \A o, stage : o # "none" => ~At(o, stage)'
  BY <1>2 DEF At, NoCall
<1>4. EngineTypeOK'
  BY <1>1, <1>2 DEF EngineTypeOK, engineSide, Message
<1>5. CallersFit' /\ StraysCounted' /\ AsksWithinMatch'
  BY <1>1, <1>2, <1>3 DEF CallersFit, InCall, StraysCounted, AsksWithinMatch, Calls, Ops
<1>6. NoOrphan'
  <2> SUFFICES ASSUME life = "created"
               PROVE  engineProc' # "running"
    BY <1>2 DEF NoOrphan
  <2>1. CASE op = "start"
    BY <2>1 DEF Killed
  <2>2. CASE op # "start"
    <3>1. op = "none" /\ call = NoCall
      <4>1. \A o \in Calls : At(o, "reading") => o = "start"
        BY DEF CallersFit, InCall, Calls, Ops
      <4>2. ~At("none", "reading")
        BY DEF At, NoCall, EngineTypeOK, Ops
      <4> QED
        BY <2>2, <4>1, <4>2
    <3> QED
      BY <1>1, <3>1 DEF NotStarted
  <2> QED
    BY <2>1, <2>2
<1> QED
  BY <1>2, <1>3, <1>4, <1>5, <1>6, OverKeeps DEF InCall, Calls, Ops

LEMMA HeadOfOutput ==
    ASSUME EngineTypeOK, stdout # <<>>
    PROVE  /\ Head(stdout) \in Message /\ Tail(stdout) \in Seq(Message)
           /\ Len(stdout) \in Nat \ {0} /\ Head(stdout) = stdout[1]
           /\ Len(stdout) = 1 => Tail(stdout) = <<>>
<1>1. stdout \in Seq(Message)
  BY DEF EngineTypeOK, Message
<1>2. Head(stdout) \in Message /\ Tail(stdout) \in Seq(Message)
  BY <1>1
<1>3. Len(stdout) \in Nat \ {0} /\ Head(stdout) = stdout[1]
  BY <1>1
<1>4. Len(stdout) = 1 => Tail(stdout) = <<>>
  <2>1. Len(Tail(stdout)) = Len(stdout) - 1
    BY <1>1
  <2>2. \A t \in Seq(Message) : Len(t) = 0 => t = <<>>
    BY EmptySeq
  <2> DEFINE t == Tail(stdout)
  <2>3. t \in Seq(Message) /\ Len(t) = Len(stdout) - 1
    BY <1>2, <2>1
  <2> HIDE DEF t
  <2>4. Len(stdout) = 1 => t = <<>>
    BY <2>2, <2>3
  <2> QED
    BY <2>4 DEF t
<1> QED
  BY <1>2, <1>3, <1>4

\* A method returns what it was asked for.
LEMMA AcceptKeeps ==
    ASSUME EngInv, NEW op \in Calls, NEW wanted, NEW state, stdout # <<>>,
           Accepts(op, wanted, state), wanted \subseteq Messages \ {"noise", "engine_error"},
           state \in {"started", "initialized", "running", "finished"},
           state = "started" => life = "created"
    PROVE  EngInv'
<1> USE DEF EngInv
<1> DEFINE l == Head(stdout)
<1>1. /\ l \in Message /\ l.intact /\ l.seq = expectSeq /\ l.type \in wanted
      /\ At(op, "reading") /\ stdout' = Tail(stdout) /\ expectSeq' = expectSeq + 1
      /\ strays' = strays /\ life' = state /\ call' = NoCall
      /\ lastTick' = IF op = "finish_match" THEN lastTick ELSE l.tick
      /\ UNCHANGED <<failed, ctxDone, sendSeq, waiting, stdinOpen, engineProc, stdin, engineSide>>
  BY HeadOfOutput DEF Accepts, Reads, Returns, Takes
<1>2. ~failed /\ strays = 0 /\ life # "closed"
  BY <1>1 DEF CallersFit, InCall, At, Calls, Ops
<1>3. /\ AnswerUnderWay(op) /\ l = stdout[1] /\ stdout' = <<>>
      /\ stdout' \in Seq(Message)
  BY <1>1, HeadOfOutput DEF OneAtATime, CommandUnderWay, NoneComes, AnswerUnderWay
<1>4. expectSeq' = engineSeq' /\ lastTick' = engineTick' /\ stdin' = <<>> /\ stdout' = <<>>
  BY <1>1, <1>3 DEF AnswerUnderWay, engineSide
<1>5. EngineTypeOK'
  <2>1. lastTick' \in 0..MatchTicks /\ expectSeq' \in Nat \ {0}
    BY <1>1 DEF EngineTypeOK, Message
  <2> QED
    BY <1>1, <1>3, <2>1 DEF EngineTypeOK, engineSide, Message
<1>6. \A o, stage : o # "none" => ~At(o, stage)'
  BY <1>1 DEF At, NoCall
<1>7. CallersFit' /\ OneAtATime'
  BY <1>6 DEF CallersFit, InCall, OneAtATime, Calls, Ops
<1>8. StraysCounted'
  BY <1>1, <1>2 DEF StraysCounted
<1>9. AsksWithinMatch'
  BY <1>4 DEF AsksWithinMatch
<1>10. NotStarted' /\ NoOrphan'
  BY <1>1, <1>2 DEF NotStarted, NoOrphan
<1>11. Numbered'
  <2>1. engineSeq' > 1
    BY <1>1, <1>4 DEF EngineTypeOK
  <2>2. state = "started" => lastTick' = 0 /\ engineTick' = 0
    BY <1>1, <1>2, <1>4 DEF Numbered, engineSide
  <2> QED
    BY <1>1, <2>1, <2>2 DEF Numbered
<1>12. InStep'
  BY <1>1, <1>2, <1>4 DEF InStep
<1> QED
  BY <1>5, <1>7, <1>8, <1>9, <1>10, <1>11, <1>12

LEMMA AnswersKeep ==
    ASSUME EngInv, Answers \/ CallStep
    PROVE  EngInv'
<1>1. ASSUME NEW op \in Calls, NEW wanted, Rejects(op, wanted), stdout # <<>>
      PROVE  EngInv'
  <2>1. /\ GivesUp(op) /\ At(op, "reading") /\ stdout' = Tail(stdout)
        /\ expectSeq' \in {expectSeq, expectSeq + 1} /\ strays' = strays
    BY <1>1 DEF Rejects, Reads
  <2>2. expectSeq' \in Nat \ {0} /\ stdout' \in Seq(Message)
    BY <1>1, <2>1, HeadOfOutput DEF EngInv, EngineTypeOK
  <2> QED
    BY <2>1, <2>2, FailKeeps
<1>2. ASSUME NEW op \in Calls, OutputClosed(op) \/ ReadGivenUp(op)
      PROVE  EngInv'
  <2>1. stdout \in Seq(Message) /\ expectSeq \in Nat \ {0}
    BY DEF EngInv, EngineTypeOK, Message
  <2> QED
    BY <1>2, <2>1, FailKeeps DEF OutputClosed, ReadGivenUp
<1>3. CASE StartAnswered
  <2>1. life = "created" \/ ~At("start", "reading")
    BY DEF EngInv, CallersFit, InCall
  <2> QED
    BY <1>1, <1>3, <2>1, AcceptKeeps
       DEF StartAnswered, Answered, Accepts, Reads, Calls, Ops, Messages
<1>4. CASE InitializeAnswered
  BY <1>1, <1>4, AcceptKeeps DEF InitializeAnswered, Answered, Calls, Ops, Messages
<1>5. CASE AdvanceAnswered
  BY <1>1, <1>5, AcceptKeeps DEF AdvanceAnswered, Answered, Calls, Ops, Messages
<1>6. CASE FinishAnswered
  BY <1>1, <1>6, AcceptKeeps DEF FinishAnswered, Answered, Calls, Ops, Messages
<1> QED
  BY <1>2, <1>3, <1>4, <1>5, <1>6 DEF Answers, CallStep

-----------------------------------------------------------------------------
(* The calls.                                                              *)

LEMMA CommandGiven ==
    ASSUME EngineTypeOK, AsksWithinMatch, NEW c \in CommandSet,
           c.type = "advance_tick" => c.tick < MatchTicks,
           stdin' = Append(stdin, c)
    PROVE  stdin' \in Seq(CommandSet) /\ AsksWithinMatch' /\ (stdin = <<>> => stdin' = <<c>>)
<1>1. /\ stdin' \in Seq(CommandSet) /\ Len(stdin) \in Nat
      /\ DOMAIN stdin = 1..Len(stdin) /\ DOMAIN stdin' = 1..Len(stdin) + 1
      /\ \A i \in 1..Len(stdin) : stdin'[i] = stdin[i]
      /\ stdin'[Len(stdin) + 1] = c
  BY DEF EngineTypeOK, CommandSet
<1>2. AsksWithinMatch'
  BY <1>1 DEF AsksWithinMatch
<1>3. stdin = <<>> => stdin' = <<c>>
  OBVIOUS
<1> QED
  BY <1>1, <1>2, <1>3

\* A method begins.
LEMMA CommandKeeps ==
    ASSUME EngInv, NEW op \in Calls \ {"start"}, Command(op),
           call = NoCall, ~failed,
           op = "initialize_match" => life = "started",
           op # "initialize_match" => life \in {"initialized", "running"},
           op = "advance_tick" => lastTick < MatchTicks
    PROVE  EngInv'
<1> USE DEF EngInv
<1>1. /\ UNCHANGED <<life, failed, ctxDone, expectSeq, lastTick, strays, waiting, stdinOpen,
                     engineProc, stdin, stdout, engineSide>>
      /\ sendSeq' \in Nat \ {0} /\ call' = [op |-> op, stage |-> "writing"]
      /\ op \in {"initialize_match", "advance_tick", "finish_match"}
  BY DEF Command, EngineTypeOK, Calls, Ops
<1>2. life \in {"started", "initialized", "running"} /\ strays = 0
      /\ expectSeq = engineSeq /\ lastTick = engineTick /\ stdin = <<>> /\ stdout = <<>>
  BY <1>1 DEF InStep
<1>3. EngineTypeOK'
  BY <1>1 DEF EngineTypeOK, engineSide, Ops
<1>4. \A o, stage : At(o, stage)' <=> o = op /\ stage = "writing"
  BY <1>1 DEF At
<1>5. CallersFit' /\ StraysCounted' /\ AsksWithinMatch'
  BY <1>1, <1>2, <1>4 DEF CallersFit, StraysCounted, AsksWithinMatch, InCall, Calls, Ops
<1>6. NotStarted' /\ NoOrphan' /\ InStep' /\ Numbered'
  BY <1>1, <1>2 DEF NotStarted, NoOrphan, InStep, NoCall, Numbered, engineSide
<1>7. OneAtATime'
  BY <1>1, <1>2, <1>4 DEF OneAtATime, Unsent, engineSide
<1> QED
  BY <1>3, <1>5, <1>6, <1>7

\* The write of a command returns.
LEMMA WriteKeeps ==
    ASSUME EngInv, WriteStep
    PROVE  EngInv'
<1> USE DEF EngInv
<1>1. PICK op \in Ops : Write(op)
  BY DEF WriteStep
<1>2. /\ UNCHANGED <<life, ctxDone, sendSeq, expectSeq, lastTick, strays, waiting, stdinOpen,
                     engineProc, stdout, engineSide>>
      /\ At(op, "writing")
      /\ op \in {"initialize_match", "advance_tick", "finish_match", "close"}
  BY <1>1 DEF Write, CallersFit, Ops
<1>3. /\ op # "close" =>
            /\ ~failed /\ strays = 0 /\ life \in {"started", "initialized", "running"}
            /\ expectSeq = engineSeq /\ lastTick = engineTick /\ stdin = <<>> /\ stdout = <<>>
      /\ op = "close" => life = "closed"
  BY <1>2 DEF CallersFit, OneAtATime, Unsent, InCall, Calls, Ops
<1>4. /\ stdin' \in Seq(CommandSet) /\ AsksWithinMatch'
      /\ ~Gone /\ stdin = <<>> => stdin' = <<Written(op)>>
  <2>1. CASE Gone
    BY <1>1, <2>1 DEF Write, EngineTypeOK, AsksWithinMatch, CommandSet
  <2>2. CASE ~Gone
    <3>1. stdin' = Append(stdin, Written(op))
      BY <1>1, <2>2 DEF Write
    <3>2. /\ Written(op) \in CommandSet
          /\ Written(op).type = "advance_tick" => Written(op).tick < MatchTicks
      BY <1>2 DEF Written, CommandSet, Commands, EngineTypeOK, CallersFit
    <3> QED
      BY <3>1, <3>2, CommandGiven
  <2> QED
    BY <2>1, <2>2
<1>5. CASE Gone /\ op # "close"
  <2>1. failed' = TRUE /\ call' = NoCall
    BY <1>1, <1>5 DEF Write
  <2>2. \A o, stage : o # "none" => ~At(o, stage)'
    BY <2>1 DEF At, NoCall
  <2>3. EngineTypeOK'
    BY <1>2, <1>4, <2>1 DEF EngineTypeOK, engineSide, CommandSet
  <2>4. CallersFit' /\ StraysCounted' /\ NoOrphan'
    BY <1>2, <1>3, <1>5, <2>1, <2>2
       DEF CallersFit, StraysCounted, NoOrphan, InCall, Calls, Ops
  <2> QED
    BY <1>4, <2>1, <2>2, <2>3, <2>4, OverKeeps DEF InCall, Calls, Ops
<1>6. CASE ~(Gone /\ op # "close")
  <2>1. call' = [op |-> op, stage |-> "reading"] /\ failed' = failed
    BY <1>1, <1>6 DEF Write
  <2>2. \A o, stage : At(o, stage)' <=> o = op /\ stage = "reading"
    BY <2>1 DEF At
  <2>3. EngineTypeOK'
    BY <1>2, <1>4, <2>1 DEF EngineTypeOK, engineSide, CommandSet
  <2>4. CallersFit' /\ StraysCounted' /\ NoOrphan'
    BY <1>2, <1>3, <2>1, <2>2
       DEF CallersFit, StraysCounted, NoOrphan, NoCall, InCall, Calls, Ops
  <2>5. CASE op = "close"
    BY <1>2, <1>3, <1>4, <2>2, <2>3, <2>4, <2>5, OverKeeps DEF InCall, Calls, Ops
  <2>6. CASE op # "close"
    <3>1. stdin' = <<[type |-> op, tick |-> lastTick]>>
      BY <1>3, <1>4, <1>6, <2>6 DEF Written
    <3>2. NotStarted' /\ InStep'
      BY <2>1 DEF NotStarted, InStep, NoCall
    <3>3. Numbered'
      <4>1. engineSeq # 1
        BY <1>3, <2>6 DEF Numbered
      <4>2. life \in {"created", "started"} => lastTick = 0 /\ engineTick = 0
        BY <1>3, <2>6 DEF Numbered
      <4> QED
        BY <1>2, <4>1, <4>2 DEF Numbered, engineSide
    <3>4. CommandUnderWay(op)'
      BY <1>2, <1>3, <2>6, <3>1 DEF CommandUnderWay, engineSide, EngineTypeOK
    <3>5. OneAtATime'
      BY <2>2, <3>4 DEF OneAtATime
    <3> QED
      BY <1>4, <2>3, <2>4, <3>2, <3>3, <3>5
  <2> QED
    BY <2>5, <2>6
<1> QED
  BY <1>5, <1>6

LEMMA CallsKeep ==
    ASSUME EngInv, StartCall \/ InitializeMatch \/ AdvanceTick \/ FinishMatch
    PROVE  EngInv'
<1>2. CASE StartCall
  <2>1. call = NoCall /\ ~failed /\ life = "created"
    BY <1>2 DEF StartCall, Idle
  <2>2. CASE GivesUp("none") /\ UNCHANGED <<expectSeq, strays, stdout>>
    BY <2>1, <2>2, FailKeeps DEF EngInv, EngineTypeOK, Message
  <2>3. CASE ~(GivesUp("none") /\ UNCHANGED <<expectSeq, strays, stdout>>)
    <3> USE DEF EngInv
    <3>1. /\ engineProc' = "running" /\ stdinOpen' = TRUE
          /\ call' = [op |-> "start", stage |-> "reading"]
          /\ UNCHANGED <<life, failed, ctxDone, sendSeq, expectSeq, lastTick, strays,
                         waiting, stdin, stdout, engineSide>>
      BY <1>2, <2>3 DEF StartCall
    <3>2. /\ stdin = <<>> /\ stdout = <<>> /\ expectSeq = 1 /\ engineSeq = 1
          /\ lastTick = 0 /\ engineTick = 0 /\ strays = 0
      BY <2>1 DEF NotStarted, StraysCounted
    <3>3. EngineTypeOK'
      BY <3>1 DEF EngineTypeOK, engineSide, Ops
    <3>4. \A o, stage : At(o, stage)' <=> o = "start" /\ stage = "reading"
      BY <3>1 DEF At
    <3>5. CallersFit' /\ StraysCounted' /\ AsksWithinMatch'
      BY <2>1, <3>1, <3>2, <3>4 DEF CallersFit, InCall, StraysCounted, AsksWithinMatch, Calls, Ops
    <3>6. NotStarted' /\ InStep' /\ NoOrphan' /\ Numbered'
      BY <2>1, <3>1, <3>2 DEF NotStarted, InStep, NoOrphan, Numbered, NoCall, engineSide
    <3>7. OneAtATime'
      BY <3>1, <3>2, <3>4 DEF OneAtATime, CommandUnderWay, engineSide
    <3> QED
      BY <3>3, <3>5, <3>6, <3>7
  <2> QED
    BY <2>2, <2>3
<1>3. CASE InitializeMatch
  BY <1>3, CommandKeeps DEF InitializeMatch, Idle, Calls, Ops
<1>4. CASE AdvanceTick
  BY <1>4, CommandKeeps DEF AdvanceTick, Idle, Calls, Ops
<1>5. CASE FinishMatch
  BY <1>5, CommandKeeps DEF FinishMatch, Idle, Calls, Ops
<1> QED
  BY <1>2, <1>3, <1>4, <1>5

-----------------------------------------------------------------------------
(* Close.                                                                  *)

LEMMA CloseCallKeeps ==
    ASSUME EngInv, CloseCall
    PROVE  EngInv'
<1> USE DEF EngInv
<1>1. /\ call = NoCall /\ life # "closed" /\ life' = "closed"
      /\ call' = [op |-> "close", stage |-> "writing"]
      /\ UNCHANGED <<failed, ctxDone, expectSeq, lastTick, strays, waiting, stdinOpen,
                     engineProc, stdin, stdout, engineSide>>
      /\ sendSeq' \in Nat \ {0}
  BY DEF CloseCall, EngineTypeOK
<1>2. EngineTypeOK'
  BY <1>1 DEF EngineTypeOK, engineSide, Ops
<1>3. \A o, stage : At(o, stage)' <=> o = "close" /\ stage = "writing"
  BY <1>1 DEF At
<1>4. CallersFit' /\ StraysCounted' /\ NoOrphan' /\ AsksWithinMatch'
  BY <1>1, <1>3 DEF CallersFit, StraysCounted, NoOrphan, AsksWithinMatch, NoCall, InCall,
                    Calls, Ops
<1> QED
  BY <1>1, <1>2, <1>3, <1>4, OverKeeps DEF InCall, Calls, Ops

\* Steps within Close: only the process, the messages and the reads left change.
LEMMA CloseMoves ==
    ASSUME EngInv, life = "closed",
           UNCHANGED <<life, failed, ctxDone, sendSeq, lastTick, stdin, engineSide>>,
           waiting' \in BOOLEAN, stdinOpen' \in BOOLEAN,
           expectSeq' \in {expectSeq, expectSeq + 1},
           stdout' \in Seq(Message),
           engineProc' \in {"none", "running", "exited", "killed", "reaped"},
           \/ UNCHANGED <<call, engineProc, strays>>
           \/ /\ At("close", "reading") /\ UNCHANGED engineProc
              /\ call' = [op |-> "close", stage |-> "waiting"]
              /\ strays' \in 0..(strays + 1)
           \/ /\ At("close", "reading") /\ call' = NoCall /\ engineProc' # "running"
              /\ strays' \in 0..(strays + 1)
           \/ call' = NoCall /\ engineProc' # "running" /\ strays' = strays
           \/ UNCHANGED call /\ strays' \in 0..strays /\ (engineProc' = engineProc)
           \/ UNCHANGED <<call, strays>> /\ engineProc' # "running"
    PROVE  EngInv'
<1> USE DEF EngInv
<1>1. /\ life' = "closed" /\ strays \in 0..2
      /\ InCall("close") => strays <= 1
      /\ At("close", "reading") => strays <= 1
      /\ \A op \in Calls : ~InCall(op)
  BY DEF EngineTypeOK, StraysCounted, CallersFit, InCall, Calls, Ops
<1>2. call' \in {call, NoCall, [op |-> "close", stage |-> "waiting"]}
      /\ strays' \in 0..2
  BY <1>1
<1>3. call' = NoCall \/ call' \in [op: Ops, stage: {"writing", "reading", "waiting"}]
  BY <1>2 DEF EngineTypeOK, Ops
<1>4. EngineTypeOK'
  BY <1>2, <1>3 DEF EngineTypeOK, engineSide, Message
<1>5. \A op \in Calls : ~InCall(op)' /\ ~At(op, "waiting")'
  BY <1>1, <1>2 DEF At, NoCall, InCall, Calls, Ops, CallersFit
<1>6. CallersFit'
  BY <1>1, <1>5 DEF CallersFit, InCall, Calls, Ops
<1>7. StraysCounted'
  <2> SUFFICES ASSUME InCall("close")'
               PROVE  strays' <= 1
    BY <1>1 DEF StraysCounted
  <2>1. call' = call /\ InCall("close")
    BY <1>2 DEF At, NoCall, InCall
  <2>2. strays' \in 0..strays
    BY <1>1, <2>1 DEF At, NoCall
  <2> QED
    BY <1>1, <2>1, <2>2
<1>8. AsksWithinMatch'
  BY DEF AsksWithinMatch
<1>9. NoOrphan'
  <2> SUFFICES ASSUME call' = NoCall
               PROVE  engineProc' # "running"
    BY DEF NoOrphan
  <2> QED
    BY DEF NoOrphan, NoCall
<1> QED
  BY <1>1, <1>4, <1>5, <1>6, <1>7, <1>8, <1>9, OverKeeps

LEMMA CloseStepKeeps ==
    ASSUME EngInv, CloseStep \/ WaitReaps
    PROVE  EngInv'
<1>1. /\ life = "closed" /\ stdout \in Seq(Message) /\ waiting \in BOOLEAN
      /\ stdinOpen \in BOOLEAN /\ strays \in Nat /\ expectSeq \in Nat
      /\ engineProc \in {"none", "running", "exited", "killed", "reaped"}
  <2>1. life = "closed"
    BY DEF CloseStep, CloseReads, CloseReadsGarbled, CloseSeesEnd, CloseTimesOut, CloseWaited,
           CloseKills, WaitReaps, Reads, EngInv, CallersFit, InCall, StraysCounted
  <2> QED
    BY <2>1 DEF EngInv, EngineTypeOK, Message
<1>2. CASE CloseReads
  <2>1. /\ At("close", "reading") /\ stdout' = Tail(stdout) /\ strays' = strays
        /\ expectSeq' \in {expectSeq, expectSeq + 1}
        /\ stdout # <<>>
    BY <1>2 DEF CloseReads, Reads
  <2>2. stdout' \in Seq(Message)
    BY <1>1, <2>1
  <2>3. strays' \in 0..(strays + 1)
    BY <1>1, <2>1
  <2>4. \/ UNCHANGED <<life, call, failed, ctxDone, sendSeq, lastTick, waiting,
                       stdinOpen, engineProc, stdin, engineSide>>
        \/ WaitsForExit
    BY <1>2 DEF CloseReads
  <2> QED
    BY <1>1, <2>1, <2>2, <2>3, <2>4, CloseMoves DEF WaitsForExit
<1>3. CASE CloseReadsGarbled
  <2>1. /\ At("close", "reading") /\ stdout' = Tail(stdout) /\ strays' \in 0..(strays + 1)
        /\ expectSeq' = expectSeq /\ stdout # <<>> /\ WaitsForExit
    BY <1>1, <1>3 DEF CloseReadsGarbled
  <2>2. stdout' \in Seq(Message)
    BY <1>1, <2>1
  <2> QED
    BY <1>1, <2>1, <2>2, CloseMoves DEF WaitsForExit
<1>4. CASE CloseSeesEnd
  <2>1. strays \in 0..(strays + 1)
    BY <1>1
  <2> QED
    BY <1>1, <1>4, <2>1, CloseMoves DEF CloseSeesEnd, WaitsForExit
<1>5. CASE CloseTimesOut
  <2>1. strays' \in 0..(strays + 1) /\ Killed # "running"
        /\ Killed \in {"none", "running", "exited", "killed", "reaped"}
    BY <1>1, <1>5 DEF CloseTimesOut, Killed
  <2> QED
    BY <1>1, <1>5, <2>1, CloseMoves DEF CloseTimesOut, CloseEnds, WaitsForExit
<1>6. CASE CloseWaited \/ CloseKills
  <2>1. /\ call' = NoCall /\ engineProc' # "running"
        /\ engineProc' \in {"none", "running", "exited", "killed", "reaped"}
        /\ UNCHANGED <<life, failed, ctxDone, sendSeq, expectSeq, lastTick, waiting,
                       stdinOpen, stdin, stdout, engineSide, strays>>
    BY <1>1, <1>6 DEF CloseWaited, CloseKills, CloseEnds, Killed
  <2> QED
    BY <1>1, <2>1, CloseMoves
<1>7. CASE WaitReaps
  <2>1. <<>> \in Seq(Message)
    OBVIOUS
  <2> QED
    BY <1>1, <1>7, <2>1, CloseMoves DEF WaitReaps
<1> QED
  BY <1>2, <1>3, <1>4, <1>5, <1>6, <1>7 DEF CloseStep

\* A read left behind, and the cancellation.
LEMMA StrayKeeps ==
    ASSUME EngInv, StrayReads \/ CancelCalls \/ UNCHANGED engineVars
    PROVE  EngInv'
<1> USE DEF EngInv
<1>1. CASE UNCHANGED engineVars
  BY <1>1 DEF engineVars, clientSide, engineSide, EngineTypeOK, CallersFit, InCall, StraysCounted,
     AsksWithinMatch, NotStarted, Numbered, OneAtATime, Unsent, CommandUnderWay, AnswerUnderWay,
     NoneComes, Gone, InStep, NoOrphan, At
<1>2. CASE CancelCalls
  BY <1>2 DEF CancelCalls, engineSide, EngineTypeOK, CallersFit, InCall, StraysCounted,
     AsksWithinMatch, NotStarted, Numbered, OneAtATime, Unsent, CommandUnderWay, AnswerUnderWay,
     NoneComes, Gone, InStep, NoOrphan, At
<1>3. CASE StrayReads
  <2>1. /\ strays > 0 /\ strays' = strays - 1 /\ strays \in 0..2
        /\ UNCHANGED <<life, call, failed, ctxDone, sendSeq, expectSeq, lastTick, waiting,
                       stdinOpen, engineProc, stdin, engineSide>>
        /\ failed \/ life = "closed"
    BY <1>3 DEF StrayReads, StraysCounted, EngineTypeOK
  <2>2. stdout' \in Seq(Message)
    BY <1>3, HeadOfOutput DEF StrayReads, EngineTypeOK, Message
  <2>3. EngineTypeOK'
    BY <2>1, <2>2 DEF EngineTypeOK, engineSide, Message
  <2>4. \A op \in Calls : ~InCall(op)
    BY <2>1 DEF CallersFit, InCall, Calls, Ops
  <2>5. CallersFit' /\ StraysCounted' /\ AsksWithinMatch' /\ NoOrphan'
    BY <2>1, <2>4 DEF CallersFit, InCall, StraysCounted, AsksWithinMatch, NoOrphan, At
  <2> QED
    BY <2>1, <2>3, <2>4, <2>5, OverKeeps DEF InCall, At
<1> QED
  BY <1>1, <1>2, <1>3

-----------------------------------------------------------------------------
(* The engine.                                                             *)

LEMMA MessageSent ==
    ASSUME stdout \in Seq(Message), NEW l \in Message, stdout' = Append(stdout, l)
    PROVE  /\ stdout' \in Seq(Message) /\ stdout' # <<>>
           /\ stdout = <<>> => Len(stdout') = 1 /\ stdout'[1] = l
<1>1. stdout' \in Seq(Message) /\ Len(stdout') = Len(stdout) + 1 /\ Len(stdout) \in Nat
      /\ stdout'[Len(stdout) + 1] = l
  OBVIOUS
<1> QED
  BY <1>1

\* The process ends, and nothing else happens.
LEMMA EngineEndsKeeps ==
    ASSUME EngInv, EngineInputEnds \/ EngineDies
    PROVE  EngInv'
<1>1. /\ engineProc = "running" /\ engineProc' = "exited"
      /\ UNCHANGED <<clientSide, stdin, stdout, engineSide>>
  BY DEF EngineInputEnds, EngineDies
<1>2. \A op \in Calls : OneAtATime!(op) => OneAtATime!(op)'
  BY <1>1 DEF Unsent, CommandUnderWay, AnswerUnderWay, NoneComes, Gone, At, clientSide, engineSide
<1>3. OneAtATime'
  BY <1>2 DEF EngInv, OneAtATime
<1>4. EngineTypeOK' /\ CallersFit' /\ StraysCounted' /\ AsksWithinMatch'
  BY <1>1 DEF EngInv, EngineTypeOK, CallersFit, InCall, StraysCounted, AsksWithinMatch, At,
              clientSide, engineSide
<1>5. NotStarted' /\ Numbered' /\ InStep' /\ NoOrphan'
  BY <1>1 DEF EngInv, NotStarted, Numbered, InStep, NoOrphan, clientSide, engineSide
<1> QED
  BY <1>3, <1>4, <1>5 DEF EngInv

\* What a running engine finds is what the method under way has asked for.
LEMMA EngineAsked ==
    ASSUME EngInv, ~failed, life # "closed", engineProc = "running",
           engineSeq = 1 \/ stdin # <<>>
    PROVE  \E op \in Calls :
               /\ At(op, "reading") /\ CommandUnderWay(op)
               /\ stdin # <<>> => Head(stdin).type = op /\ Tail(stdin) = <<>>
<1> USE DEF EngInv
<1>1. PICK op \in Calls : At(op, "reading")
  <2>1. call # NoCall
    BY DEF NotStarted, InStep, Numbered, EngineTypeOK
  <2>2. ~InCall("close") /\ ~At("close", "waiting")
    BY DEF CallersFit
  <2>3. PICK o \in Ops, g \in {"writing", "reading", "waiting"} :
            call = [op |-> o, stage |-> g]
    BY <2>1 DEF EngineTypeOK
  <2>4. At(o, g) /\ o \in Calls
    BY <2>2, <2>3 DEF At, InCall, Calls
  <2>5. ~At(o, "writing")
    <3> SUFFICES ASSUME At(o, "writing")
                 PROVE  FALSE
      OBVIOUS
    <3>1. Unsent /\ InCall(o)
      BY <2>4 DEF OneAtATime, InCall
    <3>2. life = "created" /\ engineSeq = 1
      BY <3>1 DEF Unsent, Numbered
    <3>3. o \notin {"initialize_match", "advance_tick", "finish_match"}
      BY <3>1, <3>2 DEF CallersFit
    <3> QED
      BY <2>4, <3>3 DEF CallersFit, Calls, Ops
  <2> QED
    BY <2>4, <2>5 DEF CallersFit, Calls
<1>2. CommandUnderWay(op)
  <2>1. ~NoneComes
    BY DEF NoneComes, Gone
  <2>2. ~AnswerUnderWay(op)
    BY DEF AnswerUnderWay, Numbered
  <2> QED
    BY <1>1, <2>1, <2>2 DEF OneAtATime
<1>3. stdin # <<>> => Head(stdin).type = op /\ Tail(stdin) = <<>>
  <2> SUFFICES ASSUME stdin # <<>>
               PROVE  Head(stdin).type = op /\ Tail(stdin) = <<>>
    OBVIOUS
  <2>1. PICK t \in 0..MatchTicks : stdin = <<[type |-> op, tick |-> t]>>
    BY <1>2 DEF CommandUnderWay
  <2>2. Tail(stdin) = <<>> /\ Head(stdin) = [type |-> op, tick |-> t]
    BY <2>1
  <2> QED
    BY <2>2
<1> QED
  BY <1>1, <1>2, <1>3

\* The engine reads a command, or starts, and answers at most once.
LEMMA EngineActs ==
    ASSUME EngInv, UNCHANGED <<clientSide, mode>>,
           engineProc = "running", engineProc' \in {"running", "exited"},
           engineTick' \in 0..MatchTicks,
           stdin' \in Seq(CommandSet), AsksWithinMatch',
           \/ engineSeq = 1 /\ stdin' = stdin
           \/ engineSeq > 1 /\ stdin # <<>> /\ stdin' = Tail(stdin),
           \/ /\ UNCHANGED <<engineSeq, stdout, engineTick>>
              /\ engineProc' = "exited"
           \/ \E l \in Message :
                 /\ stdout' = Append(stdout, l) /\ engineSeq' = l.seq + 1 /\ l.seq > 0
                 /\ ~failed /\ life # "closed" /\ l.type \notin {"noise", "engine_error"}
                    => l.tick = engineTick'
                 /\ l.type = "noise" => ~l.intact
                 /\ \/ engineTick' = engineTick
                    \/ stdin # <<>> /\ Head(stdin).type = "advance_tick"
    PROVE  EngInv'
<1> USE DEF EngInv
<1>1. UNCHANGED <<life, call, failed, ctxDone, sendSeq, expectSeq, lastTick, strays,
                waiting, stdinOpen>>
  BY DEF clientSide
<1>2. stdout' \in Seq(Message) /\ engineSeq' \in Nat \ {0}
  <2>1. stdout \in Seq(Message) /\ engineSeq \in Nat \ {0}
    BY DEF EngineTypeOK, Message
  <2>2. \A l \in Message : l.seq \in Nat
    BY DEF Message
  <2>3. ASSUME NEW l \in Message, stdout' = Append(stdout, l), engineSeq' = l.seq + 1
        PROVE  stdout' \in Seq(Message) /\ engineSeq' \in Nat \ {0}
    BY <2>1, <2>2, <2>3, MessageSent
  <2> QED
    BY <2>1, <2>3
<1>3. EngineTypeOK'
  BY <1>1, <1>2 DEF EngineTypeOK, Message, CommandSet
<1>4. CallersFit' /\ StraysCounted'
  BY <1>1 DEF CallersFit, InCall, StraysCounted, At
<1>5. NoOrphan'
  BY <1>1 DEF NoOrphan
<1>6. CASE failed \/ life = "closed"
  <2>1. \A op \in Calls : ~InCall(op)'
    BY <1>1, <1>6 DEF CallersFit, InCall, Calls, Ops, At
  <2> QED
    BY <1>1, <1>3, <1>4, <1>5, <1>6, <2>1, OverKeeps
<1>7. CASE ~failed /\ life # "closed"
  <2>1. PICK op \in Calls :
            /\ At(op, "reading") /\ CommandUnderWay(op)
            /\ stdin # <<>> => Head(stdin).type = op /\ Tail(stdin) = <<>>
    BY <1>7, EngineAsked
  <2>2. engineSeq = 1 => stdin = <<>>
    BY <1>7 DEF Numbered
  <2>3. /\ stdout = <<>> /\ expectSeq = engineSeq /\ lastTick = engineTick /\ stdin' = <<>>
        /\ stdin # <<>> => Head(stdin).type = op
    BY <2>1, <2>2 DEF CommandUnderWay
  <2>4. AnswerUnderWay(op)' \/ NoneComes'
    <3>1. CASE UNCHANGED <<engineSeq, stdout, engineTick>> /\ engineProc' = "exited"
      BY <2>3, <3>1 DEF NoneComes, Gone
    <3>2. ASSUME NEW l \in Message, stdout' = Append(stdout, l), engineSeq' = l.seq + 1,
                 l.type \notin {"noise", "engine_error"} => l.tick = engineTick',
                 l.type = "noise" => ~l.intact,
                 \/ engineTick' = engineTick
                 \/ stdin # <<>> /\ Head(stdin).type = "advance_tick"
          PROVE  AnswerUnderWay(op)'
      <4>1. Len(stdout') = 1 /\ stdout'[1] = l
        BY <2>3, <3>2, MessageSent DEF EngineTypeOK, Message
      <4>2. op = "finish_match" => lastTick' = engineTick'
        BY <1>1, <2>3, <3>2
      <4> QED
        BY <2>3, <3>2, <4>1, <4>2 DEF AnswerUnderWay
    <3> QED
      BY <1>7, <3>1, <3>2
  <2>5. OneAtATime'
    <3>1. \A o \in Calls : /\ At(o, "reading")' => o = op
                           /\ ~At(o, "writing")'
      BY <1>1, <2>1 DEF At
    <3> QED
      BY <2>4, <3>1 DEF OneAtATime
  <2>6. NotStarted' /\ InStep'
    BY <1>1, <2>1 DEF NotStarted, InStep, At, NoCall
  <2>7. Numbered'
    <3>1. engineSeq' = 1 => UNCHANGED <<engineSeq, stdout, engineTick>>
      BY DEF Message
    <3>2. engineSeq' = 1 => life = "created" /\ stdin' = <<>> /\ stdout' = <<>>
      BY <1>7, <2>3, <3>1 DEF Numbered
    <3>3. life \in {"created", "started"} => op # "advance_tick"
      BY <2>1 DEF CallersFit, InCall
    <3>4. life \in {"created", "started"} => engineTick' = engineTick
      BY <2>3, <3>3
    <3> QED
      BY <1>1, <1>7, <3>2, <3>4 DEF Numbered
  <2> QED
    BY <1>3, <1>4, <1>5, <2>5, <2>6, <2>7
<1> QED
  BY <1>6, <1>7


\* The four commands the engine reads, each once it is ready.
LEMMA EngineHandles ==
    ASSUME EngInv, NEW type, EngineGets(type)
    PROVE  /\ UNCHANGED <<clientSide, mode>> /\ engineProc = "running"
           /\ engineSeq \in Nat /\ engineSeq > 1 /\ engineTick \in 0..MatchTicks
           /\ stdin # <<>> /\ stdin' = Tail(stdin) /\ stdin' \in Seq(CommandSet)
           /\ Head(stdin).type = type
           /\ type = "advance_tick" => Head(stdin).tick + 1 \in 0..MatchTicks
           /\ AsksWithinMatch'
<1>1. /\ UNCHANGED <<clientSide, mode>> /\ engineProc = "running" /\ engineSeq > 1
      /\ stdin # <<>> /\ stdin' = Tail(stdin) /\ Head(stdin).type = type
  BY DEF EngineGets
<1>2. stdin \in Seq(CommandSet) /\ engineSeq \in Nat /\ engineTick \in 0..MatchTicks
  BY DEF EngInv, EngineTypeOK, CommandSet
<1>3. /\ stdin' \in Seq(CommandSet) /\ Head(stdin) = stdin[1] /\ 1 \in DOMAIN stdin
      /\ stdin[1] \in CommandSet
      /\ \A i \in DOMAIN stdin' : i + 1 \in DOMAIN stdin /\ stdin'[i] = stdin[i + 1]
  BY <1>1, <1>2
<1>4. AsksWithinMatch'
  BY <1>3 DEF EngInv, AsksWithinMatch
<1>5. type = "advance_tick" => Head(stdin).tick + 1 \in 0..MatchTicks
  <2>1. Head(stdin).tick \in 0..MatchTicks
    BY <1>3 DEF CommandSet
  <2>2. type = "advance_tick" => Head(stdin).tick < MatchTicks
    BY <1>1, <1>3 DEF EngInv, AsksWithinMatch
  <2> QED
    BY <2>1, <2>2, MaxTicksAssumption
<1> QED
  BY <1>1, <1>2, <1>3, <1>4, <1>5

\* What the engine writes is a message.
LEMMA WhatIsSaid ==
    ASSUME NEW seq \in Nat \ {0}, NEW tick \in 0..MatchTicks
    PROVE  /\ \A type \in Messages : Says(type, seq, tick) =>
                \E l \in Message : /\ stdout' = Append(stdout, l) /\ engineSeq' = l.seq + 1
                                   /\ l.seq > 0 /\ l.type = type /\ l.tick = tick
           /\ Spoils(seq) =>
                \E l \in Message : /\ stdout' = Append(stdout, l) /\ engineSeq' = l.seq + 1
                                   /\ l.seq > 0 /\ l.type = "noise" /\ ~l.intact
<1>1. ASSUME NEW type \in Messages, Says(type, seq, tick)
      PROVE  \E l \in Message : /\ stdout' = Append(stdout, l) /\ engineSeq' = l.seq + 1
                                /\ l.seq > 0 /\ l.type = type /\ l.tick = tick
  <2> DEFINE l == [type |-> type, seq |-> seq, tick |-> tick,
                   intact |-> TRUE, ours |-> mode # "mismatch_match_id"]
  <2>1. l \in Message /\ l.seq = seq /\ l.type = type /\ l.tick = tick
    BY DEF Message
  <2>2. stdout' = Append(stdout, l) /\ engineSeq' = seq + 1
    BY <1>1 DEF Says
  <2> HIDE DEF l
  <2> QED
    BY <2>1, <2>2
<1>2. ASSUME Spoils(seq)
      PROVE  \E l \in Message : /\ stdout' = Append(stdout, l) /\ engineSeq' = l.seq + 1
                                /\ l.seq > 0 /\ l.type = "noise" /\ ~l.intact
  <2> DEFINE l == [type |-> "noise", seq |-> seq, tick |-> 0, intact |-> FALSE, ours |-> TRUE]
  <2>1. l \in Message /\ l.seq = seq /\ l.type = "noise" /\ ~l.intact
    BY MaxTicksAssumption DEF Message, Messages
  <2>2. stdout' = Append(stdout, l) /\ engineSeq' = seq + 1
    BY <1>2 DEF Spoils
  <2> HIDE DEF l
  <2> QED
    BY <2>1, <2>2
<1> QED
  BY <1>1, <1>2

LEMMA ReadyKeeps ==
    ASSUME EngInv, EngineReady
    PROVE  EngInv'
<1>1. /\ UNCHANGED <<clientSide, mode>> /\ engineProc = "running" /\ engineSeq = 1
      /\ stdin' = stdin /\ engineTick' = engineTick /\ engineTick \in 0..MatchTicks
      /\ stdin' \in Seq(CommandSet)
  BY DEF EngineReady, EngInv, EngineTypeOK, CommandSet
<1>2. AsksWithinMatch'
  BY <1>1 DEF EngInv, AsksWithinMatch
<1>3. CASE Exits
  BY <1>1, <1>2, <1>3, EngineActs DEF Exits
<1>4. CASE Spoils(1) /\ engineProc' \in {"running", "exited"}
  BY <1>1, <1>2, <1>4, WhatIsSaid, EngineActs
<1>5. CASE /\ stdout' = Append(stdout, [type |-> "engine_ready", seq |-> 1,
                                        tick |-> 0, intact |-> TRUE, ours |-> TRUE])
           /\ engineSeq' = 2 /\ UNCHANGED engineProc
  <2> DEFINE l == [type |-> "engine_ready", seq |-> 1, tick |-> 0, intact |-> TRUE,
                   ours |-> TRUE]
  <2>1. l \in Message /\ l.seq = 1 /\ l.type = "engine_ready" /\ l.tick = 0
    BY MaxTicksAssumption DEF Message, Messages
  <2>2. stdout' = Append(stdout, l) /\ engineSeq' = l.seq + 1
    BY <1>5, <2>1
  <2>3. ~failed /\ life # "closed" => engineTick' = 0
    BY <1>1 DEF EngInv, Numbered
  <2> HIDE DEF l
  <2> QED
    BY <1>1, <1>2, <1>5, <2>1, <2>2, <2>3, EngineActs
<1> QED
  BY <1>1, <1>3, <1>4, <1>5 DEF EngineReady

LEMMA HandledKeeps ==
    ASSUME EngInv,
           EngineInitializes \/ EngineAdvances \/ EngineFinishes \/ EngineShutsDown
    PROVE  EngInv'
<1>1. 0 \in 0..MatchTicks /\ BadSeq \in Nat \ {0}
  BY MaxTicksAssumption DEF BadSeq
<1>2. CASE EngineInitializes
  <2>1. /\ UNCHANGED <<clientSide, mode>> /\ engineProc = "running"
        /\ engineSeq \in Nat /\ engineSeq > 1 /\ engineTick \in 0..MatchTicks
        /\ stdin # <<>> /\ stdin' = Tail(stdin) /\ stdin' \in Seq(CommandSet)
        /\ Head(stdin).type = "initialize_match" /\ AsksWithinMatch'
        /\ engineTick' = engineTick
    BY <1>2, EngineHandles DEF EngineInitializes
  <2>2. CASE Exits
    BY <2>1, <2>2, EngineActs DEF Exits
  <2>3. ~failed /\ life # "closed" => engineTick' = 0
    <3> SUFFICES ASSUME ~failed, life # "closed"
                 PROVE  engineTick = 0
      BY <2>1
    <3>1. At("initialize_match", "reading")
      BY <2>1, EngineAsked
    <3> QED
      BY <3>1 DEF EngInv, CallersFit, InCall, Numbered
  <2>4. CASE \E type \in {"match_initialized", "engine_error"}, seq \in {engineSeq, BadSeq} :
                Says(type, seq, 0) /\ UNCHANGED engineProc
    <3>1. PICK type \in {"match_initialized", "engine_error"}, seq \in {engineSeq, BadSeq} :
                Says(type, seq, 0) /\ UNCHANGED engineProc
      BY <2>4
    <3>2. seq \in Nat \ {0}
      BY <1>1, <2>1
    <3>3. PICK l \in Message : /\ stdout' = Append(stdout, l) /\ engineSeq' = l.seq + 1
                               /\ l.seq > 0 /\ l.type = type /\ l.tick = 0
      BY <1>1, <3>1, <3>2, WhatIsSaid DEF Messages
    <3> QED
      BY <2>1, <2>3, <3>1, <3>3, EngineActs
  <2> QED
    BY <1>2, <2>2, <2>4 DEF EngineInitializes, Messages
<1>3. CASE EngineAdvances
  <2>1. /\ UNCHANGED <<clientSide, mode>> /\ engineProc = "running"
        /\ engineSeq \in Nat /\ engineSeq > 1 /\ engineTick \in 0..MatchTicks
        /\ stdin # <<>> /\ stdin' = Tail(stdin) /\ stdin' \in Seq(CommandSet)
        /\ Head(stdin).type = "advance_tick" /\ AsksWithinMatch'
        /\ Head(stdin).tick + 1 \in 0..MatchTicks
    BY <1>3, EngineHandles DEF EngineAdvances
  <2>2. CASE Exits /\ UNCHANGED engineTick
    BY <2>1, <2>2, EngineActs DEF Exits
  <2>3. CASE Spoils(engineSeq) /\ UNCHANGED <<engineProc, engineTick>>
    <3>1. PICK l \in Message : /\ stdout' = Append(stdout, l) /\ engineSeq' = l.seq + 1
                               /\ l.seq > 0 /\ l.type = "noise" /\ ~l.intact
      BY <1>1, <2>1, <2>3, WhatIsSaid
    <3> QED
      BY <2>1, <2>3, <3>1, EngineActs
  <2>4. CASE /\ engineTick' = Head(stdin).tick + 1
             /\ Says("tick_completed", engineSeq, engineTick')
             /\ UNCHANGED engineProc
    <3> DEFINE t == Head(stdin).tick + 1
    <3>1. t \in 0..MatchTicks /\ engineTick' = t /\ Says("tick_completed", engineSeq, t)
      BY <2>1, <2>4
    <3> HIDE DEF t
    <3>2. PICK l \in Message : /\ stdout' = Append(stdout, l) /\ engineSeq' = l.seq + 1
                               /\ l.seq > 0 /\ l.type = "tick_completed" /\ l.tick = t
      BY <2>1, <3>1, WhatIsSaid DEF Messages
    <3> QED
      BY <2>1, <2>4, <3>1, <3>2, EngineActs
  <2> QED
    BY <1>3, <2>2, <2>3, <2>4 DEF EngineAdvances
<1>4. CASE EngineFinishes
  <2>1. /\ UNCHANGED <<clientSide, mode>> /\ engineProc = "running"
        /\ engineSeq \in Nat /\ engineSeq > 1 /\ engineTick \in 0..MatchTicks
        /\ stdin # <<>> /\ stdin' = Tail(stdin) /\ stdin' \in Seq(CommandSet)
        /\ AsksWithinMatch' /\ UNCHANGED <<engineProc, engineTick>>
    BY <1>4, EngineHandles DEF EngineFinishes
  <2>2. PICK l \in Message :
            /\ stdout' = Append(stdout, l) /\ engineSeq' = l.seq + 1
            /\ l.seq > 0 /\ l.type = "match_completed" /\ l.tick = engineTick
    BY <1>4, <2>1, WhatIsSaid DEF EngineFinishes, Messages
  <2> QED
    BY <2>1, <2>2, EngineActs
<1>5. CASE EngineShutsDown
  <2>1. /\ UNCHANGED <<clientSide, mode>> /\ engineProc = "running" /\ engineProc' = "exited"
        /\ engineSeq \in Nat /\ engineSeq > 1 /\ engineTick \in 0..MatchTicks
        /\ stdin # <<>> /\ stdin' = Tail(stdin) /\ stdin' \in Seq(CommandSet)
        /\ Head(stdin).type = "shutdown" /\ AsksWithinMatch' /\ UNCHANGED engineTick
    BY <1>5, EngineHandles DEF EngineShutsDown
  <2>2. failed \/ life = "closed"
    BY <2>1, EngineAsked DEF Calls, Ops
  <2>3. PICK l \in Message :
            /\ stdout' = Append(stdout, l) /\ engineSeq' = l.seq + 1
            /\ l.seq > 0 /\ l.type = "shutdown_ack" /\ l.tick = 0
    BY <1>1, <1>5, <2>1, WhatIsSaid DEF EngineShutsDown, Messages
  <2> QED
    BY <2>1, <2>2, <2>3, EngineActs
<1> QED
  BY <1>2, <1>3, <1>4, <1>5

LEMMA EngineStep == EngInv /\ [EngineNext]_engineVars => EngInv'
<1> SUFFICES ASSUME EngInv, [EngineNext]_engineVars
             PROVE  EngInv'
  OBVIOUS
<1>1. CASE StartCall \/ InitializeMatch \/ AdvanceTick \/ FinishMatch \/ WriteStep
  BY <1>1, CallsKeep, WriteKeeps
<1>2. CASE Answers \/ CallStep
  BY <1>2, AnswersKeep
<1>3. CASE CloseCall
  BY <1>3, CloseCallKeeps
<1>4. CASE CloseStep \/ WaitReaps
  BY <1>4, CloseStepKeeps
<1>5. CASE StrayReads \/ CancelCalls \/ UNCHANGED engineVars
  BY <1>5, StrayKeeps
<1>6. CASE EngineReady
  BY <1>6, ReadyKeeps
<1>7. CASE EngineInitializes \/ EngineAdvances \/ EngineFinishes \/ EngineShutsDown
  BY <1>7, HandledKeeps
<1>8. CASE EngineInputEnds \/ EngineDies
  BY <1>8, EngineEndsKeeps
<1> QED
  BY <1>1, <1>2, <1>3, <1>4, <1>5, <1>6, <1>7, <1>8 DEF EngineNext

LEMMA EngineSafe == EngineSpec => []EngInv
<1>1. EngineInit => EngInv
  BY InitEngInv
<1>2. EngInv /\ [EngineNext]_engineVars => EngInv'
  BY EngineStep
<1> QED
  BY <1>1, <1>2, PTL DEF EngineSpec

\* The client and the pipes keep to their types; in particular never more than
\* two reads are left behind (receive and Close, subprocess.go).
THEOREM EngineTyped == EngineSpec => []EngineTypeOK
<1>1. EngInv => EngineTypeOK
  BY DEF EngInv
<1> QED
  BY <1>1, EngineSafe, PTL

\* Between two calls none of which has failed, the client and the engine agree
\* on the next number and the tick, and nothing is left in the pipes or being
\* read: no call of subprocess.go can take the answer to an earlier one.
THEOREM ClientInStep == EngineSpec => []InStep
<1>1. EngInv => InStep
  BY DEF EngInv
<1> QED
  BY <1>1, EngineSafe, PTL

\* When Close has returned, or Start has failed, no engine runs: every path of
\* Close ends with the process waited for or killed, and Start kills its own.
THEOREM NoEngineOrphaned == EngineSpec => []NoOrphan
<1>1. EngInv => NoOrphan
  BY DEF EngInv
<1> QED
  BY <1>1, EngineSafe, PTL
=================================================================================
