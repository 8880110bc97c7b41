------------------------------ MODULE MCExecution ------------------------------
(***************************************************************************)
(* The parts an execution is made of, each with an environment of its own: *)
(* the bots of a match, its engine, and the course of the match with both. *)
(* They run side by side, one in every behaviour: part says which.         *)
(***************************************************************************)
EXTENDS BotSession, EngineClient, MatchPlay

CONSTANTS b1, b2

VARIABLE part

parts == <<botVars, engineVars, playVars, part>>

MCInit ==
    /\ part \in {"bots", "engine", "play"}
    /\ BotInit /\ EngineInit /\ PlayInit
    /\ part # "engine" => mode = "normal"

MCNext ==
    \/ part = "bots" /\ BotNext
       /\ UNCHANGED <<engineVars, playVars, part>>
    \/ part = "engine" /\ EngineNext
       /\ UNCHANGED <<botVars, playVars, part>>
    \/ part = "play" /\ PlayNext
       /\ UNCHANGED <<botVars, engineVars, part>>

\* The fairness of each module, in the behaviours that are its own.
MCSpec ==
    /\ MCInit /\ [][MCNext]_parts
    /\ \A b \in Bots : /\ WF_botVars(part = "bots" /\ Send(b))
                       /\ WF_botVars(part = "bots" /\ Receive(b))
                       /\ WF_botVars(part = "bots" /\ CloseBot(b))
                       /\ WF_botVars(part = "bots" /\ Reader(b))
    /\ WF_botVars(part = "bots" /\ CloseReturns)
    /\ WF_engineVars(part = "engine" /\ WriteReturns /\ WriteStep)
    /\ WF_engineVars(part = "engine" /\ (Answers \/ CallStep))
    /\ WF_engineVars(part = "engine" /\ CloseStep)
    /\ WF_engineVars(part = "engine" /\ WaitReaps)
    /\ WF_engineVars(part = "engine" /\ StrayReads)
===============================================================================
