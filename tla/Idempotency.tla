----------------------------- MODULE Idempotency -----------------------------
(***************************************************************************)
(* The Idempotency-Key of POST /matches/{id}/run: service/matches.go looks  *)
(* the key up before RunMatch and stores the answer after it, two           *)
(* statements with the whole request between them, whose errors it ignores. *)
(* Requests that carry the same key may overlap or fail halfway.  What lies  *)
(* between the two is one step here; MatchPipeline has its parts.            *)
(***************************************************************************)
EXTENDS Integers, FiniteSets

CONSTANTS
    Keys,
    Senders,        \* the requests, each made once
    KeyOf,          \* KeyOf[s]: the key s carries
    Targets,        \* the matches
    TargetOf,       \* TargetOf[s]: the match s asks to run
    RunBound        \* bound: the runs of a match

ASSUME IdempotencyAssumption ==
    /\ KeyOf \in [Senders -> Keys] /\ TargetOf \in [Senders -> Targets]
    /\ RunBound \in Nat

VARIABLES
    idemKeys,       \* idemKeys[k]: the stored answers of k, at most one
    matchStatus,    \* matchStatus[m]: of the match
    lastRun,        \* lastRun[m]: the number of its latest run
    request,        \* request[s]: step and answer
    replayed,       \* history: the answers given from a record, and to whom
    started,        \* history: the requests that started a run
    disturbed       \* history: keys whose requests overlapped or lost a statement

idemVars == <<idemKeys, matchStatus, lastRun, request, replayed, started, disturbed>>

\* The answers of RunMatch: the run that a request started or found under way.
RunAnswers == [match: Targets, run: 1..RunBound]
NoAnswer == {}

IdemTypeOK ==
    /\ idemKeys \in [Keys -> SUBSET RunAnswers]
    /\ \A k \in Keys : Cardinality(idemKeys[k]) <= 1
    /\ matchStatus \in [Targets -> {"startable", "active", "finished"}]
    /\ lastRun \in [Targets -> 0..RunBound]
    /\ request \in [Senders -> [step: {"new", "run", "save", "answered", "failed"},
                                answer: SUBSET RunAnswers]]
    /\ \A s \in Senders : request[s].step \in {"save", "answered"} <=>
           Cardinality(request[s].answer) = 1
    /\ replayed \subseteq [sender: Senders, answer: RunAnswers]
    /\ started \subseteq Senders /\ disturbed \subseteq Keys

IdemInit ==
    /\ idemKeys = [k \in Keys |-> NoAnswer]
    /\ matchStatus = [m \in Targets |-> "startable"]
    /\ lastRun = [m \in Targets |-> 0]
    /\ request = [s \in Senders |-> [step |-> "new", answer |-> NoAnswer]]
    /\ replayed = {} /\ started = {} /\ disturbed = {}

OnStep(s, p) == request[s].step = p
Moves(s, p, a) == request' = [request EXCEPT ![s] = [step |-> p, answer |-> a]]

\* A request with this key has been let through and is not answered yet.
UnderWay(k) == \E s \in Senders : KeyOf[s] = k /\ (OnStep(s, "run") \/ OnStep(s, "save"))

\* A look-up that fails, or whose record cannot be read back, finds nothing.
LookUpKey(s) ==
    LET k == KeyOf[s] IN
    /\ OnStep(s, "new")
    /\ \/ /\ idemKeys[k] # {}
          /\ Moves(s, "answered", idemKeys[k])
          /\ replayed' = replayed \union [sender: {s}, answer: idemKeys[k]]
          /\ UNCHANGED disturbed
       \/ /\ Moves(s, "run", NoAnswer)
          /\ disturbed' = IF idemKeys[k] # {} \/ UnderWay(k)
                          THEN disturbed \union {k} ELSE disturbed
          /\ UNCHANGED replayed
    /\ UNCHANGED <<idemKeys, matchStatus, lastRun, started>>

\* Mutant: a run that is started is answered at once.
StartRunUnsaved(s) ==
    LET m == TargetOf[s] IN
    /\ OnStep(s, "run") /\ matchStatus[m] = "startable" /\ lastRun[m] < RunBound
    /\ matchStatus' = [matchStatus EXCEPT ![m] = "active"]
    /\ lastRun' = [lastRun EXCEPT ![m] = @ + 1]
    /\ Moves(s, "answered", {[match |-> m, run |-> lastRun'[m]]})
    /\ started' = started \union {s}
    /\ UNCHANGED <<idemKeys, replayed, disturbed>>

\* A startable match is queued with a new run; one that is queued or running is
\* answered with the run it has, and that answer is not stored; a finished match
\* is refused.
StartRun(s) ==
    LET m == TargetOf[s] IN
    /\ OnStep(s, "run") /\ matchStatus[m] = "startable" /\ lastRun[m] < RunBound
    /\ matchStatus' = [matchStatus EXCEPT ![m] = "active"]
    /\ lastRun' = [lastRun EXCEPT ![m] = @ + 1]
    /\ Moves(s, "save", {[match |-> m, run |-> lastRun'[m]]})
    /\ started' = started \union {s}
    /\ UNCHANGED <<idemKeys, replayed, disturbed>>

AnswerActive(s) ==
    LET m == TargetOf[s] IN
    /\ OnStep(s, "run") /\ matchStatus[m] = "active"
    /\ Moves(s, "answered", {[match |-> m, run |-> lastRun[m]]})
    /\ UNCHANGED <<idemKeys, matchStatus, lastRun, replayed, started, disturbed>>

\* An error after the run was created leaves it without a stored answer.
RequestFails(s) ==
    /\ OnStep(s, "run") \/ OnStep(s, "save")
    /\ Moves(s, "failed", NoAnswer)
    /\ disturbed' = IF OnStep(s, "save") THEN disturbed \union {KeyOf[s]} ELSE disturbed
    /\ UNCHANGED <<idemKeys, matchStatus, lastRun, replayed, started>>

\* Mutant: the latest answer wins.
SaveOverwrites(s) ==
    /\ OnStep(s, "save")
    /\ Moves(s, "answered", request[s].answer)
    /\ idemKeys' = [idemKeys EXCEPT ![KeyOf[s]] = request[s].answer]
    /\ UNCHANGED <<matchStatus, lastRun, replayed, started, disturbed>>

\* INSERT ... ON CONFLICT DO NOTHING; its error is ignored.
SaveIdempotencyRecord(s) ==
    /\ OnStep(s, "save")
    /\ Moves(s, "answered", request[s].answer)
    /\ \/ /\ idemKeys' = [idemKeys EXCEPT ![KeyOf[s]] = IF @ = {} THEN request[s].answer ELSE @]
          /\ UNCHANGED disturbed
       \/ /\ disturbed' = disturbed \union {KeyOf[s]}
          /\ UNCHANGED idemKeys
    /\ UNCHANGED <<matchStatus, lastRun, replayed, started>>

\* The execution ends.
MatchEnds(m) ==
    /\ matchStatus[m] = "active"
    /\ \E result \in {"startable", "finished"} : matchStatus' = [matchStatus EXCEPT ![m] = result]
    /\ UNCHANGED <<idemKeys, lastRun, request, replayed, started, disturbed>>

IdemNext ==
    \/ \E s \in Senders :
        \/ LookUpKey(s) \/ StartRun(s) \/ AnswerActive(s) \/ RequestFails(s)
        \/ SaveIdempotencyRecord(s)
    \/ \E m \in Targets : MatchEnds(m)

IdemSpec == IdemInit /\ [][IdemNext]_idemVars

-----------------------------------------------------------------------------
\* What is answered from the record of a key is the same run every time, one of
\* a match that a request with this key named, however requests overlap.
RepeatsAgree == \A x, y \in replayed :
    /\ KeyOf[x.sender] = KeyOf[y.sender] => x.answer = y.answer
    /\ \E s \in Senders :
        KeyOf[s] = KeyOf[x.sender] /\ x.answer.match = TargetOf[s]

\* However often a key is repeated it starts one run, if its requests come one
\* after the other, its look-ups and its one store succeed, and no request ends
\* with an error between a run and its store.
OneRunPerKey == \A x, y \in started :
    KeyOf[x] = KeyOf[y] /\ KeyOf[x] \notin disturbed => x = y
=============================================================================
