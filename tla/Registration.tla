----------------------------- MODULE Registration -----------------------------
(***************************************************************************)
(* How an agent gets into a contest: its owner uploads bundles, each of    *)
(* which becomes a version (src/src/service/submissions.go), and enrols it *)
(* with one of them (src/src/service/contests.go) while the administrator  *)
(* moves the contest through its states (src/src/model/state_machine.go).  *)
(*                                                                         *)
(* Every request is a sequence of statements and file writes without a     *)
(* transaction around them; several requests of one owner or of several    *)
(* interleave, and any statement may fail.  There is one contest, whose    *)
(* game is the agents' game; that a user acts for their own agents only is *)
(* taken for granted, except that a submission may be anybody's.           *)
(***************************************************************************)
EXTENDS Integers, FiniteSets

CONSTANTS
    Agents,
    Uploads,    \* bound: the requests to upload a bundle
    Enrolments, \* bound: the requests to enrol an agent
    BodyStates  \* bound: the states a request to update the contest names

ASSUME UploadsAssumption == IsFiniteSet(Uploads) /\ "none" \notin Uploads

VARIABLES
    contest,     \* its state, and whether it is active
    agentActive,
    subs,        \* rows of submissions: upload, agent, version
    files,       \* files[<<a, v, kind>>]: whose upload the file is from
    up,          \* up[u]: the upload request
    entries,     \* rows of contest_entries: agent, upload
    ranked,      \* agents with a row in rankings
    enrol,       \* enrol[e]: the enrolment request
    clean        \* no two uploads of an agent have overlapped, no list failed

regVars == <<contest, agentActive, subs, files, up, entries, ranked, enrol, clean>>
uploadVars == <<subs, files, up, clean>>
enrolVars == <<entries, ranked, enrol>>

Versions == 1..(Cardinality(Uploads) + 1)
Kinds == {"bot", "manifest", "bundle"}
ContestStates == {"draft", "published", "registration_open", "open", "preparation",
                  "in_progress", "live", "final_selection", "live_final", "finished",
                  "completed", "archived", "suspended", "cancelled"}
Rows == [upload: Uploads, agent: Agents, version: Versions]
NoUpload == [pc |-> "idle", agent |-> "none", version |-> 0]
NoEnrolment == [pc |-> "idle", agent |-> "none", upload |-> "none"]

RegTypeOK ==
    /\ contest \in [state: ContestStates, active: BOOLEAN]
    /\ agentActive \in [Agents -> BOOLEAN]
    /\ subs \subseteq Rows
    /\ files \in [Agents \X Versions \X Kinds -> Uploads \union {"none"}]
    /\ \A u \in Uploads : \/ up[u] = NoUpload
                          \/ up[u] \in [pc: {"bot", "manifest", "bundle", "insert", "done", "failed"},
                                        agent: Agents, version: Versions]
    /\ entries \subseteq [agent: Agents, upload: Uploads]
    /\ ranked \subseteq Agents
    /\ \A e \in Enrolments : \/ enrol[e] = NoEnrolment
                             \/ enrol[e] \in [pc: {"checked", "inserted", "done", "failed"},
                                              agent: Agents, upload: Uploads]
    /\ clean \in BOOLEAN

RegInit ==
    /\ contest = [state |-> "draft", active |-> TRUE]
    /\ agentActive = [a \in Agents |-> TRUE]
    /\ subs = {}
    /\ files = [f \in Agents \X Versions \X Kinds |-> "none"]
    /\ up = [u \in Uploads |-> NoUpload]
    /\ entries = {} /\ ranked = {}
    /\ enrol = [e \in Enrolments |-> NoEnrolment]
    /\ clean = TRUE

ASSUME BodyStatesAssumption == BodyStates \subseteq ContestStates

-----------------------------------------------------------------------------
(* Contests and agents.                                                    *)

\* CanTransitionTo.
ContestNext ==
    LET finals == {"completed", "finished"}
        playing == {"in_progress", "live"}
    IN  [s \in ContestStates |->
          CASE s = "draft" -> {"open", "published", "registration_open", "cancelled"}
            [] s = "published" -> {"registration_open", "open", "preparation", "cancelled"}
            [] s \in {"registration_open", "open"} -> playing \union {"preparation", "cancelled"}
            [] s = "preparation" -> playing \union {"cancelled"}
            [] s \in playing -> finals \union {"final_selection", "live_final", "suspended", "cancelled"}
            [] s = "final_selection" -> finals \union {"live_final", "cancelled"}
            [] s = "live_final" -> finals \union {"cancelled"}
            [] s = "suspended" -> playing \union {"cancelled"}
            [] s \in finals -> {"archived"}
            [] OTHER -> {}]

\* The transition is checked against the expected state, which is compared
\* with the row's.
UpdateContestStateCAS(expected, new) ==
    /\ new \in ContestNext[expected]
    /\ contest.state = expected
    /\ contest' = [contest EXCEPT !.state = new]
    /\ UNCHANGED <<agentActive, uploadVars, enrolVars>>

\* The whole row is written from the body of the request; without a state in
\* it the contest is a draft, without "active" it is not active.
UpdateContest(state, active) ==
    /\ contest' = [state |-> state, active |-> active]
    /\ UNCHANGED <<agentActive, uploadVars, enrolVars>>

ActivateContest(active) ==
    /\ contest' = [contest EXCEPT !.active = active]
    /\ UNCHANGED <<agentActive, uploadVars, enrolVars>>

ActivateAgent(a, active) ==
    /\ agentActive' = [agentActive EXCEPT ![a] = active]
    /\ UNCHANGED <<contest, uploadVars, enrolVars>>

-----------------------------------------------------------------------------
(* Uploads.                                                                *)

Pending(a) == {u \in Uploads : up[u].agent = a /\ up[u].pc \notin {"done", "failed"}}
RowsOf(a) == {s \in subs : s.agent = a}

\* Mutant: the version is one less than it should be from the second on.
CountVersionsShort(u, a, fails) ==
    /\ up[u].pc = "idle" /\ agentActive[a]
    /\ up' = [up EXCEPT ![u] = [pc |-> "bot", agent |-> a,
                 version |-> IF fails \/ RowsOf(a) = {} THEN 1 ELSE Cardinality(RowsOf(a))]]
    /\ clean' = (clean /\ ~fails /\ Pending(a) = {})
    /\ UNCHANGED <<contest, agentActive, subs, files, enrolVars>>

\* The bundle has been read and the bot admitted.  The version is the number
\* of rows plus one, or 1 when they cannot be listed.
CountVersions(u, a, fails) ==
    /\ up[u].pc = "idle" /\ agentActive[a]
    /\ up' = [up EXCEPT ![u] = [pc |-> "bot", agent |-> a,
                 version |-> IF fails THEN 1 ELSE Cardinality(RowsOf(a)) + 1]]
    /\ clean' = (clean /\ ~fails /\ Pending(a) = {})
    /\ UNCHANGED <<contest, agentActive, subs, files, enrolVars>>

AfterSave == [bot |-> "manifest", manifest |-> "bundle", bundle |-> "insert"]

\* The three files go one after the other to the directory of the version.
Save(u) ==
    \E kind \in Kinds :
        /\ up[u].pc = kind
        /\ \/ /\ files' = [files EXCEPT ![<<up[u].agent, up[u].version, kind>>] = u]
              /\ up' = [up EXCEPT ![u].pc = AfterSave[kind]]
           \/ up' = [up EXCEPT ![u].pc = "failed"] /\ UNCHANGED files
        /\ UNCHANGED <<contest, agentActive, subs, clean, enrolVars>>

CreateSubmission(u) ==
    /\ up[u].pc = "insert"
    /\ \/ /\ subs' = subs \union {[upload |-> u, agent |-> up[u].agent, version |-> up[u].version]}
          /\ up' = [up EXCEPT ![u].pc = "done"]
       \/ up' = [up EXCEPT ![u].pc = "failed"] /\ UNCHANGED subs
    /\ UNCHANGED <<contest, agentActive, files, clean, enrolVars>>

-----------------------------------------------------------------------------
(* Enrolments.                                                             *)

EntryOf(a) == {x \in entries : x.agent = a}

\* The newest ready submission of the agent, or one the request names.
Newest(a) == {s \in RowsOf(a) : \A r \in RowsOf(a) : r.version <= s.version}
\* Mutant: whose submission is named is not looked at.
ChosenAny(a) == Newest(a) \union subs
Chosen(a) == Newest(a) \union RowsOf(a)

\* All the reads of EnrollAgent, in a row: what they find may be stale when
\* the statements that follow are executed.
CheckEnrolment(e, a) ==
    /\ enrol[e].pc = "idle"
    /\ contest.active /\ contest.state = "registration_open"
    /\ agentActive[a]
    /\ EntryOf(a) = {} /\ a \notin ranked
    /\ \E s \in Chosen(a) :
        enrol' = [enrol EXCEPT ![e] = [pc |-> "checked", agent |-> a, upload |-> s.upload]]
    /\ UNCHANGED <<contest, agentActive, uploadVars, entries, ranked>>

EntryRow(e) == [agent |-> enrol[e].agent, upload |-> enrol[e].upload]

\* The insert fails for an agent that has been enrolled meanwhile.
CreateContestEntry(e) ==
    /\ enrol[e].pc = "checked"
    /\ \/ /\ EntryOf(enrol[e].agent) = {}
          /\ entries' = entries \union {EntryRow(e)}
          /\ enrol' = [enrol EXCEPT ![e].pc = "inserted"]
       \/ /\ enrol' = [enrol EXCEPT ![e].pc = "failed"]
          /\ UNCHANGED entries
    /\ UNCHANGED <<contest, agentActive, uploadVars, ranked>>

\* Mutant: an error of the second statement is not returned.
InsertRankingQuietly(e) ==
    /\ enrol[e].pc = "inserted"
    /\ ranked' \in {ranked, ranked \union {enrol[e].agent}}
    /\ enrol' = [enrol EXCEPT ![e].pc = "done"]
    /\ UNCHANGED <<contest, agentActive, uploadVars, entries>>

\* When it fails the entry stays, and a later request finds it.
InsertRanking(e) ==
    /\ enrol[e].pc = "inserted"
    /\ \/ /\ ranked' = ranked \union {enrol[e].agent}
          /\ enrol' = [enrol EXCEPT ![e].pc = "done"]
       \/ /\ enrol' = [enrol EXCEPT ![e].pc = "failed"]
          /\ UNCHANGED ranked
    /\ UNCHANGED <<contest, agentActive, uploadVars, entries>>

\* A recalculation writes a row for every agent that is entered or has played a
\* match of the contest, entered or not.
RecalculationAddsRow(a) ==
    /\ RowsOf(a) # {}
    /\ ranked' = ranked \union {a}
    /\ UNCHANGED <<contest, agentActive, uploadVars, entries, enrol>>

-----------------------------------------------------------------------------

UploadStep(u) ==
    \/ \E a \in Agents, fails \in BOOLEAN : CountVersions(u, a, fails)
    \/ Save(u) \/ CreateSubmission(u)

EnrolStep(e) ==
    \/ \E a \in Agents : CheckEnrolment(e, a)
    \/ CreateContestEntry(e) \/ InsertRanking(e)

AdminStep ==
    \/ \E s \in ContestStates : \E t \in ContestNext[s] : UpdateContestStateCAS(s, t)
    \/ \E s \in BodyStates, active \in BOOLEAN : UpdateContest(s, active)
    \/ \E active \in BOOLEAN : ActivateContest(active)
    \/ \E a \in Agents, active \in BOOLEAN : ActivateAgent(a, active)

RegNext ==
    \/ \E u \in Uploads : UploadStep(u)
    \/ \E e \in Enrolments : EnrolStep(e)
    \/ \E a \in Agents : RecalculationAddsRow(a)
    \/ AdminStep

RegSpec == RegInit /\ [][RegNext]_regVars

-----------------------------------------------------------------------------

OwnFiles(s) == \A kind \in Kinds : files[<<s.agent, s.version, kind>>] = s.upload

\* A submission runs the code that was admitted for it, however often its
\* agent is uploaded again, also when an upload fails half way.
VersionsImmutable == \A s \in subs : OwnFiles(s)

\* It does as long as the uploads of an agent come one after the other and
\* its versions could be listed every time.
CleanVersionsImmutable == clean => VersionsImmutable

\* An agent is in the contest at most once, and with its own code, however
\* many requests to enrol it are under way.
EntriesSound ==
    \A x \in entries : /\ EntryOf(x.agent) = {x}
                       /\ \E s \in subs : s.upload = x.upload /\ s.agent = x.agent

\* An enrolment that was confirmed is on the leaderboard as well.
ConfirmedIsRanked ==
    \A e \in Enrolments : enrol[e].pc = "done"
                          => EntryRow(e) \in entries /\ enrol[e].agent \in ranked

\* A contest moves through its states as the machine says.
ContestFollowsMachine ==
    [][contest'.state # contest.state => contest'.state \in ContestNext[contest.state]]_regVars
===============================================================================
