------------------------------- MODULE Rankings -------------------------------
(***************************************************************************)
(* The leaderboard of one contest (src/src/service/rankings.go): workers   *)
(* that have committed a match, and administrators, recalculate it from    *)
(* the committed matches; administrators publish snapshots of it; and an   *)
(* enrolment (EnrollAgent, contests.go) writes the first row of an agent,  *)
(* by the same upsert, over whatever row there is.                         *)
(*                                                                         *)
(* A recalculation reads the entries and then the matches, and makes one   *)
(* upsert per agent at its end, without a transaction or a lock; any       *)
(* number of them interleave, with each other and with enrolments, and     *)
(* each of their statements may fail.  An agent need not be entered to be  *)
(* in a match.  A match has two participants; the winner scores 1, the     *)
(* others 0, and the scoring policy is the default one.  Contestants are   *)
(* numbers: the order of their ids.  ranking_applied_runs is left out:     *)
(* what reads it (ApplyMatchResultIncremental) is called by no part of the *)
(* program.                                                                *)
(***************************************************************************)
EXTENDS Integers, FiniteSets, Sequences

CONSTANTS
    Contestants, \* the agents with a place in the contest or in its matches
    Late,        \* those who are not entered at the start
    Matches,
    Pairing,     \* Pairing[m]: the two agents of m
    Followed,    \* bound: the matches whose commit a recalculation follows
    Requests,    \* bound: recalculations an administrator asks for
    Publishers   \* bound: requests to publish a snapshot

ASSUME RankAgentsAssumption == Contestants \subseteq Nat /\ IsFiniteSet(Contestants)
ASSUME FollowedAssumption == Followed \subseteq Matches
ASSUME NamesAssumption == "none" \notin Followed \union Requests
ASSUME PairingAssumption ==
    Pairing \in [Matches -> {p \in SUBSET Contestants : Cardinality(p) = 2}]

VARIABLES
    winners,     \* winners[m]: -1 while m is not committed, 0 for a draw
    enrolment,   \* enrolment[a]: how far the request that enters a is
    calc,        \* calc[r]: the recalculation r
    board,       \* board[a]: the row of a: the matches counted in it, its rank
    sole,        \* the last recalculation begun, if none was under way then
    \* history: agents whose row an enrolment wrote since that recalculation began
    restarted,
    snapshots,   \* rows of contest_rankings_snapshots
    pub          \* pub[p]: a publication under way

rankVars == <<winners, enrolment, calc, board, sole, restarted, snapshots, pub>>

\* The recalculation that follows the commit of a match is named after it.
Recalcs == Followed \union Requests
NoCalc == [pc |-> "idle", agents |-> {}, matches |-> {}, order |-> <<>>, next |-> 1]
\* An error returns no table.
Failed == [NoCalc EXCEPT !.pc = "failed"]
Row == [counted: SUBSET Matches, rank: Nat]
\* Ranks start at 1.
NoRow == [counted |-> {}, rank |-> 0]
FirstRow == [counted |-> {}, rank |-> 1]
Committed == {m \in Matches : winners[m] # -1}
Entered == {a \in Contestants : enrolment[a] \in {"inserted", "ended"}}
Playing(M) == UNION {Pairing[m] : m \in M}

RankTypeOK ==
    /\ winners \in [Matches -> Contestants \union {-1, 0}]
    /\ enrolment \in [Contestants -> {"none", "checked", "inserted", "ended"}]
    /\ \A r \in Recalcs :
        /\ calc[r].pc \in {"idle", "listed", "read", "sorted", "done", "failed"}
        /\ calc[r].agents \subseteq Entered
        /\ calc[r].matches \subseteq Committed
        /\ calc[r].order \in Seq(Contestants)
        /\ calc[r].next \in 1..(Cardinality(Contestants) + 1)
    /\ board \in [Contestants -> Row]
    /\ sole \in Recalcs \union {"none"}
    /\ restarted \subseteq Contestants
    /\ \A s \in snapshots : s.version \in Nat /\ s.by \in Publishers
    /\ pub \in [Publishers -> [pc: {"idle", "read", "done", "failed"}, version: Nat]]

RankInit ==
    /\ winners = [m \in Matches |-> -1]
    /\ enrolment = [a \in Contestants |-> IF a \in Late THEN "none" ELSE "ended"]
    /\ calc = [r \in Recalcs |-> NoCalc]
    /\ board = [a \in Contestants |-> IF a \in Late THEN NoRow ELSE FirstRow]
    /\ sole = "none"
    /\ restarted = {}
    /\ snapshots = {}
    /\ pub = [p \in Publishers |-> [pc |-> "idle", version |-> 0]]

-----------------------------------------------------------------------------
(* The order of the table.                                                 *)

Won(a, M) == {m \in M : winners[m] = a}
Drawn(a, M) == {m \in M : a \in Pairing[m] /\ winners[m] = 0}
Lost(a, M) == {m \in M : a \in Pairing[m] /\ winners[m] \notin {0, a}}
Points(a, M) == 3 * Cardinality(Won(a, M)) + Cardinality(Drawn(a, M))
ScoreDiff(a, M) == Cardinality(Won(a, M)) - Cardinality(Lost(a, M))
HeadToHead(a, b, M) == Points(a, {m \in M : Pairing[m] = {a, b}})

Ahead(gaps) == \E i \in DOMAIN gaps : gaps[i] > 0 /\ \A j \in 1..(i - 1) : gaps[j] = 0

\* Mutant: agents level on everything are not told apart.
PrecedesLoosely(a, b, M) ==
    LET gaps == <<Points(a, M) - Points(b, M), ScoreDiff(a, M) - ScoreDiff(b, M),
                  HeadToHead(a, b, M) - HeadToHead(b, a, M),
                  Cardinality(Won(a, M)) - Cardinality(Won(b, M))>>
    IN  Ahead(gaps)

\* Points, then the tie-breakers of the default policy, then the id.
Precedes(a, b, M) ==
    LET gaps == <<Points(a, M) - Points(b, M), ScoreDiff(a, M) - ScoreDiff(b, M),
                  HeadToHead(a, b, M) - HeadToHead(b, a, M),
                  Cardinality(Won(a, M)) - Cardinality(Won(b, M)), b - a>>
    IN  Ahead(gaps)

\* What sorting a map's values by that comparison may come to: the order the
\* map is iterated in is random, and the sort only leaves no two neighbours
\* the wrong way round.
Tables(S, M) ==
    {t \in [1..Cardinality(S) -> S] :
        /\ \A i, j \in DOMAIN t : t[i] = t[j] => i = j
        /\ \A i \in 1..(Cardinality(S) - 1) : ~Precedes(t[i + 1], t[i], M)}

Transitive(S, M) ==
    \A a, b, c \in S : Precedes(a, b, M) /\ Precedes(b, c, M) => Precedes(a, c, M)

-----------------------------------------------------------------------------
(* Enrolments, as far as they concern the table (Registration has the rest). *)

\* No entry and no row are found; both may be there when the inserts are made.
CheckEntry(a) ==
    /\ enrolment[a] = "none" /\ board[a] = NoRow
    /\ enrolment' = [enrolment EXCEPT ![a] = "checked"]
    /\ UNCHANGED <<winners, calc, board, sole, restarted, snapshots, pub>>

InsertEntry(a) ==
    /\ enrolment[a] = "checked"
    /\ enrolment' \in {[enrolment EXCEPT ![a] = "inserted"], [enrolment EXCEPT ![a] = "none"]}
    /\ UNCHANGED <<winners, calc, board, sole, restarted, snapshots, pub>>

\* A row a recalculation wrote meanwhile is overwritten.
InsertFirstRow(a) ==
    /\ enrolment[a] = "inserted"
    /\ enrolment' = [enrolment EXCEPT ![a] = "ended"]
    /\ \/ board' = [board EXCEPT ![a] = FirstRow] /\ restarted' = restarted \union {a}
       \/ UNCHANGED <<board, restarted>>
    /\ UNCHANGED <<winners, calc, sole, snapshots, pub>>

-----------------------------------------------------------------------------
(* Recalculations.                                                         *)

Commit(m, w) ==
    /\ winners[m] = -1
    /\ winners' = [winners EXCEPT ![m] = w]
    /\ UNCHANGED <<enrolment, calc, board, sole, restarted, snapshots, pub>>

Running(r) == calc[r].pc \in {"listed", "read", "sorted"}

\* The entries are listed; when that fails the recalculation goes on without.
BeginRecalculation(r) ==
    /\ calc[r].pc = "idle"
    /\ r \in Matches => r \in Committed
    /\ \/ /\ calc' = [calc EXCEPT ![r].pc = "listed", ![r].agents = Entered]
          /\ sole' = IF \E q \in Recalcs : Running(q) THEN "none" ELSE r
       \/ /\ calc' = [calc EXCEPT ![r].pc = "listed"]
          /\ sole' = "none"
    /\ restarted' = {}
    /\ UNCHANGED <<winners, enrolment, board, snapshots, pub>>

ListMatches(r) ==
    /\ calc[r].pc = "listed"
    /\ \/ calc' = [calc EXCEPT ![r].pc = "read", ![r].matches = Committed]
       \/ calc' = [calc EXCEPT ![r] = Failed]
    /\ UNCHANGED <<winners, enrolment, board, sole, restarted, snapshots, pub>>

\* The agents listed and those of the matches are in the table.
Listed(r) == calc[r].agents \union Playing(calc[r].matches)

\* Results are read match by match, and an error ends the recalculation.
CountMatches(r) ==
    /\ calc[r].pc = "read"
    /\ \/ \E t \in Tables(Listed(r), calc[r].matches) :
            calc' = [calc EXCEPT ![r].pc = "sorted", ![r].order = t]
       \/ calc' = [calc EXCEPT ![r] = Failed]
    /\ UNCHANGED <<winners, enrolment, board, sole, restarted, snapshots, pub>>

\* Mutant: on conflict the rank is not among the columns updated.
UpsertKeepsRank(r) ==
    LET c == calc[r] IN
    /\ c.pc = "sorted"
    /\ \/ /\ c.next <= Len(c.order)
          /\ board' = [board EXCEPT ![c.order[c.next]].counted = c.matches]
          /\ calc' = [calc EXCEPT ![r].next = @ + 1]
       \/ /\ c.next > Len(c.order)
          /\ calc' = [calc EXCEPT ![r].pc = "done"]
          /\ UNCHANGED board
       \/ /\ calc' = [calc EXCEPT ![r] = Failed]
          /\ UNCHANGED board
    /\ UNCHANGED <<winners, enrolment, sole, restarted, snapshots, pub>>

\* One row after the other; the first that fails ends the recalculation.
UpsertRanking(r) ==
    LET c == calc[r] IN
    /\ c.pc = "sorted"
    /\ \/ /\ c.next <= Len(c.order)
          /\ board' = [board EXCEPT ![c.order[c.next]] =
                          [counted |-> c.matches, rank |-> c.next]]
          /\ calc' = [calc EXCEPT ![r].next = @ + 1]
       \/ /\ c.next > Len(c.order)
          /\ calc' = [calc EXCEPT ![r].pc = "done"]
          /\ UNCHANGED board
       \/ /\ calc' = [calc EXCEPT ![r] = Failed]
          /\ UNCHANGED board
    /\ UNCHANGED <<winners, enrolment, sole, restarted, snapshots, pub>>

-----------------------------------------------------------------------------
(* Snapshots.                                                              *)

Latest ==
    LET versions == {s.version : s \in snapshots} \union {0}
    IN  CHOOSE v \in versions : \A x \in versions : x <= v

\* The table and the latest version are read, and an insert follows.  What the
\* table says just then is left out: nothing keeps it from being half written.
ReadForSnapshot(p) ==
    /\ pub[p].pc = "idle"
    /\ pub' = [pub EXCEPT ![p] = [pc |-> "read", version |-> Latest + 1]]
    /\ UNCHANGED <<winners, enrolment, calc, board, sole, restarted, snapshots>>

SnapshotOf(p) == [version |-> pub[p].version, by |-> p]

\* Mutant: the table has no unique key on contest and version.
CreateSnapshotAnyway(p) ==
    /\ pub[p].pc = "read"
    /\ pub' = [pub EXCEPT ![p].pc = "done"]
    /\ snapshots' = snapshots \union {SnapshotOf(p)}
    /\ UNCHANGED <<winners, enrolment, calc, board, sole, restarted>>

\* Two publications that have read the same version: one insert fails.
CreateRankingSnapshot(p) ==
    /\ pub[p].pc = "read"
    /\ \/ /\ \A s \in snapshots : s.version # pub[p].version
          /\ pub' = [pub EXCEPT ![p].pc = "done"]
          /\ snapshots' = snapshots \union {SnapshotOf(p)}
       \/ pub' = [pub EXCEPT ![p].pc = "failed"] /\ UNCHANGED snapshots
    /\ UNCHANGED <<winners, enrolment, calc, board, sole, restarted>>

-----------------------------------------------------------------------------

RecalcStep(r) ==
    \/ BeginRecalculation(r) \/ ListMatches(r) \/ CountMatches(r) \/ UpsertRanking(r)

EnterStep(a) == CheckEntry(a) \/ InsertEntry(a) \/ InsertFirstRow(a)

TableStep ==
    \/ \E m \in Matches : \E w \in Pairing[m] \union {0} : Commit(m, w)
    \/ \E a \in Contestants : EnterStep(a)
    \/ \E r \in Recalcs : RecalcStep(r)

PublishStep == \E p \in Publishers : ReadForSnapshot(p) \/ CreateRankingSnapshot(p)

RankNext == TableStep \/ PublishStep

RankSpec == RankInit /\ [][RankNext]_rankVars

-----------------------------------------------------------------------------

\* A recalculation that listed the entries and met no other one leaves one table
\* behind, whatever was there before: every row counts the same matches and the
\* ranks are its order.  Only the row of an agent who was being enrolled at the
\* time may say something else, having been overwritten.
RecalculationRepairs ==
    \A r \in Recalcs :
        sole = r /\ calc[r].pc = "done"
        => \A a \in Contestants \ restarted :
            \/ board[a] = NoRow
            \/ \E i \in DOMAIN calc[r].order :
                   /\ calc[r].order[i] = a
                   /\ board[a] = [counted |-> calc[r].matches, rank |-> i]

\* Recalculations of the same agents from the same matches give the same table,
\* unless agents level on points and difference have beaten each other in a
\* circle.
TablesAgree ==
    \A r, q \in Recalcs :
        calc[r].order # calc[q].order
        => \/ calc[r].matches # calc[q].matches
           \/ {calc[r].order[i] : i \in DOMAIN calc[r].order}
                 # {calc[q].order[i] : i \in DOMAIN calc[q].order}
           \/ ~Transitive(Contestants, calc[r].matches)

\* Published versions have the numbers 1, 2, ... and each is one snapshot,
\* also when several are published at a time.
VersionsDense ==
    {s.version : s \in snapshots} = 1..Cardinality(snapshots)

\* Once the recalculation after every match is done, the table counts them all.
FinalTableComplete ==
    Followed = Matches /\ (\A r \in Recalcs : calc[r].pc = "done")
    => \A a \in Playing(Matches) : board[a].counted = Matches
===============================================================================
