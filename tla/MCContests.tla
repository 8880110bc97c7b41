------------------------------- MODULE MCContests -------------------------------
(***************************************************************************)
(* A contest: agents being registered, and the leaderboard.  They share    *)
(* the rows of the leaderboard: each module has the other's writes of them *)
(* as actions of its own (InsertFirstRow in Rankings, RecalculationAddsRow *)
(* in Registration).  Publications read the rows and nothing else.  So the *)
(* parts are explored one at a time, and part says which.                  *)
(***************************************************************************)
EXTENDS Registration, Rankings

CONSTANTS
    Parts,  \* the parts of this instance
    a1, a2, m1, m2, m3

ContestantsDef == 1..3

\* Every two agents meet in one match, so that they can beat each other in a
\* circle.
PairingDef == [m \in Matches |-> CASE m = m1 -> {1, 2}
                                   [] m = m2 -> {2, 3}
                                   [] OTHER -> {1, 3}]

VARIABLE part

MCInit == part \in Parts /\ RegInit /\ RankInit

MCNext ==
    \/ part = "registration" /\ RegNext /\ UNCHANGED <<rankVars, part>>
    \/ part = "table" /\ TableStep /\ UNCHANGED <<regVars, part>>
    \/ part = "snapshots" /\ PublishStep /\ UNCHANGED <<regVars, part>>

MCSpec == MCInit /\ [][MCNext]_<<regVars, rankVars, part>>
=================================================================================
