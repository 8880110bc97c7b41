--------------------------- MODULE FencedOwnership ---------------------------
(***************************************************************************)
(* What the job queue and the fenced commit promise, without rows, leases, *)
(* processes or messages.                                                  *)
(*                                                                         *)
(* A match goes through rounds, one for each request to run it.  A request *)
(* made while a round is open uses its round up without opening it.  While *)
(* a round is open the right to decide it is granted, at most MaxGrants    *)
(* times; each grant is a new epoch and takes the right away from all the  *)
(* earlier ones, those of earlier rounds too.  A verdict belongs to the    *)
(* open round and to the latest epoch, and closes the round.               *)
(***************************************************************************)
EXTENDS Integers

CONSTANTS
    Matches,
    Rounds,     \* the names a round may have
    MaxGrants   \* how often the right to decide one round may be granted

VARIABLES
    used,       \* used[m]: the rounds of m requested so far
    round,      \* round[m]: the round opened last, 0 before the first
    open,       \* the matches whose latest round is still undecided
    grants,     \* grants[m]: how many grants that round has seen
    epoch,      \* epoch[m]: the latest epoch granted for m, in any round
    verdicts    \* the decisions taken: match, run (the round) and token

vars == <<used, round, open, grants, epoch, verdicts>>

Verdict == [match: Matches, run: Rounds, token: Nat]

TypeOK ==
    /\ used \in [Matches -> SUBSET Rounds]
    /\ round \in [Matches -> Rounds \union {0}]
    /\ open \subseteq Matches
    /\ grants \in [Matches -> Nat]
    /\ epoch \in [Matches -> Nat]
    /\ verdicts \subseteq Verdict

Init ==
    /\ used = [m \in Matches |-> {}]
    /\ round = [m \in Matches |-> 0]
    /\ open = {}
    /\ grants = [m \in Matches |-> 0]
    /\ epoch = [m \in Matches |-> 0]
    /\ verdicts = {}

Request(m, r) ==
    /\ r \in Rounds \ used[m]
    /\ used' = [used EXCEPT ![m] = @ \union {r}]

Open(m, r) ==
    /\ m \notin open
    /\ Request(m, r)
    /\ round' = [round EXCEPT ![m] = r]
    /\ open' = open \union {m}
    /\ grants' = [grants EXCEPT ![m] = 0]
    /\ UNCHANGED <<epoch, verdicts>>

\* The request is answered like any other, but its round never opens.
Drop(m, r) ==
    /\ m \in open
    /\ Request(m, r)
    /\ UNCHANGED <<round, open, grants, epoch, verdicts>>

Grant(m) ==
    /\ m \in open
    /\ grants[m] < MaxGrants
    /\ grants' = [grants EXCEPT ![m] = @ + 1]
    /\ epoch' = [epoch EXCEPT ![m] = @ + 1]
    /\ UNCHANGED <<used, round, open, verdicts>>

Decide(m) ==
    /\ m \in open
    /\ grants[m] > 0
    /\ verdicts' = verdicts \union
            {[match |-> m, run |-> round[m], token |-> epoch[m]]}
    /\ open' = open \ {m}
    /\ UNCHANGED <<used, round, grants, epoch>>

\* A round is given up only when its grants are used up.
GiveUp(m) ==
    /\ m \in open
    /\ grants[m] = MaxGrants
    /\ open' = open \ {m}
    /\ UNCHANGED <<used, round, grants, epoch, verdicts>>

Next == \E m \in Matches :
    \/ \E r \in Rounds : Open(m, r) \/ Drop(m, r)
    \/ Grant(m)
    \/ Decide(m)
    \/ GiveUp(m)

Spec == Init /\ [][Next]_vars

-----------------------------------------------------------------------------

\* A round has at most one verdict.
OneVerdictPerRound ==
    \A c, d \in verdicts : c.match = d.match /\ c.run = d.run => c = d

\* An epoch decides at most once: a right that was used, or that passed on to
\* somebody else, cannot be used again in any later round.
OneVerdictPerEpoch ==
    \A c, d \in verdicts : c.match = d.match /\ c.token = d.token => c = d

\* An open round was requested.
OpenRoundsRequested == \A m \in open : round[m] \in used[m]

\* A round with a verdict was requested, and is closed or over.
DecidedRoundsClosed ==
    \A c \in verdicts :
        /\ c.run \in used[c.match]
        /\ c.run = round[c.match] => c.match \notin open

\* No verdict is ahead of the latest epoch, and once the right has been
\* granted in an open round every earlier verdict is behind it.
EpochsAhead ==
    \A c \in verdicts :
        /\ c.token <= epoch[c.match]
        /\ c.match \in open /\ grants[c.match] > 0 => c.token < epoch[c.match]

\* The inductive invariant of FencedOwnershipProofs.
IInv ==
    /\ TypeOK
    /\ OneVerdictPerRound
    /\ OneVerdictPerEpoch
    /\ OpenRoundsRequested
    /\ DecidedRoundsClosed
    /\ EpochsAhead
=============================================================================
