------------------------------- MODULE Sessions -------------------------------
(***************************************************************************)
(* auth/session.go and repository/session.go: refresh sessions, their       *)
(* rotation within a family, reuse detection, logout and the limit per      *)
(* user.  A request makes several database calls, each a statement of its   *)
(* own, and other requests act between them.                                *)
(*                                                                         *)
(* A session is a row and its refresh token.  Sessions are numbered in the  *)
(* order of created_at, which is taken before the row is inserted.  A       *)
(* family carries the number of its first session.                          *)
(***************************************************************************)
EXTENDS Integers, FiniteSets

CONSTANTS
    Users,
    Calls,          \* the requests that may be under way at a time
    MaxMinted,      \* bound: the sessions issued
    MaxSessions,    \* DefaultMaxSessionsPerUser
    Expiring,       \* bound: the sessions whose expiry may pass
    NoUser

ASSUME MintedAssumption == MaxMinted \in Nat
ASSUME MaxSessionsAssumption == MaxSessions \in Nat \ {0}
ASSUME NoUserAssumption == NoUser \notin Users

VARIABLES
    status,         \* status[n]: "none" before the row exists, "live" or "revoked"
    owner,          \* owner[n]
    fam,            \* fam[n], 0 until n is minted
    expired,        \* rows past expires_at
    known,          \* tokens that were answered to a client
    minted,         \* the number given out last
    activeUsers,    \* users with active = TRUE
    call,           \* call[c]: the next step of c and what it carries
    exchanged,      \* history: how often token n was rotated
    ended,          \* history: families revoked as a whole
    overlapped,     \* history: those with a refresh under way at that moment
    unpruned        \* history: failed prunes of a user since the last good one

sessVars == <<status, owner, fam, expired, known, minted, activeUsers, call,
              exchanged, ended, overlapped, unpruned>>

Numbers == 1..MaxMinted

\* user: about to load the user; rotate: to revoke the presented session; issue:
\* to make the next one; insert, prune; end: to revoke a family; drop: an expired
\* session.
CallSteps == {"new", "user", "rotate", "issue", "insert", "prune", "end", "drop"}
CallState == [step: CallSteps, user: Users \union {NoUser}, family: 0..MaxMinted,
              number: 0..MaxMinted]
NewCall == [step |-> "new", user |-> NoUser, family |-> 0, number |-> 0]

SessTypeOK ==
    /\ status \in [Numbers -> {"none", "live", "revoked"}]
    /\ owner \in [Numbers -> Users \union {NoUser}]
    /\ fam \in [Numbers -> 0..MaxMinted]
    /\ expired \subseteq Numbers /\ known \subseteq Numbers
    /\ minted \in 0..MaxMinted
    /\ activeUsers \subseteq Users
    /\ call \in [Calls -> CallState]
    /\ exchanged \in [Numbers -> Nat]
    /\ ended \subseteq Numbers /\ overlapped \subseteq ended
    /\ unpruned \in [Users -> Nat]

SessInit ==
    /\ status = [n \in Numbers |-> "none"]
    /\ owner = [n \in Numbers |-> NoUser]
    /\ fam = [n \in Numbers |-> 0]
    /\ expired = {} /\ known = {} /\ minted = 0
    /\ activeUsers = Users
    /\ call = [c \in Calls |-> NewCall]
    /\ exchanged = [n \in Numbers |-> 0]
    /\ ended = {} /\ overlapped = {}
    /\ unpruned = [u \in Users |-> 0]

AtStep(c, s) == call[c].step = s
GoesTo(c, s) == call' = [call EXCEPT ![c].step = s]
Returns(c) == call' = [call EXCEPT ![c] = NewCall]
Presents(c, s, n) == call' = [call EXCEPT ![c] =
    [step |-> s, user |-> owner[n], family |-> fam[n], number |-> n]]

\* A call that may still put a session into family f.
Refreshing(c, f) ==
    call[c].family = f /\ call[c].step \in {"user", "rotate", "issue", "insert"}

LiveOf(u) == {n \in Numbers : status[n] = "live" /\ owner[n] = u}
RevokedAll(S) == [n \in Numbers |->
    IF n \in S /\ status[n] = "live" THEN "revoked" ELSE status[n]]

-----------------------------------------------------------------------------
\* The first step of each request.

\* Login checked that the account is active; a legacy refresh token is exchanged
\* for a new family in the same way.
CreateSession(c, u) ==
    /\ AtStep(c, "new") /\ u \in activeUsers
    /\ call' = [call EXCEPT ![c] =
           [step |-> "issue", user |-> u, family |-> 0, number |-> 0]]
    /\ UNCHANGED <<status, owner, fam, expired, known, minted, activeUsers, exchanged,
                   ended, overlapped, unpruned>>

\* RefreshSession up to its first write or its look at the user.
RefreshSession(c, n) ==
    /\ AtStep(c, "new") /\ n \in known
    /\ Presents(c, IF status[n] = "revoked" THEN "end"
                   ELSE IF n \in expired THEN "drop" ELSE "user", n)
    /\ UNCHANGED <<status, owner, fam, expired, known, minted, activeUsers, exchanged,
                   ended, overlapped, unpruned>>

RevokeSession(c, n) ==
    /\ AtStep(c, "new") /\ n \in known
    /\ Presents(c, "end", n)
    /\ UNCHANGED <<status, owner, fam, expired, known, minted, activeUsers, exchanged,
                   ended, overlapped, unpruned>>

-----------------------------------------------------------------------------
\* The later statements.

CheckUser(c) ==
    /\ AtStep(c, "user")
    /\ GoesTo(c, IF call[c].user \in activeUsers THEN "rotate" ELSE "end")
    /\ UNCHANGED <<status, owner, fam, expired, known, minted, activeUsers, exchanged,
                   ended, overlapped, unpruned>>

\* Mutant: the presented session is left as it is.
RotateLeavesLive(c) ==
    /\ AtStep(c, "rotate")
    /\ exchanged' = [exchanged EXCEPT ![call[c].number] = @ + 1]
    /\ call' = [call EXCEPT ![c].step = "issue", ![c].number = 0]
    /\ UNCHANGED <<status, owner, fam, expired, known, minted, activeUsers, ended,
                   overlapped, unpruned>>

Rotate(c) ==
    /\ AtStep(c, "rotate")
    /\ status' = RevokedAll({call[c].number})
    /\ exchanged' = [exchanged EXCEPT ![call[c].number] = @ + 1]
    /\ call' = [call EXCEPT ![c].step = "issue", ![c].number = 0]
    /\ UNCHANGED <<owner, fam, expired, known, minted, activeUsers, ended, overlapped,
                   unpruned>>

\* issueSessionToken: created_at is read, and the row inserted after that.
Mint(c) ==
    /\ AtStep(c, "issue") /\ minted < MaxMinted
    /\ minted' = minted + 1
    /\ owner' = [owner EXCEPT ![minted'] = call[c].user]
    /\ fam' = [fam EXCEPT ![minted'] =
           IF call[c].family = 0 THEN minted' ELSE call[c].family]
    /\ call' = [call EXCEPT ![c] = [step |-> "insert", user |-> call[c].user,
           family |-> fam'[minted'], number |-> minted']]
    /\ UNCHANGED <<status, expired, known, activeUsers, exchanged, ended, overlapped,
                   unpruned>>

Insert(c) ==
    /\ AtStep(c, "insert")
    /\ status' = [status EXCEPT ![call[c].number] = "live"]
    /\ GoesTo(c, "prune")
    /\ UNCHANGED <<owner, fam, expired, known, minted, activeUsers, exchanged, ended,
                   overlapped, unpruned>>

\* Mutant: one session too many is kept.
OldestButOne(u) ==
    {n \in LiveOf(u) : Cardinality({k \in LiveOf(u) : k > n}) > MaxSessions}

\* The live sessions of u that are not among its newest MaxSessions.
Oldest(u) ==
    {n \in LiveOf(u) : Cardinality({k \in LiveOf(u) : k > n}) >= MaxSessions}

PruneOldestUserSessions(c) ==
    /\ AtStep(c, "prune")
    /\ status' = RevokedAll(Oldest(call[c].user))
    /\ unpruned' = [unpruned EXCEPT ![call[c].user] = 0]
    /\ known' = known \union {call[c].number}
    /\ Returns(c)
    /\ UNCHANGED <<owner, fam, expired, minted, activeUsers, exchanged, ended, overlapped>>

\* A failed prune is ignored.  (A client that does not get the answer is one that
\* never presents the token.)
PruneFails(c) ==
    /\ AtStep(c, "prune")
    /\ unpruned' = [unpruned EXCEPT ![call[c].user] = @ + 1]
    /\ known' = known \union {call[c].number}
    /\ Returns(c)
    /\ UNCHANGED <<status, owner, fam, expired, minted, activeUsers, exchanged, ended,
                   overlapped>>

Ends(F) ==
    /\ status' = RevokedAll({n \in Numbers : fam[n] \in F})
    /\ ended' = ended \union F
    /\ overlapped' = overlapped \union {f \in F : \E c \in Calls : Refreshing(c, f)}

\* Mutant: only the presented session is revoked.
RevokeOnlyPresented(c) ==
    /\ AtStep(c, "end")
    /\ status' = RevokedAll({call[c].number})
    /\ ended' = ended \union {call[c].family}
    /\ overlapped' = overlapped \union
           {f \in {call[c].family} : \E b \in Calls : Refreshing(b, f)}
    /\ Returns(c)
    /\ UNCHANGED <<owner, fam, expired, known, minted, activeUsers, exchanged, unpruned>>

RevokeSessionFamily(c) ==
    /\ AtStep(c, "end")
    /\ Ends({call[c].family})
    /\ Returns(c)
    /\ UNCHANGED <<owner, fam, expired, known, minted, activeUsers, exchanged, unpruned>>

DropExpired(c) ==
    /\ AtStep(c, "drop")
    /\ status' = RevokedAll({call[c].number})
    /\ Returns(c)
    /\ UNCHANGED <<owner, fam, expired, known, minted, activeUsers, exchanged, ended,
                   overlapped, unpruned>>

\* A statement fails, or the request is cancelled: nothing more is done.
StepFails(c) ==
    /\ call[c].step \in {"rotate", "issue", "insert", "end", "drop"}
    /\ Returns(c)
    /\ UNCHANGED <<status, owner, fam, expired, known, minted, activeUsers, exchanged,
                   ended, overlapped, unpruned>>

-----------------------------------------------------------------------------
\* One statement each.

RevokeAllUserSessions(u) ==
    /\ Ends({fam[n] : n \in LiveOf(u)})
    /\ UNCHANGED <<owner, fam, expired, known, minted, activeUsers, call, exchanged,
                   unpruned>>

ActivateUser(u) ==
    /\ activeUsers' \in {activeUsers \union {u}, activeUsers \ {u}}
    /\ UNCHANGED <<status, owner, fam, expired, known, minted, call, exchanged, ended,
                   overlapped, unpruned>>

\* expires_at passes.
SessionExpires(n) ==
    /\ n \in Expiring /\ status[n] = "live"
    /\ expired' = expired \union {n}
    /\ UNCHANGED <<status, owner, fam, known, minted, activeUsers, call, exchanged, ended,
                   overlapped, unpruned>>

SessNext ==
    \/ \E c \in Calls :
        \/ \E u \in Users : CreateSession(c, u)
        \/ \E n \in Numbers : RefreshSession(c, n) \/ RevokeSession(c, n)
        \/ CheckUser(c) \/ Rotate(c) \/ Mint(c) \/ Insert(c)
        \/ PruneOldestUserSessions(c) \/ PruneFails(c)
        \/ RevokeSessionFamily(c) \/ DropExpired(c) \/ StepFails(c)
    \/ \E u \in Users : RevokeAllUserSessions(u) \/ ActivateUser(u)
    \/ \E n \in Numbers : SessionExpires(n)

SessSpec == SessInit /\ [][SessNext]_sessVars

-----------------------------------------------------------------------------
\* The next session of family f is being made.
Pending(c, f) == call[c].family = f /\ call[c].step \in {"issue", "insert"}
LiveIn(n, f) == status[n] = "live" /\ fam[n] = f

\* A family is a chain: unless one of its tokens was exchanged twice, it has one
\* live session or one being made, never two.
FamilyLinear == \A f \in Numbers :
    (\A n \in Numbers : fam[n] = f => exchanged[n] <= 1) =>
        /\ \A n, k \in Numbers : LiveIn(n, f) /\ LiveIn(k, f) => n = k
        /\ \A b, c \in Calls : Pending(b, f) /\ Pending(c, f) => b = c
        /\ \A n \in Numbers, c \in Calls : ~(LiveIn(n, f) /\ Pending(c, f))

\* A family that was revoked by logout or reuse detection, with no refresh under
\* way, never has a live session again.
EndedFamiliesStayEnded == \A f \in ended \ overlapped :
    /\ \A n \in Numbers : ~LiveIn(n, f)
    /\ \A c \in Calls : ~Refreshing(c, f)

\* A user has no more live sessions than the limit, beyond those whose prune is
\* still to come or has failed.
SessionLimit == \A u \in Users :
    Cardinality(LiveOf(u)) <=
        MaxSessions + unpruned[u]
        + Cardinality({c \in Calls : AtStep(c, "prune") /\ call[c].user = u})

\* A refresh token is exchanged at most once.
OneTimeRotation == \A n \in Numbers : exchanged[n] <= 1
=============================================================================
