----------------------------- MODULE RateLimiter -----------------------------
(***************************************************************************)
(* server/ratelimit.go: requests of a client are counted from the first one *)
(* on, for a window; the next request after the window starts a new count.  *)
(* A background loop forgets clients whose window is over.  One mutex makes  *)
(* Allow and each round of the loop atomic.                                 *)
(***************************************************************************)
EXTENDS Integers, FiniteSets

CONSTANTS
    Clients,
    MaxRequests,    \* admitted in one window
    Window,         \* its length, in ticks
    LastTime        \* bound: where the clock stops

ASSUME LimiterAssumption ==
    MaxRequests \in Nat \ {0} /\ Window \in Nat \ {0} /\ LastTime \in Nat

VARIABLES
    clock,
    limits,         \* limits[c]: count and resetTime; a count of 0: no entry
    admitted        \* history: the requests let through, client, time and rank

limVars == <<clock, limits, admitted>>

NoLimit == [count |-> 0, resetTime |-> 0]

LimTypeOK ==
    /\ clock \in 0..LastTime
    /\ limits \in [Clients -> [count: 0..MaxRequests, resetTime: 0..LastTime + Window]]
    /\ \A a \in admitted : a.client \in Clients /\ a.time \in 0..clock /\ a.rank \in Nat

LimInit ==
    /\ clock = 0
    /\ limits = [c \in Clients |-> NoLimit]
    /\ admitted = {}

WindowOver(c) == limits[c].count = 0 \/ clock > limits[c].resetTime

Admits(c) == admitted' = admitted \union {[client |-> c, time |-> clock,
    rank |-> 1 + Cardinality({a \in admitted : a.client = c /\ a.time = clock})]}

Allow(c) ==
    /\ WindowOver(c) \/ limits[c].count < MaxRequests
    /\ limits' = [limits EXCEPT ![c] =
           IF WindowOver(c) THEN [count |-> 1, resetTime |-> clock + Window]
           ELSE [limits[c] EXCEPT !.count = @ + 1]]
    /\ Admits(c)
    /\ UNCHANGED clock

\* Mutant: every client is forgotten.
CleanupForgetsAll ==
    /\ limits' = [c \in Clients |-> NoLimit]
    /\ UNCHANGED <<clock, admitted>>

Cleanup ==
    /\ limits' = [c \in Clients |-> IF clock > limits[c].resetTime THEN NoLimit ELSE limits[c]]
    /\ UNCHANGED <<clock, admitted>>

LimTick ==
    /\ clock < LastTime
    /\ clock' = clock + 1
    /\ UNCHANGED <<limits, admitted>>

LimNext == (\E c \in Clients : Allow(c)) \/ Cleanup \/ LimTick

LimSpec == LimInit /\ [][LimNext]_limVars

-----------------------------------------------------------------------------
Within(c, t, w) == {a \in admitted : a.client = c /\ a.time \in t..t + w}

\* However the windows fall, no stretch of one window's length sees more than twice
\* the limit, with the background loop forgetting clients meanwhile.
AtMostTwoWindows == \A c \in Clients, t \in 0..clock :
    Cardinality(Within(c, t, Window)) <= 2 * MaxRequests

\* A sliding window: no stretch of one window's length sees more than the limit.
SlidingWindow == \A c \in Clients, t \in 0..clock :
    Cardinality(Within(c, t, Window - 1)) <= MaxRequests
=============================================================================
